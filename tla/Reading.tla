------------------------------- MODULE Reading -------------------------------
(***************************************************************************)
(* Reading a whole text with a definition: Parse of pkg/engine.            *)
(*                                                                         *)
(* A line is a letter, which stands for all the lines the expressions of a *)
(* definition say the same of; an expression is the set of the letters it  *)
(* matches.  "" is an empty line and "_" one of spaces, and a line made of *)
(* several, folded or quoted, is matched by how it opens.  What a record   *)
(* holds is the lines it was read from, and for a row the header it stands *)
(* under; converting the values is reading a line or refusing it.          *)
(***************************************************************************)
EXTENDS Integers, Sequences, FiniteSets, SequencesExt

CONSTANTS Letters,     \* what a line may be
          Garbled,     \* the records prepareRecord and checkRecord refuse
          Definitions  \* the definitions that are read with

Opens(l, E) == l.text[1] \in E

\* unicode blanks only, and for a line before or after the text what
\* skip_blank says.
Blank(l) == l.text \in {<<"">>, <<"_">>}
EdgeBlank(l, skipBlank) == IF skipBlank THEN Blank(l) ELSE l.text = <<"">>

Trimmed(l) == IF l.text = <<"_">> THEN <<"">> ELSE l.text

Total(ns) == FoldLeft(LAMBDA sum, n : sum + n, 0, ns)

\* What a held line costs, its line breaks included.
LineBytes(text) == Total([i \in DOMAIN text |-> IF text[i] = "" THEN 1 ELSE 2])

LinesBytes(ls) == Total([i \in DOMAIN ls |-> LineBytes(ls[i].text)])

-----------------------------------------------------------------------------
(* Cutting and picking.                                                    *)

Where(ls, Test(_)) == {i \in DOMAIN ls : Test(ls[i])}

\* The k-th of the positions in I.
Nth(I, k) == CHOOSE i \in I : Cardinality({j \in I : j < i}) = k - 1

\* The elements at the positions in I, in order.
Pick(s, I) == [k \in 1..Cardinality(I) |-> s[Nth(I, k)]]

\* The pieces of s that begin at the positions in B, up to the next.
CutAt(s, B) ==
  [k \in 1..Cardinality(B) |-> SubSeq(s, Nth(B, k), IF k = Cardinality(B) THEN Len(s) ELSE Nth(B, k + 1) - 1)]

Joined(ls) == [text |-> FlattenSeq([i \in DOMAIN ls |-> ls[i].text]), num |-> ls[1].num]

Nums(ls) == {ls[i].num : i \in DOMAIN ls}

\* A row of a table, with its header; anything else stands under nothing.
Record(under, ls) == [under |-> under, lines |-> ls]

\* What a parser makes of its lines: whether it can read them, the records
\* and the lines it read.
Result(ok, recs, read) == [ok |-> ok, recs |-> recs, read |-> read]

-----------------------------------------------------------------------------
(* Before any parser.                                                      *)

LinesOf(input) == [i \in DOMAIN input |-> [text |-> <<input[i]>>, num |-> i]]

\* A quoted value may hold line breaks: it is open after as many quotes.
InQuotes(p, ls, i) == Cardinality({j \in 1..i : Opens(ls[j], p.quotes)}) % 2 = 1

csvRecords(p, ls) ==
  LET groups == CutAt(ls, {i \in DOMAIN ls : i = 1 \/ ~InQuotes(p, ls, i - 1)})
  IN [k \in DOMAIN groups |-> Joined(groups[k])]

Closed(rec, p) == Cardinality({i \in DOMAIN rec.text : rec.text[i] \in p.quotes}) % 2 = 0

Continues(d, l) == Opens(l, d.fold)

\* A continuation has to have a line with something on it to join.
foldable(d, ls) ==
  \A i \in DOMAIN ls :
    Continues(d, ls[i]) =>
      \E j \in 1..(i - 1) :
        ~Continues(d, ls[j]) /\ ~Blank(ls[j]) /\ \A k \in (j + 1)..i : Continues(d, ls[k])

foldLines(d, ls) ==
  LET groups == CutAt(ls, {i \in DOMAIN ls : ~Continues(d, ls[i])})
      piece(g, i) == IF i = 1 THEN g[i] ELSE [g[i] EXCEPT !.text = Trimmed(g[i])]
  IN [k \in DOMAIN groups |-> Joined([i \in DOMAIN groups[k] |-> piece(groups[k], i)])]

\* The lines that are neither before nor after the text.
Middle(d, ls) ==
  LET text == Where(ls, LAMBDA l : ~EdgeBlank(l, d.skipBlank))
  IN {i \in DOMAIN ls : \E a, b \in text : a <= i /\ i <= b}

prepare(d, ls) ==
  Pick(ls, {i \in Middle(d, ls) : ~(d.skipBlank /\ Blank(ls[i])) /\ ~Opens(ls[i], d.ignore)})

\* The region of a selection, the line that opens it and the line that
\* ends it, as sequences of at most one.
applySelect(sel, ls) ==
  LET heads == Where(ls, LAMBDA l : Opens(l, sel.after))
      from == CASE sel.after = {} -> 1
                [] heads # {} -> Min(heads) + 1
                [] OTHER -> Len(ls) + 1
      ends == {i \in from..Len(ls) : Opens(ls[i], sel.until)}
      to == IF ends = {} THEN Len(ls) ELSE Min(ends) - 1
      last == IF sel.limit > 0 /\ from + sel.skip + sel.limit - 1 < to THEN from + sel.skip + sel.limit - 1 ELSE to
  IN [region |-> SubSeq(ls, from + sel.skip, last),
      heading |-> IF heads = {} THEN <<>> ELSE <<ls[Min(heads)]>>,
      end |-> IF ends = {} THEN <<>> ELSE <<ls[Min(ends)]>>]

\* markHeading, markEnd: only an expression that states the whole line has
\* said everything about it.
Stated(ls, whole) == Nums(SelectSeq(ls, LAMBDA l : Opens(l, whole)))
-----------------------------------------------------------------------------
(* The parsers.  reads are the lines a parser makes something of, heads    *)
(* the ones a header can be.                                               *)

AllRead(p, ls) == \A i \in DOMAIN ls : Opens(ls[i], p.reads)

\* A regex for each line, a list of key and value.
parseLines(p, ls) ==
  Result(AllRead(p, ls), [i \in DOMAIN ls |-> Record(<<>>, <<ls[i]>>)], Nums(ls))

\* A table whose header is printed again says again where its columns are.
parseTable(p, ls) ==
  LET heads == IF p.header # "line" THEN {} ELSE {i \in DOMAIN ls : ls[i].text = ls[1].text}
      rows == DOMAIN ls \ heads
      above(i) == {h \in heads : h < i}
      under(i) == IF heads = {} THEN <<>> ELSE <<ls[Max(above(i))]>>
  IN Result(/\ AllRead(p, Pick(ls, rows)) /\ \A h \in heads : Opens(ls[h], p.heads),
            Pick([i \in DOMAIN ls |-> IF i \in rows THEN Record(under(i), <<ls[i]>>) ELSE <<>>], rows),
            Nums(ls))

\* The csv reader makes no row of an empty record.  One that repeats the header
\* is a row: RepeatedHeader is false of every csv.
parseRows(p, recs) ==
  LET rows == SelectSeq(recs, LAMBDA l : l.text # <<"">>)
      body == IF p.header = "line" /\ rows # <<>> THEN Tail(rows) ELSE rows
      under == IF p.header = "named" \/ rows = <<>> THEN <<>> ELSE <<rows[1]>>
  IN Result(/\ \A i \in DOMAIN rows : Closed(rows[i], p)
            /\ AllRead(p, body)
            /\ p.header = "line" /\ rows # <<>> => Opens(rows[1], p.heads),
            [i \in DOMAIN body |-> Record(under, <<body[i]>>)],
            Nums(recs))

\* At the top level the lines are records already.
parseCSV(p, ls, grouped) ==
  [parseRows(p, IF grouped THEN ls ELSE csvRecords(p, ls)) EXCEPT !.read = Nums(ls)]

isBoxRule(p, l) == Opens(l, p.rules)

boxLine(p, l) == Opens(l, p.rules \union p.bars)

\* The lines between two rules.
boxBlocks(p, ls) ==
  LET blocks == CutAt(ls, {i \in DOMAIN ls : ~isBoxRule(p, ls[i]) /\ (i = 1 \/ isBoxRule(p, ls[i - 1]))})
  IN [k \in DOMAIN blocks |-> SelectSeq(blocks[k], LAMBDA l : ~isBoxRule(p, l))]

\* A line whose first cell is empty goes on with the row above it.
boxBodyRows(p, block) == CutAt(block, {i \in DOMAIN block : i = 1 \/ ~Opens(block[i], p.goesOn)})

Texts(ls) == [i \in DOMAIN ls |-> ls[i].text]

\* A table drawn again repeats the header's block.
boxRows(p, header, bodies) ==
  SelectSeq(FlattenSeq([k \in DOMAIN bodies |-> boxBodyRows(p, bodies[k])]), LAMBDA g : Texts(g) # Texts(header))

boxObjects(p, ls, blocks, rows) ==
  Result(/\ \A i \in DOMAIN ls : boxLine(p, ls[i])
         /\ blocks # <<>> => /\ Len(blocks) = 1 => Len(blocks[1]) = 1
                            /\ \A i \in DOMAIN blocks[1] : Opens(blocks[1][i], p.heads)
         /\ \A k \in DOMAIN rows : AllRead(p, rows[k]),
         [k \in DOMAIN rows |-> Record(blocks[1], rows[k])],
         Nums(ls))

boxTable(p, ls, blocks) ==
  boxObjects(p, ls, blocks, IF blocks = <<>> THEN <<>> ELSE boxRows(p, blocks[1], Tail(blocks)))

parseBox(p, ls) == boxTable(p, ls, boxBlocks(p, ls))

\* leaves are the lines of a block, or of the text of a single value, that
\* what reads it passes over.
Passed(p, ls) == Nums(SelectSeq(ls, LAMBDA l : Opens(l, p.leaves)))

parseRecords(p, ls) ==
  LET groups == CutAt(ls, Where(ls, LAMBDA l : Opens(l, p.start)))
  IN Result((ls = <<>> \/ Opens(ls[1], p.start)) /\ AllRead(p, ls),
            [k \in DOMAIN groups |-> Record(<<>>, groups[k])],
            Nums(ls) \ Passed(p, ls))

treeDepth(p, l) == p.depth[l.text[1]]

\* No line is deeper than one below the line above it, and one at the top
\* has the shape the definition gives the top.
treeNodes(p, ls) ==
  \A i \in DOMAIN ls :
    /\ treeDepth(p, ls[i]) <= IF i = 1 THEN 0 ELSE treeDepth(p, ls[i - 1]) + 1
    /\ treeDepth(p, ls[i]) = 0 => Opens(ls[i], p.root)

parseTree(p, ls) ==
  LET groups == CutAt(ls, Where(ls, LAMBDA l : treeDepth(p, l) = 0))
  IN Result(AllRead(p, ls) /\ treeNodes(p, ls), [k \in DOMAIN groups |-> Record(<<>>, groups[k])], Nums(ls))

\* One value of all the lines: a map of keys, none of which may be there
\* twice, or a pattern, which may leave lines at the ends.
parseSingle(p, ls) ==
  Result(/\ AllRead(p, ls) /\ (ls = <<>> => p.empty)
         /\ p.keys => \A i, j \in DOMAIN ls : ls[i].text = ls[j].text => i = j,
         <<Record(<<>>, ls)>>, Nums(ls) \ Passed(p, ls))

Parse(p, ls, grouped) ==
  CASE p.type = "lines"   -> parseLines(p, ls)
    [] p.type = "table"   -> parseTable(p, ls)
    [] p.type = "csv"     -> parseCSV(p, ls, grouped)
    [] p.type = "box"     -> parseBox(p, ls)
    [] p.type = "records" -> parseRecords(p, ls)
    [] p.type = "tree"    -> parseTree(p, ls)
    [] p.type = "single"  -> parseSingle(p, ls)

YieldsArray(p) == p.type # "single"

\* Every part reads its own region; a line may be in several.
parsePart(part, at) ==
  LET mine == SelectSeq(at.region, LAMBDA l : ~Opens(l, part.ignore))
  IN [heading |-> Stated(at.heading, part.sel.heading), value |-> Parse(part.parse, mine, FALSE)]

parseComposite(of) ==
  [ok |-> \A k \in DOMAIN of : of[k].value.ok,
   recs |-> [k \in DOMAIN of |-> of[k].value.recs],
   read |-> UNION {of[k].value.read \union of[k].heading : k \in DOMAIN of}]

\* A definition that is no composite is one part, over everything.
parse(d, ls) ==
  IF d.composite THEN parseComposite([k \in DOMAIN d.parts |-> parsePart(d.parts[k], applySelect(d.parts[k].sel, ls))])
  ELSE LET r == Parse(d.parts[1].parse, ls, TRUE) IN [r EXCEPT !.recs = <<r.recs>>]

-----------------------------------------------------------------------------

\* What becomes of a line that no selection says anything else of.
Accounted(d, lines, folded, prepared, read) ==
  [folded |-> Len(lines) - Len(folded),
   ignored |-> Cardinality({i \in Middle(d, folded) :
                 ~(d.skipBlank /\ Blank(folded[i])) /\ Opens(folded[i], d.ignore)}),
   blank |-> Cardinality(DOMAIN folded \ Middle(d, folded))
               + Cardinality({i \in Middle(d, folded) : d.skipBlank /\ Blank(folded[i])})
               + Cardinality({i \in DOMAIN prepared : prepared[i].num \notin read /\ Blank(prepared[i])}),
   read |-> Cardinality({i \in DOMAIN prepared : prepared[i].num \in read})]

\* cut are the lines as records, r is what the region sel of the prepared
\* ones is read as.
AccountedFor(d, input, cut, prepared, sel, r) ==
  LET read == r.read \union Stated(sel.heading, d.sel.heading) \union Stated(sel.end, d.sel.end)
  IN [ok |-> /\ \A i \in DOMAIN input : input[i] \notin Garbled
             /\ foldable(d, cut) /\ r.ok
             /\ \A i \in DOMAIN prepared : prepared[i].num \in read \/ Blank(prepared[i]),
      recs |-> r.recs,
      account |-> Accounted(d, input, foldLines(d, cut), prepared, read)]

ReadRegion(d, input, cut, prepared, sel) ==
  AccountedFor(d, input, cut, prepared, sel, parse(d, sel.region))

ReadPrepared(d, input, cut, prepared) == ReadRegion(d, input, cut, prepared, applySelect(d.sel, prepared))

ReadRecords(d, input, cut) == ReadPrepared(d, input, cut, prepare(d, foldLines(d, cut)))

\* What the whole of an input is read as, its size left aside.
ParseAccounted(d, input) ==
  ReadRecords(d, input, IF d.csv THEN csvRecords(d.parts[1].parse, LinesOf(input)) ELSE LinesOf(input))
=============================================================================
