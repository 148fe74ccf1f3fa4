----------------------------- MODULE MCStreaming -----------------------------
(***************************************************************************)
(* Definitions of every kind of parser, with the letters that are of       *)
(* interest to each.                                                       *)
(***************************************************************************)
EXTENDS Streaming

NoSelect == [after |-> {}, heading |-> {}, until |-> {}, end |-> {}, skip |-> 0, limit |-> 0]

After(E) == [NoSelect EXCEPT !.after = E, !.heading = E]

Depths == [x \in Letters |-> CASE x = "b" -> 1 [] x = "c" -> 2 [] OTHER -> 0]

Parser(type, reads) ==
  [type |-> type, reads |-> reads, header |-> "line", heads |-> {"h"}, quotes |-> {"q"}, rules |-> {"-"}, bars |-> {"h", "a", "b", "x"},
   goesOn |-> {"b"}, start |-> {"a"}, leaves |-> {}, depth |-> Depths, root |-> {"a"}, keys |-> FALSE, empty |-> TRUE]

Part(p, sel, ignore) == [parse |-> p, sel |-> sel, ignore |-> ignore]

Only(p, letters) ==
  [parts |-> <<Part(p, NoSelect, {})>>, composite |-> FALSE, csv |-> p.type = "csv", fold |-> {}, ignore |-> {},
   skipBlank |-> TRUE, sel |-> NoSelect, limit |-> 100, stops |-> {0}, letters |-> letters]

Of(parts, letters) == [Only(parts[1].parse, letters) EXCEPT !.parts = parts, !.composite = TRUE, !.csv = FALSE]

Rows == Parser("lines", {"a", "b"})

Selected == [Only(Rows, {"", "h", "a", "#", "e"}) EXCEPT
  !.sel = [NoSelect EXCEPT !.after = {"h", "a"}, !.heading = {"h"}, !.until = {"e"}, !.end = {"e"}, !.limit = 1],
  !.ignore = {"#"}]

Skipping == [Only(Parser("lines", {"a", "_"}), {"", "_", "a", "#"}) EXCEPT
  !.sel = [NoSelect EXCEPT !.skip = 1], !.skipBlank = FALSE, !.ignore = {"#", ""}]

Folding == [Only(Rows, {"", "_", "a", "c"}) EXCEPT !.fold = {"c", "_"}, !.skipBlank = FALSE, !.limit = 6]

Kept == [Only(Parser("records", {"a", "", "_"}), {"", "_", "a", "x"}) EXCEPT !.skipBlank = FALSE, !.limit = 6]

FoldedBlocks == [Only([Parser("records", {"a", "b", "u"}) EXCEPT !.leaves = {"u"}], {"", "a", "b", "c", "u"}) EXCEPT !.fold = {"c"}]

Table == Only(Parser("table", {"a", "b"}), {"", "h", "a", "x"})

Bare == Only([Parser("table", {"a", "b"}) EXCEPT !.header = "named"], {"h", "a", "!"})

Csv == [Only(Parser("csv", {"a", "q", "h"}), {"", "h", "a", "q", "#"}) EXCEPT !.ignore = {"#"}, !.skipBlank = FALSE]

Numbered == Only([Parser("csv", {"a", "q"}) EXCEPT !.header = "numbered"], {"a", "q", "x"})

Box == Only(Parser("box", {"a", "b"}), {"-", "h", "a", "b", "z"})

WideBox == Only([Parser("box", {"a", "b"}) EXCEPT !.heads = {"h", "a"}], {"-", "h", "a", "b"})

Blocks == [Only([Parser("records", {"a", "b", "u"}) EXCEPT !.leaves = {"u", "_"}], {"_", "a", "b", "u"}) EXCEPT !.limit = 8, !.stops = {0, 2}]

Tree == [Only(Parser("tree", {"a", "b", "c"}), {"a", "b", "c", "x"}) EXCEPT !.stops = {0, 1}]

Banner == Part(Parser("single", {"h"}), [NoSelect EXCEPT !.limit = 1], {})

Report == Of(<<Banner,
               Part(Rows, [After({"h"}) EXCEPT !.until = {"e"}], {"u"}),
               Part([Parser("single", {"b", "u"}) EXCEPT !.keys = TRUE, !.leaves = {"u"}, !.empty = FALSE], After({"e"}), {})>>,
             {"h", "a", "b", "e", "u"})

Shared == [Of(<<Part([Parser("single", {"a", "b"}) EXCEPT !.leaves = {"a"}], [NoSelect EXCEPT !.until = {"e"}], {}),
                Part([Parser("single", {"a", "b"}) EXCEPT !.leaves = {"b"}], [NoSelect EXCEPT !.skip = 1, !.limit = 2], {"e"}),
                Part(Parser("table", {"e"}), [NoSelect EXCEPT !.limit = 2], {"b"})>>,
              {"", "a", "b", "e", "h"}) EXCEPT !.limit = 12, !.stops = {0, 2}]

Quoted == Of(<<Part(Parser("csv", {"a", "q"}), [NoSelect EXCEPT !.limit = 3], {}),
               Part(Parser("box", {"a", "b"}), After({"e"}), {}),
               Part(Parser("tree", {"a", "b"}), [NoSelect EXCEPT !.skip = 2, !.until = {"e"}], {"q"})>>,
             {"h", "a", "q", "b", "e"})

Sections == Of(<<Part(Parser("records", {"a", "b"}), [NoSelect EXCEPT !.until = {"e"}], {}),
                 Part(Parser("single", {"a", "b"}), After({"e"}), {})>>, {"a", "b", "e", "x"})

MCDefinitions ==
  {Selected, Skipping, Folding, Kept, FoldedBlocks, Table, Bare, Csv, Numbered, Box, WideBox, Blocks, Tree, Report, Shared, Quoted, Sections}

\* Blocks of which the parts of a report read what is left.
Trailer == Of(<<Part([Parser("records", {"a", "b", "e"}) EXCEPT !.leaves = {"e"}], NoSelect, {}),
                Part(Parser("single", {"e"}), NoSelect, {"a", "b"})>>, {"a", "b", "e"})

MCTrailer == {Trailer, Sections}
=============================================================================
