-------------------------------- MODULE Texts --------------------------------
(***************************************************************************)
(* Text read by a definition, as far as the commands that read it need:    *)
(* which definition a text is read with, and the records it is.            *)
(*                                                                         *)
(* A line is one letter, which stands for the keys the line has.  How a    *)
(* definition is chosen is in Selection, and how it reads in Documents and *)
(* Streaming; here is what a command sees of the two.                      *)
(***************************************************************************)
EXTENDS Options, Building, Narrowing

CONSTANT Rows \* the keys of a line, by letter

Lines(text) == IF text = <<>> THEN <<>> ELSE Split(IF Last(text) = "LF" THEN Front(text) ELSE text, "LF")

\* The definition a text is read with, of those in a scope: the one that fits.
\* A definition of a shape fits any text, when it is named.
Scope(parser, variant) == [parser |-> parser, variant |-> variant]

Fits(def, scope, text) ==
  LET lines == SelectSeq(Lines(text), LAMBDA line : line # <<>>)
  IN  /\ lines # <<>>
      /\ IF def.shape THEN def.variant = scope.variant ELSE lines[1][1] \in def.fits

Select(scope, text) ==
  LET fit == {def \in Candidates(scope.parser, scope.variant) : Fits(def, scope, text)}
  IN  IF Cardinality(fit) = 1 THEN fit ELSE {}

----------------------------------------------------------------------------
(* A line read, where a header is the columns of a csv or the part that a  *)
(* composite is in.                                                        *)

Numbered == <<<<"#1">>, <<"#2">>>>

Cell(def, raw, column) == IF column \in def.fields /\ ~raw THEN Token("1") ELSE String(<<"1">>)
RowOf(def, raw, columns, n) ==
  Object([i \in DOMAIN columns |-> Member(columns[i], IF i <= n THEN Cell(def, raw, columns[i]) ELSE Null)])

LineRead(is, v, header) == [is |-> is, value |-> v, header |-> header]
LineSkipped(header) == LineRead("none", Null, header)
Unreadable == LineRead("bad", Null, <<>>)
ColumnMissing == LineRead("missing", Null, <<>>)

Columns(def, keys, header) ==
  IF header # <<>> THEN header
  ELSE IF ~def.none THEN keys
  ELSE IF def.columns # <<>> THEN def.columns
  ELSE SubSeq(Numbered, 1, Len(keys))

csvLine(def, raw, keys, header) ==
  LET columns == Columns(def, keys, header)
  IN  IF header = <<>> /\ ~(def.expected \subseteq ToSet(columns)) THEN ColumnMissing
      ELSE IF header = <<>> /\ ~def.none THEN LineSkipped(columns)
      ELSE IF Len(keys) > Len(columns) THEN Unreadable
      ELSE LineRead("record", RowOf(def, raw, columns, Len(keys)), columns)

\* The parts of a composite come in their order.
partLine(key, header) ==
  IF header = <<"b">> /\ key = <<"a">> THEN Unreadable
  ELSE LineRead("record", PartDocument(key, String(<<"1">>)), key)

engineLine(def, raw, line, header) ==
  LET keys == Rows[line[1]]
  IN  IF line = <<>> THEN LineSkipped(header)
      ELSE IF Len(line) > 1 \/ line[1] \notin DOMAIN Rows THEN Unreadable
      ELSE IF def.type = "csv" THEN csvLine(def, raw, keys, header)
      ELSE IF ~def.open /\ ~(ToSet(keys) \subseteq def.known) THEN Unreadable
      ELSE IF def.type = "composite" THEN partLine(keys[1], header)
      ELSE LineRead("record", RowOf(def, raw, keys, Len(keys)), header)

----------------------------------------------------------------------------
(* A whole text read. *)

Outcome(is, v) == [is |-> is, value |-> v]

\* The records of a composite are gathered under their parts.
Gathered(documents) ==
  LET of(part) == SelectSeq(documents, LAMBDA d : Under(d, "part").text = part)
      parts == SelectSeq(<<<<"a">>, <<"b">>>>, LAMBDA part : of(part) # <<>>)
  IN  Object([i \in DOMAIN parts |->
        Member(parts[i], List([j \in DOMAIN of(parts[i]) |-> Under(of(parts[i])[j], "value")]))])

DocumentOf(def, records) ==
  CASE def.type = "composite" -> Outcome("record", Gathered(records))
    [] def.type = "object" -> IF Len(records) = 1 THEN Outcome("record", records[1]) ELSE Outcome("bad", Null)
    [] OTHER -> Outcome("record", List(records))

\* What has been read so far, with a line; the first that fails is the failure.
WithLine(done, r) ==
  CASE r.is \in {"bad", "missing"} -> [done EXCEPT !.is = r.is]
    [] r.is = "none" -> [done EXCEPT !.header = r.header]
    [] r.is = "record" -> [done EXCEPT !.header = r.header, !.records = Append(@, r.value)]

ParsedLines(def, all) == IF all.is = "record" THEN DocumentOf(def, all.records) ELSE Outcome(all.is, Null)

Parse(def, raw, text) ==
  LET step(done, line) == IF done.is = "record" THEN WithLine(done, engineLine(def, raw, line, done.header)) ELSE done
  IN  ParsedLines(def, FoldLeft(step, [is |-> "record", header |-> <<>>, records |-> <<>>], Lines(text)))
=============================================================================
