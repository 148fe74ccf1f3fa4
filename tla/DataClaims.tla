------------------------------ MODULE DataClaims ------------------------------
(***************************************************************************)
(* What `jz` and `jz new` promise of the documents they write, each said   *)
(* without the steps that come to it.                                      *)
(***************************************************************************)
EXTENDS DataCommands

----------------------------------------------------------------------------
(* The document of a plan, and the limits. *)

\* The values of a document with the paths they are at, in its order.
RECURSIVE Leaves(_, _)
Leaves(v, at) ==
  CASE v.kind = "list" -> FlattenSeq([i \in DOMAIN v.elements |-> Leaves(v.elements[i], Append(at, Index(i - 1)))])
    [] v.kind = "object" -> FlattenSeq([i \in DOMAIN v.members |-> Leaves(v.members[i].value, Append(at, Key(v.members[i].key)))])
    [] OTHER -> <<[path |-> at, mark |-> v.text]>>

\* The document holds what each argument gives where it says, and nothing else,
\* in the order the places were first named.
HoldsWhatIsSaid(document, paths) ==
  LET leaves == Leaves(document, <<>>)
  IN  /\ {leaves[i] : i \in DOMAIN leaves} = {[path |-> paths[i], mark |-> i] : i \in DOMAIN paths}
      /\ Len(leaves) = Len(paths)
      /\ countValues(document) = Len(paths) + Cardinality({<<>>} \union UNION {{SubSeq(p, 1, k) : k \in 0 .. Len(p) - 1} : p \in ToSet(paths)})
      /\ \A i, j \in DOMAIN leaves : i < j =>
           LET k == 1 + Len(LongestCommonPrefix({leaves[i].path, leaves[j].path}))
           IN  FirstUnder(paths, SubSeq(leaves[i].path, 1, k)) < FirstUnder(paths, SubSeq(leaves[j].path, 1, k))

IsWithin(document) == countValues(document) <= MaxValues /\ valueDepth(document) <= MaxDepth

\* The list of a file of records is itself one level and one value.
IsRecordList(document) == ~IsNew /\ reads.kind = "data" /\ Streams(reads.format) /\ document.kind = "list"

Stdin == [failed |-> FALSE, data |-> came]

\* The document of a plan holds the value of each argument at its place, and
\* nothing else.  However a document is counted, as its files are read, its places
\* are planned and its records come, it is refused when it is past the limits as a
\* whole, and only then (internal/jsonbuild make, Build, Fixed, With;
\* internal/datafile counter).
DocumentIsAsPlanned ==
  /\ IsNew /\ mode = "options" =>
       HoldsWhatIsSaid(make(plan, <<>>, [i \in DOMAIN places |-> Token(i)]), AllSaid(o.array, places))
  /\ \A i \in DOMAIN outs :
       \/ IsWithin(outs[i])
       \/ IsRecordList(outs[i]) /\ countValues(outs[i]) <= MaxValues /\ valueDepth(outs[i]) <= MaxDepth + 1
       \/ ~IsNew /\ reads.kind # "data"
  /\ IsNew /\ settled.ok /\ ~o.each /\ mode = "done" /\ code = "parse"
       /\ (\A i \in DOMAIN places : value(places[i], Stdin).ok)
     => ~IsWithin(make(plan, <<>>, [i \in DOMAIN places |-> value(places[i], Stdin).value]))

----------------------------------------------------------------------------
(* Records. *)

Pieces(text, sep) ==
  LET cut == Split(text, sep)
  IN  [i \in DOMAIN cut |-> [text |-> cut[i], ended |-> i < Len(cut), first |-> i = 1]]

\* What has ended of the input, or all of it once the input has ended.
IsEnded == mode = "done" /\ code \in {"ok", "usage", "parse"}
PiecesNow(sep) ==
  LET pieces == Pieces(came, sep) IN IF IsEnded THEN pieces ELSE Front(pieces)

White == {"SP", "TAB", "CR"}
Marked(piece) == IF piece.first THEN TrimBOM(piece.text) ELSE piece.text
IsBlank(format, piece) ==
  CASE format = "ltsv" -> TrimCR(Marked(piece)) = <<>>
    [] format = "jsonl" -> ToSet(Marked(piece)) \subseteq White
    [] format = "lines" -> ~piece.ended /\ Marked(piece) = <<>>
    [] OTHER -> ~piece.ended /\ piece.text = <<>>

\* The outcomes of pieces, up to the first that is none.
GoodOnes(outcomes) ==
  LET bad == {i \in DOMAIN outcomes : ~outcomes[i].ok}
  IN  [i \in 1 .. (IF bad = {} THEN Len(outcomes) ELSE Min(bad) - 1) |-> outcomes[i].value]
AllGood(outcomes) == \A i \in DOMAIN outcomes : outcomes[i].ok

\* What is written agrees with the outcomes of what has come: all of it while the
\* command runs or when it ends well, what was before the first failure when it
\* ends there, and the first of it when writing or reading fails, what is packed
\* and cannot be unpacked included.
IsCutShort == code \in {"closed", "error"} \/ (code = "parse" /\ ~IsNew /\ Compression(o) # "")

Agrees(outcomes) ==
  IF IsCutShort THEN IsPrefix(outs, GoodOnes(outcomes))
  ELSE outs = GoodOnes(outcomes) /\ (code = "parse" <=> ~AllGood(outcomes))

\* `jz new --each` makes of a line what `jz new` makes of it as its standard
\* input: the line ending, the counts that start over and the values that were
\* read once show nowhere.  A byte order mark opens the input, not a line, and a
\* record that fills the limit has no room for its ending there
\* (cli/new.go eachDocument).
EachIsNew ==
  IsNew /\ fixed.ok =>
    LET format == StdinFormat(places)
        all == PiecesNow("LF")
        pieces == SelectSeq(all, LAMBDA p : ~IsBlank(format, p))
        line(p) == IF p.ended THEN Append(p.text, "LF") ELSE p.text
    IN  (\A i \in DOMAIN all : Len(line(all[i])) <= MaxInput /\ (all[i].first \/ "BOM" \notin ToSet(all[i].text)))
        => Agrees([i \in DOMAIN pieces |-> Build(plan, places, [failed |-> FALSE, data |-> line(pieces[i])])])

\* A record on its own.
RecordSaid(format, piece) ==
  LET text == Marked(piece)
  IN  CASE format = "lines" -> [ok |-> UTF8(text), value |-> String(IF piece.ended THEN TrimCR(text) ELSE text)]
        [] format = "nul" -> [ok |-> UTF8(piece.text), value |-> String(piece.text)]
        [] format = "ltsv" -> IF UTF8(text) THEN ltsvLine(TrimCR(text), 0) ELSE Bad
        [] OTHER -> IF "BOM" \in ToSet(text) THEN Bad ELSE readJSON(text)

Narrow(outcome) == IF outcome.ok THEN [ok |-> TRUE, value |-> narrowRecord(filterOf(o), outcome.value).value] ELSE outcome

DataAgrees ==
  LET pieces == SelectSeq(PiecesNow(Separator(reads.format)), LAMBDA p : ~IsBlank(reads.format, p))
      outcomes == [i \in DOMAIN pieces |-> RecordSaid(reads.format, pieces[i])]
      whole == Read(reads.format, came)
  IN  /\ Len(rec) <= MaxInput => Agrees([i \in DOMAIN outcomes |-> Narrow(outcomes[i])])
      /\ IsEnded /\ whole.ok => AllGood(outcomes) /\ GoodOnes(outcomes) = whole.value.elements

\* The documents of a stream that a whole document is.
DocumentsOf(def, document) ==
  IF def.type # "composite" THEN document.elements
  ELSE FlattenSeq([i \in DOMAIN document.members |->
         LET m == document.members[i] IN [j \in DOMAIN m.value.elements |-> PartDocument(m.key, m.value.elements[j])]])

TextAgrees ==
  LET last == IF "LF" \in ToSet(came) THEN Max({i \in DOMAIN came : came[i] = "LF"}) ELSE 0
      r == Parse(reads.def, o.raw, IF IsEnded THEN came ELSE SubSeq(came, 1, last))
  IN  \/ IsCutShort \/ code = "usage"
      \/ code = "parse" /\ r.is = "bad"
      \/ code # "parse" /\ r.is = "record" /\ outs = DocumentsOf(reads.def, narrowRecord(filterOf(o), r.value).value)

\* What a stream has written is, at any moment, what the records that have ended
\* are when they are read as one document and narrowed as one: the letters that
\* came in pieces, the mark that opens the input, the ending of each line, the
\* header and the filter that is handed along show nowhere
\* (internal/datafile streamCounted, cli/stream.go streamRecords).
StreamIsWhole ==
  ~IsNew /\ o.stream /\ reads.ok =>
    CASE reads.kind = "data" -> DataAgrees
      [] reads.kind = "given" -> TextAgrees
      [] OTHER -> outs = <<>>

----------------------------------------------------------------------------
(* Keys. *)

RECURSIVE KeysShown(_)
KeysShown(v) ==
  CASE v.kind = "object" -> KeysOf(v)
    [] v.kind = "list" -> UNION {KeysShown(v.elements[i]) : i \in DOMAIN v.elements}
    [] OTHER -> {}

\* The keys of what was read, or of its records as far as they could be.
KeysHad ==
  IF reads.kind = "given" THEN KeysShown(Parse(reads.def, o.raw, came).value)
  ELSE IF o.stream
  THEN LET pieces == SelectSeq(Pieces(came, Separator(reads.format)), LAMBDA p : ~IsBlank(reads.format, p))
       IN  UNION {KeysShown(RecordSaid(reads.format, pieces[i]).value) : i \in DOMAIN pieces}
  ELSE KeysShown(Read(reads.format, came).value)

KeysDeclared == IF reads.kind = "given" THEN recordKeys(reads.def).known ELSE {}

\* A key named to --extract or --exclude is refused when the definition does not
\* declare it and nothing read has it, however many keys there were before it,
\* and no document without it stands where it could have been known before
\* (cli/keys.go saw, unseen, streamEmit).
KeysJudged ==
  ~IsNew /\ mode = "done" /\ reads.ok /\ reads.kind # "scope" /\ code \in {"ok", "usage"}
    /\ (reads.kind = "given" => Parse(reads.def, o.raw, came).is = "record") =>
    /\ code = "usage" <=> ~((o.extract \union o.exclude) \subseteq (KeysDeclared \union KeysHad))
    /\ code = "usage" => outs = <<>> \/ (o.stream /\ reads.def.type # "csv")
=============================================================================
