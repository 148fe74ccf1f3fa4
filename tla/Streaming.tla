------------------------------ MODULE Streaming ------------------------------
(***************************************************************************)
(* Reading a text that is still being written: Stream of pkg/engine, and   *)
(* a composite handed over part by part (composite_stream.go).             *)
(*                                                                         *)
(* It is the reading of module Reading, arranged one line at a time: what  *)
(* that keeps in slices is here the line a fold may still join, the record *)
(* that is open, how far each selection has got, and what became of a line *)
(* that waits for the end of its part.                                     *)
(***************************************************************************)
EXTENDS Reading

CONSTANT MaxLines \* how many lines are written

Types == {"lines", "table", "csv", "box", "records", "tree", "single"}

\* Loading refuses a definition without parts and a negative skip, Stream one value at
\* the top; maxInput is never negative.
ASSUME DefinitionsAssumption ==
  \A d \in Definitions :
    /\ d.parts # <<>> /\ d.parts \in Seq({d.parts[k] : k \in DOMAIN d.parts})
    /\ \A k \in DOMAIN d.parts : d.parts[k].parse.type \in Types
    /\ ~d.composite => d.parts[1].parse.type # "single"
    /\ d.sel.skip \in Nat /\ d.limit \in Nat /\ d.stops \subseteq Nat
    /\ d.letters \subseteq Letters

VARIABLES
  def,   \* the definition, with the bound on what is held, and the record emit fails at
  input, \* what was written so far
  s,     \* the streamer
  stage  \* "reading", "over", "failed" before the end, or "cut" by a read that did

vars == <<def, input, s, stage>>

Ok(t) == t.err = "none"

Fail(t, why) == [t EXCEPT !.err = why]

Then(t, Op(_)) == IF Ok(t) THEN Op(t) ELSE t

-----------------------------------------------------------------------------
(* The streamer.  A part has one buffer, its group, since it has one       *)
(* parser: the open block, node, row or quoted value.                      *)

streamer(d, stops) ==
  [csvRec |-> <<>>, folding |-> <<>>, empty |-> <<>>, text |-> FALSE,
   sel |-> [started |-> FALSE, done |-> FALSE, skipped |-> 0, taken |-> 0],
   subs |-> [k \in DOMAIN d.parts |-> [header |-> <<>>, first |-> <<>>, body |-> FALSE, group |-> <<>>]],
   regions |-> [k \in DOMAIN d.parts |-> [started |-> FALSE, done |-> FALSE, skipped |-> 0, taken |-> 0]],
   lines |-> [k \in DOMAIN d.parts |-> <<>>], read |-> [k \in DOMAIN d.parts |-> FALSE],
   fates |-> [n \in {} |-> [pending |-> 0, read |-> FALSE]],
   held |-> 0, out |-> [k \in DOMAIN d.parts |-> <<>>], sent |-> 0, stops |-> stops, err |-> "none"]

\* hold: what is held back is bounded together.
take(t, l) ==
  LET u == [t EXCEPT !.held = @ + LineBytes(l.text)]
  IN IF u.held > def.limit THEN Fail(u, "large") ELSE u

give(t, ls) == [t EXCEPT !.held = @ - LinesBytes(ls)]

emit(t, k, rec) ==
  IF t.sent + 1 = t.stops THEN Fail(t, "emit")
  ELSE [t EXCEPT !.out[k] = Append(@, rec), !.sent = @ + 1]

EmitIf(t, k, ok, rec) == IF ok THEN emit(t, k, rec) ELSE Fail(t, "refused")

Held(t, k, l) == Then(take(t, l), LAMBDA u : [u EXCEPT !.subs[k].group = Append(@, l)])

\* Mutant: what is handed on stays charged for.
letGoCharged(t, k) == [t EXCEPT !.subs[k].group = <<>>]

letGo(t, k) == give([t EXCEPT !.subs[k].group = <<>>], t.subs[k].group)

-----------------------------------------------------------------------------
(* The parsers, a line at a time.                                          *)

feedTable(t, k, p, l) ==
  LET first == t.subs[k].first
  IN IF p.header = "line" /\ (first = <<>> \/ l.text = first[1].text)
     THEN IF Opens(l, p.heads)
          THEN [t EXCEPT !.subs[k].header = <<l>>, !.subs[k].first = IF first = <<>> THEN <<l>> ELSE first]
          ELSE Fail(t, "refused")
     ELSE EmitIf(t, k, Opens(l, p.reads), Record(t.subs[k].header, <<l>>))

\* emitCSV: one finished record.  One that repeats the header is a row too, since
\* RepeatedHeader is false of every csv.
emitCSV(t, k, p, rec) ==
  LET first == t.subs[k].first
      heading == p.header = "line" /\ first = <<>>
      known == [t EXCEPT !.subs[k].first = IF first = <<>> THEN <<rec>> ELSE first]
      under == IF p.header = "named" THEN <<>> ELSE known.subs[k].first
  IN CASE rec.text = <<"">> -> t
       [] rec.text # <<"">> /\ ~Closed(rec, p) -> Fail(t, "refused")
       [] rec.text # <<"">> /\ Closed(rec, p) /\ heading ->
            IF Opens(rec, p.heads) THEN known ELSE Fail(t, "refused")
       [] OTHER -> EmitIf(known, k, Opens(rec, p.reads), Record(under, <<rec>>))

flushCSV(t, k, p) ==
  LET group == t.subs[k].group
  IN IF group = <<>> THEN t ELSE emitCSV(letGo(t, k), k, p, Joined(group))

feedCSV(t, k, p, l) ==
  IF def.csv THEN emitCSV(t, k, p, l)
  ELSE Then(Held(t, k, l), LAMBDA u : IF Closed(Joined(u.subs[k].group), p) THEN flushCSV(u, k, p) ELSE u)

flushBox(t, k, p) ==
  LET group == t.subs[k].group
      header == t.subs[k].header
      u == letGo(t, k)
      v == [u EXCEPT !.subs[k].body = TRUE]
  IN CASE group = <<>> -> t
       [] group # <<>> /\ header = <<>> ->
            IF \A i \in DOMAIN group : Opens(group[i], p.heads) THEN [u EXCEPT !.subs[k].header = group] ELSE Fail(u, "refused")
       [] group # <<>> /\ header # <<>> /\ Texts(group) = Texts(header) -> v
       [] OTHER -> EmitIf(v, k, AllRead(p, group), Record(header, group))

feedBox(t, k, p, l) ==
  LET goesOn(u) == u.subs[k].header = <<>> \/ (u.subs[k].group # <<>> /\ Opens(l, p.goesOn))
      added(u) == [u EXCEPT !.subs[k].group = Append(@, l)]
  IN CASE ~boxLine(p, l) -> Fail(t, "refused")
       [] isBoxRule(p, l) -> flushBox(t, k, p)
       [] OTHER -> Then(take(t, l), LAMBDA u : IF goesOn(u) THEN added(u) ELSE Then(flushBox(u, k, p), added))

\* A block is accounted for on its own.
flushBlock(t, k, p) ==
  LET group == t.subs[k].group
      u == letGo(t, k)
      unread == {i \in DOMAIN group : group[i].num \in Passed(p, group) /\ ~Blank(group[i])}
  IN CASE group = <<>> -> t
       [] group # <<>> /\ AllRead(p, group) /\ unread # {} -> Fail(u, "unread")
       [] OTHER -> EmitIf(u, k, AllRead(p, group), Record(<<>>, group))

\* Mutant: the line that opens a block is taken for part of the one before.
feedBlockLate(t, k, p, l) ==
  IF Opens(l, p.start) THEN Then(Held(t, k, l), LAMBDA u : flushBlock(u, k, p))
  ELSE IF t.subs[k].group = <<>> THEN Fail(t, "refused") ELSE Held(t, k, l)

\* The next block is opened even when the one before it could not be read.
OpenBlock(t, k, l) ==
  LET u == Held([t EXCEPT !.err = "none"], k, l) IN IF Ok(u) THEN Fail(u, t.err) ELSE u

feedBlock(t, k, p, l) ==
  IF Opens(l, p.start) THEN OpenBlock(flushBlock(t, k, p), k, l)
  ELSE IF t.subs[k].group = <<>> THEN Fail(t, "refused") ELSE Held(t, k, l)

flushTree(t, k, p) ==
  LET group == t.subs[k].group
  IN IF group = <<>> THEN t
     ELSE EmitIf(letGo(t, k), k, AllRead(p, group) /\ treeNodes(p, group), Record(<<>>, group))

feedTree(t, k, p, l) ==
  CASE treeDepth(p, l) = 0 -> Then(flushTree(t, k, p), LAMBDA u : Held(u, k, l))
    [] treeDepth(p, l) # 0 /\ t.subs[k].group = <<>> -> Fail(t, "refused")
    [] OTHER -> Held(t, k, l)

feedOne(t, k, p, l) ==
  CASE p.type = "lines"   -> EmitIf(t, k, Opens(l, p.reads), Record(<<>>, <<l>>))
    [] p.type = "table"   -> feedTable(t, k, p, l)
    [] p.type = "csv"     -> feedCSV(t, k, p, l)
    [] p.type = "box"     -> feedBox(t, k, p, l)
    [] p.type = "records" -> feedBlock(t, k, p, l)
    [] p.type = "tree"    -> feedTree(t, k, p, l)

\* finish: what the end of the lines ends.
finishPart(t, k, p) ==
  CASE p.type = "box" ->
         Then(flushBox(t, k, p), LAMBDA u : IF Len(u.subs[k].header) > 1 /\ ~u.subs[k].body THEN Fail(u, "refused") ELSE u)
    [] p.type = "tree" -> flushTree(t, k, p)
    [] p.type = "csv" -> flushCSV(t, k, p)
    [] p.type = "records" -> flushBlock(t, k, p)
    [] OTHER -> t

-----------------------------------------------------------------------------
(* A composite.                                                            *)

\* admit: what a line is to a part, and how far the part's selection gets.
admit(sel, g, l) ==
  LET said(h, inside, heading) == [region |-> h, inside |-> inside, heading |-> heading]
      begins == sel.after # {} /\ ~g.started
      last == sel.limit > 0 /\ g.taken + 1 >= sel.limit
  IN CASE g.done -> said(g, FALSE, FALSE)
       [] ~g.done /\ begins /\ Opens(l, sel.after) -> said([g EXCEPT !.started = TRUE], FALSE, Opens(l, sel.heading))
       [] ~g.done /\ begins /\ ~Opens(l, sel.after) -> said(g, FALSE, FALSE)
       [] ~g.done /\ ~begins /\ Opens(l, sel.until) -> said([g EXCEPT !.done = TRUE], FALSE, FALSE)
       [] ~g.done /\ ~begins /\ ~Opens(l, sel.until) /\ g.skipped < sel.skip ->
            said([g EXCEPT !.skipped = @ + 1], FALSE, FALSE)
       [] OTHER -> said([g EXCEPT !.taken = @ + 1, !.done = last], TRUE, FALSE)

\* What became of the lines of a part that is one value, once r is what it
\* made of them: a line is unread when nobody may still read it.
Settled(t, ls, r) ==
  LET said(n) == LET f == t.fates[n]
                 IN IF n \in Nums(ls) THEN [pending |-> f.pending - 1, read |-> f.read \/ n \in r.read] ELSE f
      left == {n \in DOMAIN t.fates : said(n).pending > 0}
      unread == {i \in DOMAIN ls : /\ ls[i].num \in DOMAIN t.fates \ left
                                   /\ ~said(ls[i].num).read /\ ~Blank(ls[i])}
      u == [t EXCEPT !.fates = [n \in left |-> said(n)]]
  IN IF unread # {} THEN Fail(u, "unread") ELSE u

readAs(t, k, ls, r) == Then(EmitIf(t, k, r.ok, Record(<<>>, ls)), LAMBDA u : Settled(u, ls, r))

readSingle(t, k) ==
  readAs(give([t EXCEPT !.read[k] = TRUE, !.lines[k] = <<>>], t.lines[k]), k,
         t.lines[k], Parse(def.parts[k].parse, t.lines[k], FALSE))

closePart(t, k) ==
  IF ~YieldsArray(def.parts[k].parse) THEN readSingle(t, k)
  ELSE finishPart([t EXCEPT !.read[k] = TRUE], k, def.parts[k].parse)

\* One line and one part: a is the streamer with what is known of the line,
\* ad what the line is to the part.
OfferedAs(a, k, l, ad, u) ==
  LET part == def.parts[k]
      mine == ad.inside /\ ~Opens(l, part.ignore)
      single == mine /\ ~YieldsArray(part.parse)
  IN [t |-> CASE single -> Then(take(u, l), LAMBDA v : [v EXCEPT !.lines[k] = Append(@, l)])
              [] mine /\ ~single -> feedOne(u, k, part.parse, l)
              [] OTHER -> u,
      claimed |-> a.claimed \/ ad.heading \/ mine,
      accounted |-> a.accounted \/ ad.heading \/ (mine /\ ~single),
      single |-> a.single + IF single THEN 1 ELSE 0]

Admitted(a, k, l, ad) == OfferedAs(a, k, l, ad, [a.t EXCEPT !.regions[k] = ad.region])

Offered(a, k, l) ==
  IF ~Ok(a.t) \/ a.t.read[k] THEN a ELSE Admitted(a, k, l, admit(def.parts[k].sel, a.t.regions[k], l))

\* Mutant: a region that closed is read when the next line comes.
closesNever(t, k) == t

\* A region that closed on this line is read now.
closes(t, k) == IF Ok(t) /\ ~t.read[k] /\ t.regions[k].done THEN closePart(t, k) ELSE t

fate(t, a, l) ==
  IF a.single = 0 THEN t
  ELSE [t EXCEPT !.fates = [n \in DOMAIN @ \union {l.num} |-> IF n = l.num THEN [pending |-> a.single, read |-> a.accounted] ELSE @[n]]]

\* The line was offered to every part, with what a says of it.
HandedRound(a, l) ==
  CASE ~Ok(a.t) -> a.t
    [] Ok(a.t) /\ ~a.claimed /\ ~Blank(l) -> Fail(a.t, "unread")
    [] OTHER -> FoldLeftDomain(closes, fate(a.t, a, l), def.parts)

\* A line goes to every part, whatever the others make of it.
offerTo(a, l) == FoldLeftDomain(LAMBDA b, k : Offered(b, k, l), a, def.parts)

feedComposite(t, l) ==
  HandedRound(offerTo([t |-> t, claimed |-> FALSE, accounted |-> FALSE, single |-> 0], l), l)

\* The parts that are still open end with the text.
finishes(t, k) == IF Ok(t) /\ ~t.read[k] THEN closePart(t, k) ELSE t

finishComposite(t) == FoldLeftDomain(finishes, t, def.parts)
-----------------------------------------------------------------------------
(* Before any parser.                                                      *)

feedRecord(t, l) ==
  IF def.composite THEN feedComposite(t, l) ELSE feedOne(t, 1, def.parts[1].parse, l)

\* A line the selection leaves out is unread, unless there is nothing on it.
leftOut(t, l, whole) == IF Opens(l, whole) \/ Blank(l) THEN t ELSE Fail(t, "unread")

feedSelected(t, l) ==
  LET sel == def.sel
      begins == sel.after # {} /\ ~t.sel.started
      open == ~t.sel.done /\ ~begins
      ends == open /\ Opens(l, sel.until)
      past == sel.limit > 0 /\ t.sel.taken >= sel.limit
  IN CASE t.sel.done -> leftOut(t, l, {})
       [] ~t.sel.done /\ begins /\ Opens(l, sel.after) -> leftOut([t EXCEPT !.sel.started = TRUE], l, sel.heading)
       [] ~t.sel.done /\ begins /\ ~Opens(l, sel.after) -> leftOut(t, l, {})
       [] ends -> leftOut([t EXCEPT !.sel.done = TRUE], l, sel.end)
       [] open /\ ~ends /\ t.sel.skipped < sel.skip -> leftOut([t EXCEPT !.sel.skipped = @ + 1], l, {})
       [] open /\ ~ends /\ t.sel.skipped >= sel.skip /\ past -> leftOut(t, l, {})
       [] OTHER -> feedRecord([t EXCEPT !.sel.taken = @ + 1], l)

\* The empty lines held back are between lines with text after all.
release(t, e) ==
  Then(IF t.empty = <<>> THEN t ELSE [t EXCEPT !.empty = Tail(@), !.held = @ - LineBytes(e.text)],
       LAMBDA u : IF Opens(e, def.ignore) THEN u ELSE feedSelected(u, e))

\* feedFolded
feedFolded(t, l) ==
  CASE EdgeBlank(l, def.skipBlank) /\ (def.skipBlank \/ ~t.text) -> t
    [] EdgeBlank(l, def.skipBlank) /\ ~def.skipBlank /\ t.text ->
         Then(take(t, l), LAMBDA u : [u EXCEPT !.empty = Append(@, l)])
    [] OTHER -> FoldLeft(release, [t EXCEPT !.text = TRUE], Append(t.empty, l))

\* What a fold held is let go; who does it hands the pieces on, joined.
releaseFolding(t) == give([t EXCEPT !.folding = <<>>], t.folding)

\* Only the next line says whether the one before it is whole.
feedRaw(t, l) ==
  LET piece == [l EXCEPT !.text = Trimmed(l)]
      begun(u) == [u EXCEPT !.folding = <<l>>]
  IN CASE def.fold = {} -> feedFolded(t, l)
       [] def.fold # {} /\ Continues(def, l) ->
            IF t.folding = <<>> \/ Blank(t.folding[1]) THEN Fail(t, "refused")
            ELSE Then(take(t, piece), LAMBDA u : [u EXCEPT !.folding = Append(@, piece)])
       [] OTHER ->
            \* The line is held before the one before it is handed on.
            Then(take(releaseFolding(t), l),
                 LAMBDA u : IF t.folding = <<>> THEN begun(u) ELSE feedFolded(begun(u), Joined(t.folding)))

flushCSVRecord(t) ==
  IF t.csvRec = <<>> THEN t
  ELSE feedRaw(give([t EXCEPT !.csvRec = <<>>], t.csvRec), Joined(t.csvRec))

feedPhysical(t, l) ==
  IF ~def.csv THEN feedRaw(t, l)
  ELSE Then(take(t, l),
            LAMBDA u : LET v == [u EXCEPT !.csvRec = Append(@, l)]
                       IN IF Closed(Joined(v.csvRec), def.parts[1].parse) THEN flushCSVRecord(v) ELSE v)

feedRecordText(t, x, num) ==
  IF x \in Garbled THEN Fail(t, "refused") ELSE feedPhysical(t, [text |-> <<x>>, num |-> num])

\* finish
finish(t) ==
  Then(Then(flushCSVRecord(t), LAMBDA u : IF u.folding = <<>> THEN u ELSE feedFolded(releaseFolding(u), Joined(u.folding))),
       LAMBDA u : IF def.composite THEN finishComposite(u) ELSE finishPart(u, 1, def.parts[1].parse))

-----------------------------------------------------------------------------

Init ==
  /\ def \in Definitions /\ input = <<>> /\ stage = "reading"
  /\ \E stops \in def.stops : s = streamer(def, stops)

\* One record of the text.
Reads(x) ==
  /\ stage = "reading" /\ Len(input) < MaxLines
  /\ input' = Append(input, x)
  /\ s' = feedRecordText(s, x, Len(input) + 1)
  /\ stage' = IF Ok(s') THEN "reading" ELSE "failed"
  /\ UNCHANGED def

\* The text ends.
Ends ==
  /\ stage = "reading"
  /\ s' = finish(s) /\ stage' = "over"
  /\ UNCHANGED <<def, input>>

\* A read that failed ends it where no record does.
ReadFails ==
  /\ stage = "reading" /\ stage' = "cut"
  /\ UNCHANGED <<def, input, s>>

\* What is written after the record that could not be read; nobody reads it.
WrittenOn(x) ==
  /\ stage = "failed" /\ Len(input) < MaxLines
  /\ input' = Append(input, x)
  /\ UNCHANGED <<def, s, stage>>

Returned == stage # "reading" /\ UNCHANGED vars

Next ==
  \/ \E x \in def.letters : Reads(x) \/ WrittenOn(x)
  \/ Ends \/ ReadFails \/ Returned

Spec == Init /\ [][Next]_vars

-----------------------------------------------------------------------------

Whole == ParseAccounted(def, input)

Parts == DOMAIN def.parts

\* A part hands a record over a line late when only the next one ends it,
\* and a folded line is itself a line late.
HeldBack(k) ==
  (IF def.csv \/ def.parts[k].parse.type \in {"lines", "table"} THEN 0 ELSE 1) + IF def.fold = {} THEN 0 ELSE 1

(* The two readings agree: a stream that comes to its end handed over what *)
(* the whole text is read as, part by part, and one that is refused is the *)
(* beginning of no text that can be read whole (Stream, Parse).            *)
Agrees ==
  /\ stage = "over" /\ Ok(s) => Whole.ok /\ s.out = Whole.recs
  /\ s.err \in {"refused", "unread"} => ~Whole.ok

(* What was handed over stands, and what could be handed over was: at any  *)
(* moment a stream is behind the reading of what was written so far by the *)
(* record that may still grow, and by no other (Stream, feedComposite).    *)
NoneLate ==
  stage \in {"reading", "cut"} /\ Whole.ok =>
    \A k \in Parts :
      /\ IsPrefix(s.out[k], Whole.recs[k])
      /\ Len(s.out[k]) + HeldBack(k) >= Len(Whole.recs[k])
      /\ s.regions[k].done /\ def.fold = {} => s.out[k] = Whole.recs[k]

\* What is held back is what is charged for, never more than the bound; and no
\* text within the bound fails for it, but one whose lines several parts hold,
\* each of them once.
HoldIsCharged ==
  /\ Ok(s) =>
       /\ s.held = LinesBytes(s.csvRec) + LinesBytes(s.folding) + LinesBytes(s.empty)
                     + Total([k \in Parts |-> LinesBytes(s.subs[k].group) + LinesBytes(s.lines[k])])
       /\ s.held <= def.limit
  /\ s.err = "large" => Cardinality(Parts) * LinesBytes(LinesOf(input)) > def.limit


\* The records counted are those sent, and the lines whose fate is open are those
\* that parts of one value still hold, counted once for each.
FatesAreOpen ==
  /\ s.sent = Total([k \in Parts |-> Len(s.out[k])])
  /\ Ok(s) => /\ DOMAIN s.fates = UNION {Nums(s.lines[k]) : k \in Parts}
              /\ \A n \in DOMAIN s.fates : s.fates[n].pending = Cardinality({k \in Parts : n \in Nums(s.lines[k])})

\* Every line of a text that is read is read, ignored, blank or joined to another,
\* and only one of these.
AccountAddsUp ==
  Whole.ok =>
    Whole.account.read + Whole.account.ignored + Whole.account.blank + Whole.account.folded = Len(input)

(* The books of a reading balance, however its lines are folded, held,     *)
(* shared between parts and given back: the bytes held are the bytes       *)
(* charged, the fates that are open are those of lines held, and the       *)
(* account of the whole has each line once (hold, fates, ledger.count).    *)
BooksBalance == HoldIsCharged /\ FatesAreOpen /\ AccountAddsUp
=============================================================================
