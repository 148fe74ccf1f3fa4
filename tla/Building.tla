------------------------------- MODULE Building -------------------------------
(***************************************************************************)
(* The document `jz new` makes of its arguments (internal/jsonbuild): what *)
(* an argument says, and the values that are put where Planning places     *)
(* them.                                                                   *)
(*                                                                         *)
(* An argument is its form and its letters, of which "=", ":", "@", "/",   *)
(* "[", "]", "~" and the digits mean something.                            *)
(***************************************************************************)
EXTENDS DataFiles, Planning

Unread == [ok |-> FALSE, code |-> "parse"]
Failing == [ok |-> FALSE, code |-> "error"]

----------------------------------------------------------------------------
(* What an argument says. *)

HasPrefix(text, prefix) == IsPrefix(prefix, text)
HasSuffix(text, suffix) == IsSuffix(suffix, text)
Without(text, suffix) == SubSeq(text, 1, Len(text) - Len(suffix))
Appending == <<"[", "]">>
NoValue == Token("")

\* A location and a placement that could be read, each a set of at most one.
PlainKey(key) ==
  LET name == IF HasSuffix(key, Appending) THEN Without(key, Appending) ELSE key
  IN  IF name = <<>> \/ HasSuffix(name, Appending) THEN {}
      ELSE {IF name = key THEN <<ToKey(name)>> ELSE <<ToKey(name), ToEnd>>}

unescape(part) ==
  SelectSeq([i \in DOMAIN part |-> IF i > 1 /\ part[i - 1] = "~" THEN (IF part[i] = "0" THEN "~" ELSE "/")
                                   ELSE IF part[i] = "~" THEN "" ELSE part[i]],
            LAMBDA x : x # "")
EscapesKnown(part) == \A i \in DOMAIN part : part[i] = "~" => i < Len(part) /\ part[i + 1] \in {"0", "1"}

pointer(ptr) ==
  LET parts == Split(Tail(ptr), "/")
  IN  IF \E i \in DOMAIN parts : parts[i] = <<>> \/ ~EscapesKnown(parts[i]) \/ HasSuffix(unescape(parts[i]), Appending)
      THEN {}
      ELSE {[i \in DOMAIN parts |-> IF parts[i] = <<"-">> THEN ToEnd ELSE ToKey(unescape(parts[i]))]}

\* The KEY of --string and --text-file.
location(loc, array) ==
  IF HasSuffix(loc, <<":">>) THEN {}
  ELSE IF HasPrefix(loc, <<"/">>) THEN pointer(loc)
  ELSE IF array THEN {<<ToEnd>> : empty \in {loc} \intersect {<<>>}}
  ELSE PlainKey(loc)

Placement(loc, kind, text, value) == [ok |-> TRUE, loc |-> loc, kind |-> kind, text |-> text, value |-> value]

JSONPlacement(loc, value, result) ==
  IF result.ok THEN Placement(loc, "json", <<>>, result.value) ELSE IF ValidJSON(value) THEN Unread ELSE Usage

\* What follows the operator.
operand(loc, value, json) ==
  IF value = <<"@">> THEN Usage
  ELSE IF HasPrefix(value, <<"@">>) THEN Placement(loc, IF json THEN "data" ELSE "text", Tail(value), NoValue)
  ELSE IF json THEN JSONPlacement(loc, value, readJSON(value))
  ELSE Placement(loc, "literal", value, NoValue)

\* The key of an argument, whether := follows it, and what follows that; of one
\* without an operator there is no value.
Cut(text) ==
  LET at == After(Cuts(text, "="), 0)
      key == SubSeq(text, 1, at - 1)
      json == HasSuffix(key, <<":">>)
  IN  [found |-> at <= Len(text), key |-> IF json THEN Front(key) ELSE key, whole |-> key, json |-> json,
       value |-> SubSeq(text, at + 1, Len(text))]

splitElement(text) ==
  IF HasPrefix(text, <<":", "=">>) THEN operand(<<ToEnd>>, Tail(Tail(text)), TRUE)
  ELSE IF HasPrefix(text, <<"=">>) THEN operand(<<ToEnd>>, Tail(text), FALSE)
  ELSE Placement(<<ToEnd>>, "literal", text, NoValue)

\* Where an argument of a form says its value is to be.
LocationOf(form, cut, array) ==
  CASE form = "plain" -> PlainKey(cut.key)
    [] form = "path" -> IF HasPrefix(cut.key, <<"/">>) THEN pointer(cut.key) ELSE {}
    [] form \in {"string", "text-file"} -> location(cut.whole, array)

\* What is to be put there.
PlacedAt(form, cut, loc) ==
  CASE form \in {"plain", "path"} -> operand(loc, cut.value, cut.json)
    [] form = "string" -> Placement(loc, "literal", cut.value, NoValue)
    [] form = "text-file" -> IF cut.value = <<>> THEN Usage ELSE Placement(loc, "whole", cut.value, NoValue)

parseCut(form, cut, array) ==
  IF ~cut.found \/ LocationOf(form, cut, array) = {} THEN Usage
  ELSE PlacedAt(form, cut, CHOOSE loc \in LocationOf(form, cut, array) : TRUE)

parseArg(arg, array) ==
  IF ~UTF8(arg.text) THEN Usage
  ELSE IF arg.form = "plain" /\ array THEN splitElement(arg.text)
  ELSE parseCut(arg.form, Cut(arg.text), array)

\* How --each reads standard input.
StdinFormat(places) ==
  IF StdinPlaces(places) = {} THEN ""
  ELSE CASE places[CHOOSE i \in StdinPlaces(places) : TRUE].kind = "text" -> "lines"
         [] places[CHOOSE i \in StdinPlaces(places) : TRUE].kind = "data" -> "jsonl"
         [] OTHER -> "text"

----------------------------------------------------------------------------
(* The values, and the document. *)

Bytes(data) == [ok |-> TRUE, data |-> data]
Valued(v) == [ok |-> TRUE, value |-> v]

\* Reading a file, or the standard input the command was given.
read(path, stdin) ==
  IF path = <<"-">>
  THEN IF stdin.failed THEN Failing ELSE IF Len(stdin.data) > MaxInput THEN Unread ELSE Bytes(stdin.data)
  ELSE IF path \notin DOMAIN Files THEN Failing
  ELSE IF Len(Files[path].data) > MaxInput THEN Unread
  ELSE Bytes(Files[path].data)

\* What a file holds once it is unpacked.
decompress(path, data, compression) ==
  IF compression = "" THEN Bytes(data)
  ELSE IF Files[path].packed # compression \/ Len(Files[path].unpacked) > MaxInput THEN Unread
  ELSE Bytes(Files[path].unpacked)

\* Of a text, with its last line ending or without.
textValue(kind, text) ==
  IF ~UTF8(text) THEN Unread
  ELSE Valued(String(IF kind = "text" /\ HasSuffix(text, <<"LF">>) THEN TrimCR(Front(text)) ELSE text))

Known_(result) == IF result.ok THEN Valued(result.value) ELSE Unread
dataRead(format, plain) == IF plain.ok THEN Known_(Read(IF format = "" THEN "json" ELSE format, plain.data)) ELSE plain
dataValue(path, name, data) == dataRead(name.format, decompress(path, data, name.compression))

valueOf(placement, got) ==
  IF ~got.ok THEN got
  ELSE IF placement.kind = "data"
  THEN dataValue(placement.text, FromPath(IF placement.text = <<"-">> THEN <<>> ELSE placement.text), got.data)
  ELSE textValue(placement.kind, TrimBOM(got.data))

value(placement, stdin) ==
  CASE placement.kind = "literal" -> Valued(String(placement.text))
    [] placement.kind = "json" -> Valued(placement.value)
    [] OTHER -> valueOf(placement, read(placement.text, stdin))

\* The arrays and objects around the deepest scalar, and the values there are.
RECURSIVE valueDepth(_), countValues(_)
Parts(v) == CASE v.kind = "list" -> v.elements
              [] v.kind = "object" -> [i \in DOMAIN v.members |-> v.members[i].value]
              [] OTHER -> <<>>
valueDepth(v) ==
  IF v.kind \notin {"list", "object"} THEN 0
  ELSE 1 + FoldLeft(LAMBDA d, part : IF valueDepth(part) > d THEN valueDepth(part) ELSE d, 0, Parts(v))
countValues(v) == 1 + FoldLeft(LAMBDA n, part : n + countValues(part), 0, Parts(v))

checkDepth(placement, v) == Len(placement.loc) + valueDepth(v) <= MaxDepth

containers(plan) == Len(SelectSeq(plan, LAMBDA m : m.kind # "value"))

\* The document, the values of the arguments in their places.
RECURSIVE make(_, _, _)
make(plan, path, values) ==
  LET node == NodeAt(plan, path)
      inside == SelectSeq(plan, LAMBDA m : IsIn(m, path))
      made(i) == make(plan, inside[i].path, values)
  IN  CASE node.kind = "value" -> values[node.by]
        [] node.kind = "object" -> Object([i \in DOMAIN inside |-> Member(Last(inside[i].path)[2], made(i))])
        [] OTHER -> List([i \in DOMAIN inside |-> made(i)])

\* The values of the arguments in turn, and how many there are with the
\* containers of the plan; the first that fails is the failure.
WithValue(all, placement, v) ==
  IF ~v.ok THEN v
  ELSE IF ~checkDepth(placement, v.value) \/ all.n + countValues(v.value) > MaxValues THEN Unread
  ELSE [ok |-> TRUE, values |-> Append(all.values, v.value), n |-> all.n + countValues(v.value)]

valuesOf(places, skipped, stdin, n) ==
  LET take(all, i) ==
        IF ~all.ok THEN all
        ELSE IF i \in skipped THEN [all EXCEPT !.values = Append(@, Null)]
        ELSE WithValue(all, places[i], value(places[i], stdin))
  IN  FoldLeft(take, [ok |-> TRUE, values |-> <<>>, n |-> n], [i \in DOMAIN places |-> i])

Built(plan, got) == IF got.ok THEN Valued(make(plan, <<>>, got.values)) ELSE got
Build(plan, places, stdin) == Built(plan, valuesOf(places, {}, stdin, containers(plan)))

\* Every value but the one standard input gives, read once.
Fixed(plan, places) == valuesOf(places, StdinPlaces(places), [failed |-> TRUE, data |-> <<>>], containers(plan))

\* Mutant: the values the other arguments hold are not counted again.
WithUncounted(fixed, plan, places, v) ==
  LET slot == CHOOSE i \in StdinPlaces(places) : TRUE
  IN  IF ~checkDepth(places[slot], v) \/ countValues(v) > MaxValues THEN Unread
      ELSE Valued(make(plan, <<>>, [fixed.values EXCEPT ![slot] = v]))

With(fixed, plan, places, v) ==
  LET slot == CHOOSE i \in StdinPlaces(places) : TRUE
  IN  IF ~checkDepth(places[slot], v) \/ fixed.n + countValues(v) > MaxValues THEN Unread
      ELSE Valued(make(plan, <<>>, [fixed.values EXCEPT ![slot] = v]))
=============================================================================
