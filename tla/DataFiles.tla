------------------------------ MODULE DataFiles ------------------------------
(***************************************************************************)
(* The data files jz reads as they are (internal/datafile): JSON, JSON     *)
(* Lines, LTSV, YAML, and text whole, by lines or by NUL-ended records.    *)
(*                                                                         *)
(* A text is a sequence of letters: what ends a record, white space, the   *)
(* tokens of JSON without the commas and colons between them ("qa" is the  *)
(* string "a" in its quotes), and other text.  YAML is read in its flow    *)
(* style, which has the same tokens.  A value is a token, a string, a list *)
(* or an object, whose members are in order.                               *)
(***************************************************************************)
EXTENDS Naturals, FiniteSets, Formats

CONSTANTS
  MaxValues, \* the most values a document holds (engine.DefaultMaxValues)
  MaxDepth,  \* the deepest arrays and objects nest (limits.MaxDepth)
  MaxInput   \* the most letters of an input, and of a record (MaxInputSize)

ASSUME BoundsAssumption == MaxValues \in Nat /\ MaxDepth \in Nat /\ MaxInput \in Nat

Token(t) == [kind |-> "token", text |-> t]
String(s) == [kind |-> "string", text |-> s]
List(elements) == [kind |-> "list", elements |-> elements]
Object(members) == [kind |-> "object", members |-> members]
Member(key, value) == [key |-> key, value |-> value]
Null == Token("null")

\* The text of a string literal; half a surrogate pair names no character.
Quoted == [qa |-> <<"a">>, qb |-> <<"b">>, half |-> <<"?">>]

KeysOf(object) == {object.members[i].key : i \in DOMAIN object.members}
Under(object, key) == object.members[CHOOSE i \in DOMAIN object.members : object.members[i].key = key].value

----------------------------------------------------------------------------
(* Reading one value.  A reading counts the values it meets: n of them     *)
(* were there before, and no more than MaxValues may be after.             *)

Bad == [ok |-> FALSE]
Good(value, n) == [ok |-> TRUE, value |-> value, n |-> n]

UTF8(text) == "!" \notin ToSet(text)
TrimBOM(text) == IF text # <<>> /\ Head(text) = "BOM" THEN Tail(text) ELSE text
TrimCR(text) == IF text # <<>> /\ Last(text) = "CR" THEN Front(text) ELSE text
Tokens(text) == SelectSeq(text, LAMBDA x : x \notin {"SP", "TAB", "CR", "LF"})

\* The value of a scalar in JSON, and in YAML, whose core schema types a bare
\* word; {} is no scalar, or one JSON has no spelling for.
yamlScalar(x) ==
  CASE x \in {"1", "null"} -> {Token(x)}
    [] x = "0x1" -> {Token("1")}
    [] x = "~" -> {Null}
    [] x = ".inf" -> {}
    [] x \in {"a", "b"} -> {String(<<x>>)}
    [] OTHER -> {}

Scalar(format, x) ==
  CASE x \in DOMAIN Quoted -> {String(Quoted[x])}
    [] format = "yaml" -> yamlScalar(x)
    [] x \in {"1", "null"} -> {Token(x)}
    [] OTHER -> {}

\* The value s holds from i on, with what is counted and where it ends.  With no
\* limits it is what json.Valid takes.
RECURSIVE decodeValue(_, _, _, _, _), Elements(_, _, _, _, _, _), Members(_, _, _, _, _, _)

Decoded(value, n, next) == [ok |-> TRUE, value |-> value, n |-> n, next |-> next]

decodeValue(format, s, i, depth, n) ==
  LET strict == format # "any"
      opens(reads(_, _, _, _, _, _)) ==
        IF strict /\ depth >= MaxDepth THEN Bad ELSE reads(format, s, i + 1, depth, n + 1, <<>>)
  IN  IF i > Len(s) \/ (strict /\ n >= MaxValues) THEN Bad
      ELSE CASE s[i] = "[" -> opens(Elements)
             [] s[i] = "{" -> opens(Members)
             [] OTHER -> IF Scalar(format, s[i]) = {} THEN Bad
                         ELSE Decoded(CHOOSE v \in Scalar(format, s[i]) : TRUE, n + 1, i + 1)

Elements(format, s, i, depth, n, elements) ==
  IF i <= Len(s) /\ s[i] = "]" THEN Decoded(List(elements), n, i + 1)
  ELSE LET e == decodeValue(format, s, i, depth + 1, n)
       IN  IF e.ok THEN Elements(format, s, e.next, depth, e.n, Append(elements, e.value)) ELSE Bad

Members(format, s, i, depth, n, members) ==
  IF i > Len(s) THEN Bad
  ELSE IF s[i] = "}" THEN Decoded(Object(members), n, i + 1)
  ELSE IF s[i] \notin DOMAIN Quoted \/ (format # "any" /\ Quoted[s[i]] \in KeysOf(Object(members))) THEN Bad
  ELSE LET v == decodeValue(format, s, i + 1, depth + 1, n)
       IN  IF v.ok THEN Members(format, s, v.next, depth, v.n, Append(members, Member(Quoted[s[i]], v.value))) ELSE Bad

\* One value that is the whole of the text.
OneValue(format, text, n) ==
  LET s == Tokens(text)
      v == decodeValue(format, s, 1, 0, n)
  IN  IF v.ok /\ v.next = Len(s) + 1 THEN Good(v.value, v.n) ELSE Bad

loneSurrogate(text) == "half" \in ToSet(text)

ValidJSON(text) == UTF8(text) /\ OneValue("any", text, 0).ok

readJSON(data) == IF ~UTF8(data) \/ loneSurrogate(data) THEN Bad ELSE OneValue("json", TrimBOM(data), 0)
readYAML(data) == IF UTF8(data) THEN OneValue("yaml", TrimBOM(data), 0) ELSE Bad
readText(data) == IF UTF8(data) THEN Good(String(TrimBOM(data)), 1) ELSE Bad

jsonLine(line, n) == IF loneSurrogate(line) THEN Bad ELSE OneValue("jsonl", line, n)

\* The fields of a record, cut at each tab.
Cuts(line, x) == {0, Len(line) + 1} \union {i \in DOMAIN line : line[i] = x}
After(cuts, i) == CHOOSE j \in cuts : j > i /\ \A k \in cuts : k > i => j <= k
Split(line, x) ==
  LET cuts == Cuts(line, x)
      starts == SelectSeq([i \in 1 .. Len(line) + 1 |-> i - 1], LAMBDA i : i \in cuts)
  IN  [f \in DOMAIN starts |-> SubSeq(line, starts[f] + 1, After(cuts, starts[f]) - 1)]

validLabel(label) == label # <<>> /\ ToSet(label) \subseteq {"a", "b", "1"}

ltsvLine(line, n) ==
  LET fields == Split(line, "TAB")
      colon(f) == After(Cuts(f, ":"), 0)
      label(f) == SubSeq(f, 1, colon(f) - 1)
  IN  IF /\ \A i \in DOMAIN fields : ":" \in ToSet(fields[i]) /\ validLabel(label(fields[i]))
         /\ \A i, j \in DOMAIN fields : i # j => label(fields[i]) # label(fields[j])
         /\ n + 1 + Len(fields) <= MaxValues
      THEN Good(Object([i \in DOMAIN fields |->
                  Member(label(fields[i]), String(SubSeq(fields[i], colon(fields[i]) + 1, Len(fields[i]))))]),
                n + 1 + Len(fields))
      ELSE Bad

----------------------------------------------------------------------------
(* Reading records. *)

Separator(format) == IF format = "nul" THEN "NUL" ELSE "LF"

blankLine(format, line) == IF format = "ltsv" THEN line = <<>> ELSE ToSet(line) \subseteq {"SP", "TAB", "CR"}

NoRecord == [is |-> "none"]
BadRecord == [is |-> "bad"]
Record(reading) == IF reading.ok THEN [is |-> "record", value |-> reading.value, n |-> reading.n] ELSE BadRecord

\* Mutant: the carriage return is taken off a last line that has no ending.
streamStringsTrims(format, rec, num, ended, n) ==
  LET first == IF format = "lines" /\ num = 1 THEN TrimBOM(rec) ELSE rec
      text == IF format = "lines" THEN TrimCR(first) ELSE first
  IN  IF ~ended /\ first = <<>> THEN NoRecord
      ELSE IF UTF8(text) /\ n < MaxValues THEN Record(Good(String(text), n + 1)) ELSE BadRecord

\* A record of text: ended by its separator, or what is left at the end.
streamStrings(format, rec, num, ended, n) ==
  LET first == IF format = "lines" /\ num = 1 THEN TrimBOM(rec) ELSE rec
      text == IF format = "lines" /\ ended THEN TrimCR(first) ELSE first
  IN  IF ~ended /\ first = <<>> THEN NoRecord
      ELSE IF UTF8(text) /\ n < MaxValues THEN Record(Good(String(text), n + 1)) ELSE BadRecord

\* Mutant: the mark that opens a text is looked for on every line.
readRecordLineMarked(format, rec, num, n) ==
  LET line == TrimCR(TrimBOM(rec))
  IN  IF blankLine(format, line) THEN NoRecord
      ELSE IF ~UTF8(line) THEN BadRecord
      ELSE Record(IF format = "jsonl" THEN jsonLine(line, n) ELSE ltsvLine(line, n))

\* A line of JSON Lines or LTSV.
readRecordLine(format, rec, num, n) ==
  LET line == TrimCR(IF num = 1 THEN TrimBOM(rec) ELSE rec)
  IN  IF blankLine(format, line) THEN NoRecord
      ELSE IF ~UTF8(line) THEN BadRecord
      ELSE Record(IF format = "jsonl" THEN jsonLine(line, n) ELSE ltsvLine(line, n))

\* What the num-th record of a text is, once its end has come, n values having
\* been counted for it before.
RecordOf(format, rec, num, ended, n) ==
  IF format \in {"lines", "nul"} THEN streamStrings(format, rec, num, ended, n)
  ELSE readRecordLine(format, rec, num, n)

\* streamCounted over a whole document, whose list is a value of its own.
WithRecord(all, r) ==
  CASE r.is = "record" -> Good(Append(all.value, r.value), r.n)
    [] r.is = "none" -> all
    [] r.is = "bad" -> Bad

RECURSIVE streamCounted(_, _, _, _)
streamCounted(format, data, num, all) ==
  LET sep == After(Cuts(data, Separator(format)), 0)
      then == WithRecord(all, RecordOf(format, SubSeq(data, 1, sep - 1), num, sep <= Len(data), all.n))
  IN  IF ~then.ok \/ sep > Len(data) THEN then
      ELSE streamCounted(format, SubSeq(data, sep + 1, Len(data)), num + 1, then)

AsList(all) == IF all.ok THEN Good(List(all.value), all.n) ELSE Bad

Read(format, data) ==
  CASE format = "json" -> readJSON(data)
    [] format = "yaml" -> readYAML(data)
    [] format = "text" -> readText(data)
    [] Streams(format) -> IF MaxValues = 0 THEN Bad ELSE AsList(streamCounted(format, data, 1, Good(<<>>, 1)))
=============================================================================
