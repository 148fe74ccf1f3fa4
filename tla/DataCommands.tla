----------------------------- MODULE DataCommands -----------------------------
(***************************************************************************)
(* `jz` and `jz new` at work (internal/cli/convert.go, stream.go, new.go): *)
(* a command is settled from its options and arguments, and then reads its *)
(* input as it comes, whole or a record at a time, and writes documents.   *)
(***************************************************************************)
EXTENDS Texts, Settling

CONSTANT MaxArguments \* the most arguments jz new is given

VARIABLES
  fixed,   \* the values --each has read
  choice,  \* the definition a stream has chosen, Nothing before it has
  mode,    \* "options", "whole", "stream", "each" or "done"
  came,    \* the letters of the input so far
  rec,     \* those of the record that has not ended
  num,     \* how many have
  header,  \* what the engine knows from the lines before
  filter,  \* the keys named, and what the records showed of them
  outs,    \* the documents written
  code     \* how the command ended, "" while it runs

building == <<places, plan, fixed>>
reader == <<rec, num, header>>
readBy == <<settled, choice>>
vars == <<cmd, places, plan, fixed, settled, choice, mode, came, rec, num, header, filter, outs, code>>

\* What is read: as the options have it, or by the definition chosen.
reads == IF choice = Nothing THEN settled ELSE Reads("given", None, choice, Nothing)

Init ==
  /\ SettlingInit /\ choice = Nothing
  /\ fixed = [ok |-> FALSE]
  /\ mode = "options"
  /\ came = <<>> /\ rec = <<>> /\ num = 0 /\ header = <<>>
  /\ filter = NoFilter
  /\ outs = <<>>
  /\ code = ""

Ends(c) == mode' = "done" /\ code' = c
GoesOn == UNCHANGED <<mode, code>>

\* A document is written; or it is not, since whoever reads it has gone or the
\* write fails, and that ends the command.
Writes(doc, then) ==
  \/ outs' = Append(outs, doc) /\ then
  \/ outs' = outs /\ \E c \in {"closed", "error"} : Ends(c)

----------------------------------------------------------------------------
(* jz new, before it reads. *)

\* The next argument; the options that place a value come before the others.
Given(arg) ==
  /\ mode = "options" /\ Len(places) < MaxArguments
  /\ arg.form = "plain" \/ \A i \in DOMAIN places : places[i].form # "plain"
  /\ Gives([form |-> arg.form] @@ parseArg(arg, o.array))
  /\ IF settled' = settled THEN GoesOn ELSE Ends(settled'.code)
  /\ UNCHANGED <<fixed, choice, came, reader, filter, outs>>

\* The document is made of what was read, or the failure is reported.
Answers(made) == IF made.ok THEN Writes(made.value, Ends("ok")) ELSE Ends(made.code) /\ outs' = outs

NewEach ==
  /\ outs' = outs
  /\ IF StdinFormat(places) \in {"", "text"} THEN fixed' = fixed /\ Ends("usage")
     ELSE /\ fixed' = Fixed(plan, places)
          /\ IF fixed'.ok THEN mode' = "each" /\ code' = code ELSE Ends(fixed'.code)

\* All arguments are given.
NewStarts ==
  /\ mode = "options" /\ AllGiven
  /\ IF ~settled'.ok THEN Ends(settled'.code) /\ UNCHANGED <<fixed, outs>>
     ELSE IF o.each THEN NewEach
     ELSE /\ fixed' = fixed
          /\ IF StdinFormat(places) # "" THEN mode' = "whole" /\ UNCHANGED <<code, outs>>
             ELSE Answers(Build(plan, places, [failed |-> FALSE, data |-> <<>>]))
  /\ UNCHANGED <<choice, came, reader, filter>>

----------------------------------------------------------------------------
(* jz, before it reads. *)

ConvertStarts ==
  /\ mode = "options" /\ Settles
  /\ IF settled'.ok
     THEN /\ mode' = IF o.stream THEN "stream" ELSE "whole"
          /\ filter' = IF settled'.kind = "given" THEN know(filterOf(o), settled'.def) ELSE filterOf(o)
          /\ code' = code
     ELSE Ends(settled'.code) /\ filter' = filter
  /\ UNCHANGED <<fixed, choice, came, reader, outs>>

\* The scope a file's path names, and the definition text is streamed with; a
\* path is a guess, which is dropped when it does not fit.
Guessed ==
  IF o.parser # "" \/ o.file = StandardInput THEN {}
  ELSE {Scope(def.command, def.variant) : def \in parserFromPath(o.file)}

Chosen(text) ==
  LET guessed == UNION {Select(scope, text) : scope \in Guessed}
  IN  IF guessed # {} THEN guessed ELSE Select(Scope(o.parser, o.variant), text)

----------------------------------------------------------------------------
(* The input, whole. *)

Comes(letters) ==
  /\ mode = "whole" /\ Len(came) <= MaxInput
  /\ came' = came \o letters
  /\ UNCHANGED <<cmd, building, readBy, mode, reader, filter, outs, code>>

Read_(v, f) == [ok |-> TRUE, value |-> v, filter |-> f]
ReadFailed(c) == [ok |-> FALSE, code |-> c, unknown |-> FALSE]
UnknownKey == [ok |-> FALSE, code |-> "usage", unknown |-> TRUE]

ParsedAs(def, r) ==
  CASE r.is = "bad" -> ReadFailed("parse")
    [] r.is = "missing" -> ReadFailed("usage")
    [] r.is = "record" -> Read_(r.value, know(filter, def))
Parsed(def) == ParsedAs(def, Parse(def, o.raw, came))

ReadAs(def) == IF Refuses(filter, def) THEN UnknownKey ELSE Parsed(def)

readWith(scopes) ==
  LET chosen == UNION {Select(scope, came) : scope \in scopes}
  IN  IF chosen = {} THEN ReadFailed("select") ELSE ReadAs(reading(settled, CHOOSE def \in chosen : TRUE))

\* A guess that describes the text and cannot read it is dropped as well.
Retracted(guess) == IF guess.ok \/ guess.unknown THEN guess ELSE readWith({Scope(o.parser, o.variant)})
Detected == Retracted(readWith(Guessed))

DataRead(r) == IF r.ok THEN Read_(r.value, filter) ELSE ReadFailed("parse")

ReadWhole ==
  IF Len(came) > MaxInput THEN ReadFailed("parse")
  ELSE CASE reads.kind = "data" -> DataRead(Read(reads.format, came))
         [] reads.kind = "given" -> Parsed(reads.def)
         [] reads.kind = "scope" -> Detected

\* A key nobody has is refused before the document is written.
Judged(narrowed) == IF unseen(narrowed.filter) # {} THEN UnknownKey ELSE Valued(narrowed.value)
Narrowed(got) == IF got.ok THEN Judged(narrowRecord(got.filter, got.value)) ELSE got

WholeEnds ==
  /\ mode = "whole"
  /\ IF IsNew THEN Answers(Build(plan, places, [failed |-> FALSE, data |-> came])) ELSE Answers(Narrowed(ReadWhole))
  /\ UNCHANGED <<cmd, building, readBy, came, reader, filter>>

\* What reading compressed data meets is the data's fault.
WholeFails ==
  /\ mode = "whole"
  /\ IF IsNew THEN Answers(Build(plan, places, [failed |-> TRUE, data |-> came]))
     ELSE Ends(IF Compression(o) = "" THEN "error" ELSE "parse") /\ outs' = outs
  /\ UNCHANGED <<cmd, building, readBy, came, reader, filter>>

----------------------------------------------------------------------------
(* The input, a record at a time. *)

DataFormat == IF mode = "each" THEN StdinFormat(places) ELSE reads.format
IsData == mode = "each" \/ reads.kind = "data"
RecordEnd == IF IsData THEN Separator(DataFormat) ELSE "LF"

\* A record of the format or of the definition; what comes of it is written,
\* unless it ends the stream.
Emitted(emitted, then) ==
  /\ filter' = emitted.filter
  /\ IF emitted.is = "written" THEN Writes(emitted.value, then)
     ELSE outs' = outs /\ IF emitted.is = "dropped" THEN then ELSE Ends("usage")

Emits(r, f, type, then) ==
  IF r.is = "record" THEN Emitted(streamEmit(f, type, r.value), then)
  ELSE /\ filter' = f /\ outs' = outs
       /\ CASE r.is = "none" -> then
            [] r.is = "bad" -> Ends("parse")
            [] r.is = "missing" -> Ends("usage")

Documented(doc, then) == IF doc.ok THEN Writes(doc.value, then) ELSE outs' = outs /\ Ends(doc.code)

EachDocument(r, then) ==
  /\ filter' = filter
  /\ CASE r.is = "none" -> outs' = outs /\ then
       [] r.is = "bad" -> outs' = outs /\ Ends("parse")
       [] r.is = "record" -> Documented(With(fixed, plan, places, r.value), then)

\* A line of text, read with the definition, once that is chosen.
TakesLine(def, f, then) ==
  LET r == engineLine(def, o.raw, rec, header)
  IN  header' = r.header /\ Emits(r, f, def.type, then)

StreamsAs(def, then) ==
  IF Refuses(filter, def) \/ ~StreamsDefinition(def) THEN Ends("usage") /\ UNCHANGED <<readBy, header, filter, outs>>
  ELSE choice' = def /\ settled' = settled /\ TakesLine(def, know(filter, def), then)

FirstLine(chosen, then) ==
  IF chosen = {} THEN Ends("select") /\ UNCHANGED <<readBy, header, filter, outs>>
  ELSE StreamsAs(reading(settled, CHOOSE def \in chosen : TRUE), then)

\* The record that is held is taken; ended says that its end has come.
Takes(ended, then) ==
  LET r == RecordOf(DataFormat, rec, num + 1, ended, 0)
  IN  IF mode = "each" THEN EachDocument(r, then) /\ UNCHANGED <<readBy, header>>
      ELSE CASE reads.kind = "data" -> Emits(r, filter, "data", then) /\ UNCHANGED <<readBy, header>>
             [] reads.kind = "given" -> TakesLine(reads.def, filter, then) /\ UNCHANGED readBy
             [] reads.kind = "scope" -> IF ended /\ rec = <<>> THEN then /\ UNCHANGED <<readBy, header, filter, outs>>
                                          ELSE FirstLine(Chosen(came), then)

IsStream == mode \in {"stream", "each"}

\* More of a record comes, up to the most that is held of one.
RecordGrows(letters) ==
  /\ IsStream /\ letters # <<RecordEnd>>
  /\ came' = came \o letters
  /\ rec' = rec \o letters
  /\ IF IsData /\ Len(rec') > MaxInput THEN Ends("parse") ELSE GoesOn
  /\ UNCHANGED <<cmd, building, readBy, num, header, filter, outs>>

RecordEnds ==
  /\ IsStream /\ Len(came) < cmd.size /\ <<RecordEnd>> \in cmd.letters
  /\ came' = Append(came, RecordEnd)
  /\ rec' = <<>> /\ num' = num + 1
  /\ Takes(TRUE, GoesOn)
  /\ UNCHANGED <<cmd, building>>

\* The end of the input ends its last record, and then the stream.
StreamEnds ==
  /\ IsStream
  /\ Takes(FALSE, Ends(IF unseen(filter') # {} THEN "usage" ELSE "ok"))
  /\ UNCHANGED <<cmd, building, came, rec, num>>

StreamFails ==
  /\ IsStream
  /\ Ends(IF mode = "stream" /\ Compression(o) # "" THEN "parse" ELSE "error")
  /\ UNCHANGED <<cmd, building, readBy, came, reader, filter, outs>>

----------------------------------------------------------------------------

MayCome == {letters \in cmd.letters : Len(came) < cmd.size}

Next ==
  \/ \E arg \in cmd.arguments : Given(arg)
  \/ NewStarts
  \/ ConvertStarts
  \/ \E letters \in MayCome : Comes(letters)
  \/ WholeEnds
  \/ WholeFails
  \/ \E letters \in MayCome : RecordGrows(letters)
  \/ RecordEnds
  \/ StreamEnds
  \/ StreamFails
  \/ mode = "done" /\ UNCHANGED vars

Spec == Init /\ [][Next]_vars
=============================================================================
