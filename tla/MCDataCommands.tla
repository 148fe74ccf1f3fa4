---------------------------- MODULE MCDataCommands ----------------------------
(***************************************************************************)
(* The data commands over a handful of definitions, files and arguments,   *)
(* every combination of options over no input, and, for what reads each    *)
(* format, every short input of the letters that matter to it.             *)
(***************************************************************************)
EXTENDS DataClaims

A == <<"a">>
B == <<"b">>
C == <<"c">>

MCRows == [ra |-> <<A>>, rb |-> <<B>>, rab |-> <<A, B>>]

Ls == [Definition("ls", "long", "rows") EXCEPT !.known = {A, B}, !.fits = {"ra"}, !.year = TRUE]
Ps == [Definition("ps", "open", "rows") EXCEPT !.known = {A}, !.open = TRUE, !.fits = {"rb"}, !.zone = TRUE]
Top == [Definition("top", "parts", "composite") EXCEPT !.known = {A, B}, !.fits = {"ra"}]
Uptime == [Definition("uptime", "one", "object") EXCEPT !.known = {A, B}, !.fits = {"rab"}]
Comma == [Definition("csv", "comma", "csv") EXCEPT !.shape = TRUE]
Typed == [Definition("csv", "typed", "csv") EXCEPT !.shape = TRUE, !.fields = {A}]
NoHeader == [Comma EXCEPT !.variant = "comma-no-header", !.none = TRUE]

MCRegistry == {Ls, Ps, Top, Uptime, Comma, Typed, NoHeader}
MCDefines ==
  ("rows" :> [Ls EXCEPT !.command = "inline"]) @@ ("csv" :> [NoHeader EXCEPT !.command = "inline"])
    @@ ("named" :> [NoHeader EXCEPT !.command = "inline", !.columns = <<A, B>>])

MCGuesses == (<<"f">> :> <<<<"ls", "long">>>>) @@ (<<"g">> :> <<<<"csv", "comma">>, <<"ps", "open">>>>)

Plain(data) == [packed |-> "", data |-> data, unpacked |-> <<>>]
Gzipped(data) == [packed |-> "gzip", data |-> <<"gz">>, unpacked |-> data]
MCFiles ==
  (<<"f">> :> Plain(<<"BOM", "1", "CR", "LF">>)) @@ (<<"g">> :> Plain(<<"[", "1", "]">>))
    @@ (<<"t", ".csv">> :> Plain(<<>>)) @@ (<<"d", ".jsonl", ".gz">> :> Gzipped(<<"1", "LF", "LF", "[", "1", "]">>))
    @@ (<<"x", ".gz">> :> Plain(<<"1">>)) @@ (<<"v", ".yaml">> :> Plain(<<"{", "qa", "~", "}">>))

----------------------------------------------------------------------------

NoOptions ==
  [file |-> StandardInput, format |-> "", parser |-> "", variant |-> "", define |-> "", columns |-> <<>>, types |-> <<>>,
   pretty |-> FALSE, stream |-> FALSE, raw |-> FALSE, year |-> "", zones |-> {}, extract |-> {}, exclude |-> {}]

Convert(options, letters, size) == [name |-> "convert", options |-> options, arguments |-> {}, letters |-> letters, size |-> size]
New(array, each, pretty, arguments, letters, size) ==
  [name |-> "new", options |-> [array |-> array, each |-> each, pretty |-> pretty], arguments |-> arguments,
   letters |-> letters, size |-> size]

Format_(format) == [NoOptions EXCEPT !.format = format]
File(path) == [NoOptions EXCEPT !.file = path]
Parser(parser, variant) == [NoOptions EXCEPT !.parser = parser, !.variant = variant]
Define(name) == [NoOptions EXCEPT !.define = name]

Sources ==
  {NoOptions, Format_("json"), Format_("jsonl"), Format_("csv"), Format_("xml"), File(<<"t", ".csv">>),
   File(<<"d", ".jsonl", ".gz">>), File(<<"f">>), Parser("ls", ""), Parser("csv", ""), Parser("csv", "comma"),
   Parser("csv", "typed"), Parser("csv", "comma-no-header"), Parser("csv", "none"), Parser("uptime", ""), Parser("", "long"),
   Define("rows"), Define("csv"), Define("named"), Define("broken"), [Define("csv") EXCEPT !.parser = "csv"],
   [File(<<"t", ".csv">>) EXCEPT !.parser = "ps"], [File(<<"t", ".csv">>) EXCEPT !.format = "lines"],
   File(<<"gone">>), File(<<"x", ".gz">>)}

Zone(offset) == [name |-> "MST", offset |-> offset]

AnyOptions ==
  {[source EXCEPT !.columns = columns, !.types = types, !.pretty = pretty, !.stream = stream, !.raw = raw, !.year = year,
                  !.zones = zones, !.extract = keys[1], !.exclude = keys[2]] :
     source \in Sources, columns \in {<<>>, <<A, B>>, <<B, B>>}, types \in {<<>>, <<A>>}, pretty \in BOOLEAN, stream \in BOOLEAN,
     raw \in BOOLEAN, year \in {"", "2024"}, zones \in {{}, {Zone(1)}, {Zone(1), Zone(2)}},
     keys \in {<<{}, {}>>, <<{B}, {}>>, <<{}, {C}>>, <<{A}, {B}>>}}

Streamed(options) == [options EXCEPT !.stream = TRUE]
Both(options) == {options, Streamed(options)}
Keyed(options) == {options, [options EXCEPT !.extract = {B}], [options EXCEPT !.exclude = {A, C}]}

Letter(x) == <<x>>
Letters(set) == {<<x>> : x \in set}

DataInputs ==
  {Convert(options, Letters({"1", "SP", "CR", "BOM", "half", "LF"}), 5) : options \in Both(Format_("jsonl"))}
  \union {Convert(keyed, {<<"{", "qa", "1", "qb", "1", "}">>, <<"{", "qb", "[", "]", "}">>, <<"1">>, <<"LF">>}, 10) :
            keyed \in UNION {Keyed(options) : options \in Both(Format_("jsonl"))}}
  \union {Convert(keyed, {<<"a", ":", "1">>, <<"b", ":">>, <<"TAB">>, <<"CR">>, <<"BOM">>, <<"!">>, <<"LF">>}, 6) :
            keyed \in UNION {Keyed(options) : options \in Both(Format_("ltsv"))}}
  \union {Convert(options, Letters({"a", "CR", "BOM", "!", "LF"}), 5) : options \in Both(Format_("lines"))}
  \union {Convert(options, Letters({"a", "CR", "LF", "NUL"}), 5) : options \in Both(Format_("nul"))}
  \union {Convert(Format_("json"), Letters({"[", "]", "{", "}", "qa", "1"}), 6), Convert(Format_("text"), Letters({"BOM", "!", "LF"}), 3),
          Convert(Format_("yaml"), Letters({"[", "]", "~", "0x1", ".inf", "a"}), 4)}
  \union {Convert(options, Letters({"1", "LF"}), 4) : options \in Both(File(<<"d", ".jsonl", ".gz">>))}

Texted ==
  {Format_("csv"), [Format_("csv") EXCEPT !.types = <<A>>], Parser("csv", "comma-no-header"),
   [Parser("csv", "comma-no-header") EXCEPT !.columns = <<A, B>>], [Parser("csv", "comma") EXCEPT !.types = <<A>>],
   Parser("ls", ""), Parser("ps", ""), Parser("top", ""), Parser("uptime", ""), NoOptions, File(<<"f">>), File(<<"g">>)}

TextInputs ==
  {Convert(keyed, Letters({"ra", "rb", "rab", "LF"}), 6) :
     keyed \in UNION {Keyed(options) : options \in UNION {Both(options) : options \in Texted}}}

----------------------------------------------------------------------------

Arg(form, text) == [form |-> form, text |-> text]

MCArguments ==
  {Arg("plain", <<"a", "=", "b">>), Arg("plain", <<"a", "[", "]", ":", "=", "1">>), Arg("plain", <<"1", "=", "@", "-">>),
   Arg("plain", <<"b", ":", "=", "[", "1", "]">>), Arg("plain", <<"b", ":", "=", "{", "qa", "1", "qa", "1", "}">>),
   Arg("plain", <<":", "=", "@", "-">>), Arg("plain", <<"=", "b">>), Arg("plain", <<"b">>),
   Arg("path", <<"/", "a", "/", "-", "=", "b">>), Arg("path", <<"/", "a", "/", "0", "/", "b", ":", "=", "1">>),
   Arg("path", <<"/", "-", "/", "b", "=", "a">>), Arg("path", <<"/", "0", "/", "a", ":", "=", "1">>),
   Arg("path", <<"/", "a", "/", "b", "/", "-", ":", "=", "1">>), Arg("path", <<"/", "~", "1", "/", "a", "=", "b">>),
   Arg("path", <<"/", "a", "/", "b", "/", "1", ":", "=", "[", "1", "]">>), Arg("path", <<"/", "a", "/", "1", "=", "b">>), Arg("path", <<"/", "1", "/", "a", "=", "b">>),
   Arg("string", <<"/", "a", "/", "-", "=", "@">>), Arg("string", <<"a", ":", "=", "1">>), Arg("string", <<"=", "b">>)}

Reading_ ==
  {Arg("plain", <<"a", "=", "@", "-">>), Arg("plain", <<"a", ":", "=", "@", "-">>), Arg("plain", <<"b", "=", "@", "f">>),
   Arg("plain", <<"b", ":", "=", "@", "d", ".jsonl", ".gz">>), Arg("plain", <<"b", ":", "=", "@", "x", ".gz">>),
   Arg("plain", <<"b", ":", "=", "@", "v", ".yaml">>), Arg("plain", <<"1", "=", "@", "gone">>),
   Arg("text-file", <<"a", "=", "-">>), Arg("text-file", <<"b", "=", "f">>), Arg("path", <<"/", "1", "/", "-", ":", "=", "@", "g">>)}

NewInputs ==
  {New(array, FALSE, FALSE, MCArguments, {}, 0) : array \in BOOLEAN}
  \union {New(FALSE, each, pretty, Reading_, Letters({"1", "[", "]", "CR", "LF"}), 3) : each \in BOOLEAN, pretty \in {FALSE}}
  \union {New(FALSE, each, FALSE, {Arg("path", <<"/", "a", "/", "b", "/", "-", ":", "=", "@", "-">>), Arg("plain", <<"b", "=", "@", "f">>)},
               Letters({"1", "[", "]", "LF"}), 6) : each \in BOOLEAN}
  \union {New(FALSE, TRUE, TRUE, Reading_, {}, 0)}
  \union {New(FALSE, TRUE, FALSE, {Arg("plain", <<"a", x, "=", "@", "-">>)}, Letters({"1", "SP", "BOM", "!", "CR", "LF"}), 5) : x \in {":"}}
  \union {New(FALSE, TRUE, FALSE, {Arg("plain", <<"a", "=", "@", "-">>)}, Letters({"1", "BOM", "!", "CR", "LF"}), 5)}

MCCommands == {Convert(options, {}, 0) : options \in AnyOptions} \union DataInputs \union TextInputs \union NewInputs

MCPlacements ==
  [array \in BOOLEAN |->
     UNION {{[form |-> arg.form] @@ parseArg(arg, array) : arg \in command.arguments} : command \in NewInputs}]
=============================================================================
