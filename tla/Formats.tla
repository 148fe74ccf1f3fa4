------------------------------- MODULE Formats -------------------------------
(***************************************************************************)
(* The formats of data files, what the name of a file says of one          *)
(* (internal/datafile), and the files there are.                           *)
(***************************************************************************)
EXTENDS Sequences, SequencesExt, TLC

CONSTANT Files \* the files there are, by path: what they hold, what that is
               \* packed with, if it is, and what it is unpacked

\* No format, and no name.
None == ""

Streams(format) == format \in {"ltsv", "jsonl", "lines", "nul"}
Tabular(format) == format \in {"csv", "tsv"}
Known(format) == Streams(format) \/ Tabular(format) \/ format \in {"json", "yaml", "text"}

Extensions == (".json" :> "json") @@ (".jsonl" :> "jsonl") @@ (".ltsv" :> "ltsv") @@ (".yaml" :> "yaml") @@ (".csv" :> "csv")
Compressions == (".gz" :> "gzip") @@ (".bz2" :> "bzip2")
Named(map, path) == IF path # <<>> /\ Last(path) \in DOMAIN map THEN map[Last(path)] ELSE None

\* A name that is only an extension is that of a hidden file.
FromPath(path) ==
  LET compression == Named(Compressions, path)
      base == IF compression = None THEN path ELSE Front(path)
  IN  [format |-> IF Len(base) > 1 THEN Named(Extensions, base) ELSE None, compression |-> compression]
=============================================================================
