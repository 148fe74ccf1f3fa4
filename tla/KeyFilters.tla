------------------------------ MODULE KeyFilters ------------------------------
(***************************************************************************)
(* The keys --extract and --exclude name, as far as they can be judged     *)
(* before anything is read (internal/cli/keys.go).  A filter is handed     *)
(* along: it remembers the keys the records had.                           *)
(***************************************************************************)
EXTENDS SequencesExt

\* The filter of the keys named, and that of no option (nil).
NewFilter(keys, keep) ==
  [on |-> TRUE, keys |-> keys, keep |-> keep, known |-> {}, seen |-> {}, present |-> {}, cut |-> FALSE, judged |-> FALSE]
NoFilter == [NewFilter({}, FALSE) EXCEPT !.on = FALSE]

\* The keys a record of a definition can have; open when the input may add some.
recordKeys(def) ==
  IF def.type # "csv" THEN [known |-> def.known, open |-> def.open]
  ELSE IF def.columns = <<>> THEN [known |-> def.fields, open |-> TRUE]
  ELSE [known |-> ToSet(def.columns), open |-> FALSE]

\* The keys named that are not among those known, which is what is refused.
Unknown(filter, known) == filter.keys \ known

know(filter, def) == IF filter.on THEN [filter EXCEPT !.known = recordKeys(def).known] ELSE filter
Refuses(filter, def) == filter.on /\ ~recordKeys(def).open /\ Unknown(filter, recordKeys(def).known) # {}

\* What none of the definitions can produce, the reading being one of theirs.
knowBefore(filter, defs) ==
  /\ filter.on /\ defs # {}
  /\ \A def \in defs : ~recordKeys(def).open
  /\ Unknown(filter, UNION {recordKeys(def).known : def \in defs}) # {}
=============================================================================
