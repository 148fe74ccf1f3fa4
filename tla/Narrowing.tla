------------------------------ MODULE Narrowing ------------------------------
(***************************************************************************)
(* The keys --extract and --exclude name (internal/cli/keys.go): what is   *)
(* known of them before anything is read, what each record shows of them,  *)
(* and what is left of a record.                                           *)
(*                                                                         *)
(* A filter is handed along: it remembers the keys the records had.        *)
(***************************************************************************)
EXTENDS DataFiles, KeyFilters

CONSTANT MaxShownKeys \* the keys a refusal names (maxShownKeys)

ASSUME ShownAssumption == MaxShownKeys \in Nat

\* Mutant: a key is seen only while there is room to show it.
sawWithRoom(filter, key) ==
  LET room == key \in filter.present \/ Cardinality(filter.present) < MaxShownKeys
  IN  [filter EXCEPT !.seen = IF room THEN @ \union ({key} \intersect filter.keys) ELSE @,
                     !.present = IF room THEN @ \union {key} ELSE @,
                     !.cut = @ \/ ~room]

saw(filter, key) ==
  LET room == key \in filter.present \/ Cardinality(filter.present) < MaxShownKeys
  IN  [filter EXCEPT !.seen = @ \union ({key} \intersect filter.keys),
                     !.present = IF room THEN @ \union {key} ELSE @,
                     !.cut = @ \/ ~room]

Keeps(filter, key) == (key \in filter.keys) = filter.keep

\* A value narrowed, with the filter that has seen it.
narrow(filter, object) ==
  [filter |-> FoldLeft(LAMBDA f, m : saw(f, m.key), filter, object.members),
   value |-> Object(SelectSeq(object.members, LAMBDA m : Keeps(filter, m.key)))]

RECURSIVE walk(_, _)
walk(filter, v) ==
  CASE v.kind = "object" -> narrow(filter, v)
    [] v.kind = "list" ->
         LET each(done, element) ==
               LET next == walk(done.filter, element)
               IN  [filter |-> next.filter, elements |-> Append(done.elements, next.value)]
             all == FoldLeft(each, [filter |-> filter, elements |-> <<>>], v.elements)
         IN  [filter |-> all.filter, value |-> List(all.elements)]
    [] OTHER -> [filter |-> filter, value |-> v]

narrowRecord(filter, v) == IF filter.on THEN walk(filter, v) ELSE [filter |-> filter, value |-> v]

\* The keys that turned out to be nobody's.
unseen(filter) == Unknown(filter, filter.seen \union filter.known)

PartDocument(part, v) == Object(<<Member("part", String(part)), Member("value", v)>>)

\* What is written of one document of a stream: the document, none, or a
\* refusal.  The first record of a csv has the keys of them all.
streamEmit(filter, type, v) ==
  LET narrowed == narrowRecord(filter, v)
      part == Under(v, "part").text
      is(is_, f, value) == [is |-> is_, filter |-> f, value |-> value]
  IN  IF ~filter.on THEN is("written", filter, v)
      ELSE CASE type = "csv" ->
                  IF ~filter.judged /\ unseen(narrowed.filter) # {} THEN is("refused", narrowed.filter, v)
                  ELSE is("written", [narrowed.filter EXCEPT !.judged = TRUE], narrowed.value)
             [] type = "composite" -> is(IF Keeps(filter, part) THEN "written" ELSE "dropped", saw(filter, part), v)
             [] OTHER -> is("written", narrowed.filter, narrowed.value)
=============================================================================
