------------------------------ MODULE Outputs ------------------------------
(***************************************************************************)
(* What each form of a definition produces, the schema it is given, and    *)
(* what one form's documents and readers make of another: the tables that  *)
(* Contract is checked with.                                               *)
(***************************************************************************)
EXTENDS Documents, Schemas

CONSTANTS
  DraftOf,        \* the parser of each form, by family and name
  InputsOf        \* the inputs a form is given

ASSUME DraftsAssumption ==
  DOMAIN InputsOf = UNION {{<<family, name>> : name \in DOMAIN DraftOf[family]} : family \in DOMAIN DraftOf}

Parser(d) == DraftOf[d[1]][d[2]]
Loading == {d \in DOMAIN InputsOf : Loads(Parser(d))}
SchemaOf(d) == Generate(Parser(d))
Made(results) == {r.value : r \in {x \in results : x.is = "value"}}
DocumentsOf(d) == Made({Document(Parser(d), input) : input \in InputsOf[d]})

\* Two forms of one family.
Pairs == {pair \in {<<d, e>> : d \in Loading, e \in Loading} : pair[1][1] = pair[2][1]}

SamePairs == {pair \in Pairs : SchemaOf(pair[1]) = SchemaOf(pair[2])}
BreakingPairs == {pair \in Pairs : Breaking(Compare(SchemaOf(pair[1]), SchemaOf(pair[2]))) # {}}

Fit(schema, documents) == \A doc \in documents : Validates(schema, doc)
FittingPairs == {pair \in Pairs : Fit(SchemaOf(pair[2]), DocumentsOf(pair[1]))}

\* The keys a schema names, as the ways to them down to Depth keys deep ("*" is a
\* key the input names); the elements of an array are of one kind.
Depth == 3
RECURSIVE Paths(_, _, _)
Under(root, key, sub, depth) ==
  {<<key>>} \cup (IF depth = 1 THEN {} ELSE {<<key>> \o path : path \in Paths(root, sub, depth - 1)})
Paths(root, ref, depth) ==
  LET s == resolve(root, ref)[1]
  IN  UNION ({Under(root, s.props[i].name, s.props[i].schema, depth) : i \in DOMAIN s.props}
             \cup {Under(root, "*", s.extra[i], depth) : i \in DOMAIN s.extra}
             \cup {Paths(root, s.items[i], depth) : i \in DOMAIN s.items})

\* Whether what s describes may have something at the end of a path.
RECURSIVE Offers(_, _, _)
Offers(root, ref, path) ==
  LET s == resolve(root, ref)[1]
  IN  \/ path = <<>>
      \/ \E i \in DOMAIN s.items : Offers(root, s.items[i], path)
      \/ \E sub \in ToSet(Named(s.props, path[1]) \o s.extra) : Offers(root, sub, Tail(path))

\* A program written against the schema known meets only what it has a case for in
\* the documents, and every key it knows may still come.
Readable(known, now, documents) ==
  /\ \A doc \in documents : MeetsNothingNew(known, doc)
  /\ \A path \in Paths(known, known, Depth) : Offers(now, now, path)
ReadingPairs == {pair \in Pairs :
  Readable(SchemaOf(pair[1]), SchemaOf(pair[2]), DocumentsOf(pair[2]))}
=============================================================================
