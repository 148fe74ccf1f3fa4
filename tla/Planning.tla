------------------------------- MODULE Planning -------------------------------
(***************************************************************************)
(* Where `jz new` places its arguments (internal/jsonbuild Plan): one      *)
(* location after another, from the root of the document, into containers  *)
(* that are there or are made.                                             *)
(*                                                                         *)
(* A plan is the nodes the locations made, in the order they were made; a  *)
(* path from the root to a node is a sequence of the keys and indexes on   *)
(* the way.                                                                *)
(***************************************************************************)
EXTENDS Naturals, FiniteSets, Sequences, SequencesExt

Usage == [ok |-> FALSE, code |-> "usage"]

\* A step of a location: a key, which may be a number, or the end of an array.
ToEnd == [name |-> <<>>, appends |-> TRUE]
ToKey(name) == [name |-> name, appends |-> FALSE]

Digits == [digit \in {"0", "1"} |-> IF digit = "0" THEN 0 ELSE 1]
isIndex(name) == name # <<>> /\ ToSet(name) \subseteq DOMAIN Digits /\ (Len(name) > 1 => Head(name) # "0")
Number(name) == FoldLeft(LAMBDA n, d : 10 * n + Digits[d], 0, name)

\* A node: where it is, what it is, and the argument that made it.
Node(path, kind, by) == [path |-> path, kind |-> kind, by |-> by]
Root(array) == <<Node(<<>>, IF array THEN "array" ELSE "object", 0)>>

NodeAt(plan, path) == plan[CHOOSE i \in DOMAIN plan : plan[i].path = path]
IsPlanned(plan, path) == \E i \in DOMAIN plan : plan[i].path = path

\* The nodes in the container at a path.
IsIn(node, path) == Len(node.path) = Len(path) + 1 /\ IsPrefix(path, node.path)
Inside(plan, path) == {i \in DOMAIN plan : IsIn(plan[i], path)}

Index(i) == <<"[", i>>
Key(name) == <<"{", name>>

\* The plan so far, and the node reached in it.
Reached(plan, path) == [ok |-> TRUE, plan |-> plan, path |-> path]

\* What the i-th step of a location leads to when it is not there yet: the value
\* itself, or the container the next step needs.
create(plan, path, loc, i, by) ==
  LET made(kind) == Reached(Append(plan, Node(path, kind, by)), path)
  IN  IF i = Len(loc) THEN made("value")
      ELSE IF loc[i + 1].appends THEN made("array")
      ELSE IF isIndex(loc[i + 1].name) THEN Usage
      ELSE made("object")

\* A location is entered where it is there, and given once.
Enter(plan, path, loc, i) == IF i = Len(loc) THEN Usage ELSE Reached(plan, path)

\* Mutant: the last step into an object replaces what is there.
intoObjectAgain(plan, path, loc, i, by) ==
  LET member == Append(path, Key(loc[i].name))
  IN  IF loc[i].appends THEN Usage
      ELSE IF IsPlanned(plan, member) THEN Reached(plan, member)
      ELSE create(plan, member, loc, i, by)

intoObject(plan, path, loc, i, by) ==
  LET member == Append(path, Key(loc[i].name))
  IN  IF loc[i].appends THEN Usage
      ELSE IF IsPlanned(plan, member) THEN Enter(plan, member, loc, i)
      ELSE create(plan, member, loc, i, by)

intoArray(plan, path, loc, i, by) ==
  LET size == Cardinality(Inside(plan, path))
      name == loc[i].name
  IN  IF loc[i].appends THEN create(plan, Append(path, Index(size)), loc, i, by)
      ELSE IF isIndex(name) /\ Number(name) < size THEN Enter(plan, Append(path, Index(Number(name))), loc, i)
      ELSE Usage

\* The i-th step, from the node the steps before it led to.
Stepped(at, loc, i, by) ==
  LET kind == NodeAt(at.plan, at.path).kind
  IN  IF kind = "value" THEN Usage
      ELSE IF kind = "object" THEN intoObject(at.plan, at.path, loc, i, by)
      ELSE intoArray(at.plan, at.path, loc, i, by)

place(plan, placement, by) ==
  FoldLeftDomain(LAMBDA at, i : IF at.ok THEN Stepped(at, placement.loc, i, by) ELSE at,
                 Reached(plan, <<>>), placement.loc)

\* The arguments that read standard input, of which there may be one.
ReadsStdin(placement) == placement.kind \in {"text", "whole", "data"} /\ placement.text = <<"-">>
StdinPlaces(places) == {i \in DOMAIN places : ReadsStdin(places[i])}
oneStdin(places) == Cardinality(StdinPlaces(places)) <= 1

----------------------------------------------------------------------------
(* The places the arguments name, worked out from all of them at once, in  *)
(* a document that is an array or an object.                               *)

ChildrenAt(paths, at) == {p[Len(at) + 1] : p \in {q \in ToSet(paths) : Len(q) > Len(at) /\ IsPrefix(at, q)}}
IsArrayAt(array, paths, at) == IF at = <<>> THEN array ELSE \E child \in ChildrenAt(paths, at) : child[1] = "["
IsThere(paths, at) == at = <<>> \/ ChildrenAt(paths, at) # {}

\* Where a step leads: to the end of an array is to the index after its elements.
StepSaid(array, paths, at, step) ==
  IF step.appends THEN Index(Cardinality(ChildrenAt(paths, at)))
  ELSE IF IsArrayAt(array, paths, at) /\ isIndex(step.name) THEN Index(Number(step.name))
  ELSE Key(step.name)
Said(array, paths, loc) == FoldLeft(LAMBDA at, step : Append(at, StepSaid(array, paths, at, step)), <<>>, loc)
AllSaid(array, placed) ==
  FoldLeft(LAMBDA paths, placement : Append(paths, Said(array, paths, placement.loc)), <<>>, placed)

\* A container is of one kind; an index is of an element that is there; and what
\* an argument gives is whole, and given once.
IsSayable(array, paths, loc) ==
  LET path == Said(array, paths, loc)
      at(k) == SubSeq(path, 1, k - 1)
  IN  /\ \A q \in ToSet(paths) : ~IsPrefix(q, path) /\ ~IsPrefix(path, q)
      /\ \A k \in DOMAIN loc :
           IF IsThere(paths, at(k))
           THEN /\ IsArrayAt(array, paths, at(k)) = (path[k][1] = "[")
                /\ ~loc[k].appends /\ path[k][1] = "[" => path[k] \in ChildrenAt(paths, at(k))
           ELSE loc[k].appends \/ ~isIndex(loc[k].name)

FirstUnder(paths, at) == Min({i \in DOMAIN paths : IsPrefix(at, paths[i])})

KindSaid(array, paths, at) ==
  IF at \in ToSet(paths) THEN "value" ELSE IF IsArrayAt(array, paths, at) THEN "array" ELSE "object"

\* The nodes are those on the way to the places said, each there once and of the
\* kind that was said, made by the first that has it on its way and in that order;
\* the elements of an array are numbered in theirs.
IsPlanOf(plan, array, paths) ==
  /\ {plan[i].path : i \in DOMAIN plan} = {<<>>} \union UNION {{SubSeq(p, 1, k) : k \in DOMAIN p} : p \in ToSet(paths)}
  /\ \A i \in DOMAIN plan :
       LET node == plan[i]
       IN  /\ node.kind = KindSaid(array, paths, node.path)
           /\ node.by = IF node.path = <<>> THEN 0 ELSE FirstUnder(paths, node.path)
           /\ \A j \in DOMAIN plan : i < j => node.by <= plan[j].by /\ ~IsPrefix(plan[j].path, node.path)
           /\ node.kind = "array" =>
                \A e \in Inside(plan, node.path) :
                  Last(plan[e].path) = Index(Cardinality({f \in Inside(plan, node.path) : f < e}))
=============================================================================
