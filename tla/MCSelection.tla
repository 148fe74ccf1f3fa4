----------------------------- MODULE MCSelection -----------------------------
(***************************************************************************)
(* Selection over lines "a", "b" and a blank one, four expressions of the  *)
(* kinds the selector tells apart, and definitions that compete.           *)
(***************************************************************************)
EXTENDS Selection

\* `\Aa`, `\Aa\nb`, `^b$`, `^$` and `\A(a\n?)+\z`.
MCExprs == {"opens a", "opens a b", "has b", "has blank", "all a"}

Has(lines, l) == \E i \in 1..Len(lines) : lines[i] = l

MCMatches(re, lines) ==
  CASE re = "opens a"   -> Len(lines) >= 1 /\ lines[1] = "a"
    [] re = "opens a b" -> Len(lines) >= 2 /\ lines[1] = "a" /\ lines[2] = "b"
    [] re = "has b"     -> Has(lines, "b")
    [] re = "has blank" -> Has(lines, "")
    [] re = "all a"     -> lines # <<>> /\ ~Has(lines, "b") /\ ~Has(lines, "")

MCEndsText(re) == re = "all a"

MCClosedBy(re, lines) ==
  CASE re = "opens a"   -> Len(lines) >= 1 /\ lines[1] # "a"
    [] re = "opens a b" -> (Len(lines) >= 1 /\ lines[1] # "a") \/ (Len(lines) >= 2 /\ lines[2] # "b")
    [] re = "all a"     -> Has(lines, "b") \/ Has(lines, "")
    [] OTHER -> FALSE

Def(command, variant, precedence, priority, window, all, any, none) ==
  [command |-> command, variant |-> variant, precedence |-> precedence, priority |-> priority,
   window |-> window, all |-> all, any |-> any, none |-> none, auto |-> TRUE, admitted |-> TRUE]

MCDefs == {
  Def("x", "plain", 1, 0, 2, {"opens a"}, {}, {}),
  Def("x", "strict", 1, 1, 3, {"opens a"}, {}, {"has b"}),
  [Def("x", "list", 1, 2, 3, {"all a"}, {}, {}) EXCEPT !.admitted = FALSE],
  [Def("x", "shape", 1, 0, 1, {}, {}, {}) EXCEPT !.auto = FALSE],
  [Def("y", "plain", 1, 5, 3, {"has b"}, {}, {"has blank"}) EXCEPT !.auto = FALSE],
  Def("y", "either", 1, 0, 3, {}, {"opens a b", "has b"}, {"has blank"}),
  Def("y", "own", 0, 0, 2, {"opens a"}, {}, {}) }
=============================================================================
