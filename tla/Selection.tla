------------------------------ MODULE Selection ------------------------------
(***************************************************************************)
(* How jz chooses the definition a text is read with (pkg/selector), and   *)
(* how a stream makes that choice before it has seen the text              *)
(* (selector.Watch, readHead and stream of internal/cli/stream.go).        *)
(*                                                                         *)
(* A text is a sequence of lines that starts with its first line that is   *)
(* not blank: the selector and the head of a stream both skip the blank    *)
(* ones before it.  Of an expression of a signature this module only asks  *)
(* which texts it matches and what the selector concludes from its syntax. *)
(***************************************************************************)
EXTENDS Integers, Sequences

CONSTANTS Lines, Blank, MaxLines,  \* what lines may say, the blank one, how many come
          Defs,                    \* the definitions a registry may hold
          Exprs, Matches(_, _),    \* the expressions, and the texts they match
          EndsText(_),             \* the expression looks at the end of the text
          ClosedBy(_, _),          \* it is anchored, and no way through it is left open
          MaxWindow                \* definition.MaxSignatureWindow

Texts == UNION {[1..n -> Lines] : n \in 0..MaxLines}

\* An alias is one more name for the same definitions and is left out;
\* detect.os and detect.args are read off one flag, "admitted": whether
\* they let the definition stand for the system and the arguments of a run.
Definition == [command : STRING, variant : STRING, auto : BOOLEAN, admitted : BOOLEAN,
               all : SUBSET Exprs, any : SUBSET Exprs, none : SUBSET Exprs,
               window : 1..MaxWindow, precedence : Int, priority : Int]

ASSUME TextAssumption == Blank \in Lines /\ MaxLines \in Nat
ASSUME DefinitionAssumption == Defs \subseteq Definition /\ MaxWindow \in Nat \ {0}

\* What judge says of an expression on the first lines of a text that goes on.
ASSUME MatchAssumption ==
  \A re \in Exprs, t \in Texts :
    /\ Matches(re, t) \in BOOLEAN /\ EndsText(re) \in BOOLEAN /\ ClosedBy(re, t) \in BOOLEAN
    /\ \A k \in 1..Len(t) :
         /\ Matches(re, SubSeq(t, 1, k)) /\ ~EndsText(re) => Matches(re, t)
         /\ ClosedBy(re, SubSeq(t, 1, k)) /\ ~Matches(re, SubSeq(t, 1, k)) => ~Matches(re, t)

VARIABLES
  registry, \* the definitions that are loaded
  scope,    \* selector.Context: the parser and the variant named ("" for none), and whether jz runs the command
  guess,    \* the definition a file path names: a set of at most one
  text,     \* the lines that have come
  last,     \* the last of them that is not blank
  held,     \* how many of them readHead holds
  fits, open, \* Watch: the candidates that fit and those undecided
  head,     \* readHead: "reading", or why it stopped: "settled", "full" or "ended"
  answer    \* what Select made of the head

scopeVars == <<registry, scope, guess>>
vars == <<scopeVars, text, last, held, fits, open, head, answer>>

-----------------------------------------------------------------------------
(* The candidates.                                                         *)

NoSignature(d) == d.all = {} /\ d.any = {} /\ d.none = {}
ExplicitOnly(d) == ~d.auto \/ NoSignature(d)
ShapeOnly(d) == ~d.auto /\ NoSignature(d)

Admits(d, s) == s.run => d.admitted

Variants(s) == {d \in registry : d.command = s.parser}
Lookup(s) == {d \in Variants(s) : d.variant = s.variant}
Claims(s) == ~s.run /\ \E d \in Variants(s) : ~NoSignature(d)

\* Select and Watch each work this out (watched): a name that is not in
\* the registry leaves nothing.
Considered(s) ==
  CASE s.parser = "" -> {d \in registry : ~ExplicitOnly(d)}
    [] s.parser # "" /\ s.variant # "" -> Lookup(s)
    [] OTHER -> {d \in Variants(s) : Claims(s) => ~ShapeOnly(d)}

Unknown(s) == s.parser # "" /\ (IF s.variant = "" THEN Variants(s) ELSE Lookup(s)) = {}

Candidates(s) == {d \in IF s.variant = "" THEN Variants(s) ELSE Lookup(s) : Admits(d, s)}

-----------------------------------------------------------------------------
(* The window.                                                             *)

Least(a, b) == IF a <= b THEN a ELSE b

\* The definitions that look at lines.
Looking(s) == {d \in IF s.parser = "" THEN registry ELSE Candidates(s) : ~NoSignature(d)}

\* Mutant: only the expressions a definition is recognised by need lines.
WindowFullOfAll(s, n) == \A d \in Looking(s) : d.all # {} => d.window <= n

\* Window: n lines are as many as the widest signature looks at.
WindowFull(s, n) == \A d \in Looking(s) : d.window <= n

\* Blank lines after the last of the text t, line l, are not part of it,
\* unless the window ends before they do.
signatureWindow(t, l) == SubSeq(t, 1, IF Len(t) > MaxWindow THEN MaxWindow ELSE l)

\* window.text
First(w, n) == SubSeq(w, 1, Least(n, Len(w)))

-----------------------------------------------------------------------------
(* Select, of a window w.                                                  *)

matchSignature(d, lines) ==
  /\ \A re \in d.all : Matches(re, lines)
  /\ d.any # {} => \E re \in d.any : Matches(re, lines)
  /\ \A re \in d.none : ~Matches(re, lines)

check(d, s, w) == Admits(d, s) /\ matchSignature(d, First(w, d.window))

\* settle: the earliest registry, and within it the variant of one command
\* whose priority is strictly highest.
mostPreferred(S) == {d \in S : \A e \in S : d.precedence <= e.precedence}

\* Mutant: of the ones that tie, either will do.
breakTieAny(S) == {d \in S : \A e \in S : e.command = d.command /\ e.priority <= d.priority}

breakTie(S) ==
  {d \in S : \A e \in S \ {d} : e.command = d.command /\ e.priority < d.priority}

settle(S) == breakTie(mostPreferred(S))

Failed(why) == [why |-> why, chosen |-> {}]

Select(s, w) ==
  LET matched == {d \in Considered(s) : check(d, s, w)}
      best == settle(matched)
  IN CASE Unknown(s) -> Failed("unknown")
       [] ~Unknown(s) /\ matched = {} -> Failed("nomatch")
       [] matched # {} /\ best = {} -> Failed("ambiguous")
       [] best # {} -> [why |-> "chosen", chosen |-> best]

-----------------------------------------------------------------------------
(* Watch: what the lines read so far settle.                               *)

\* Mutant: a match is final although the end of the text may move.
judgeMatched(re, lines) ==
  IF Matches(re, lines) THEN "fits" ELSE IF ClosedBy(re, lines) THEN "out" ELSE "undecided"

judge(re, lines) ==
  CASE Matches(re, lines) /\ ~EndsText(re) -> "fits"
    [] ~Matches(re, lines) /\ ClosedBy(re, lines) -> "out"
    [] OTHER -> "undecided"

judgeSignature(d, lines) ==
  CASE \/ \E re \in d.all : judge(re, lines) = "out"
       \/ d.any # {} /\ \A re \in d.any : judge(re, lines) = "out"
       \/ \E re \in d.none : judge(re, lines) = "fits" -> "out"
    [] /\ \A re \in d.all : judge(re, lines) = "fits"
       /\ d.any # {} => \E re \in d.any : judge(re, lines) = "fits"
       /\ \A re \in d.none : judge(re, lines) = "out" -> "fits"
    [] OTHER -> "undecided"

decide(d, s, w) ==
  CASE ~Admits(d, s) -> "out"
    [] Admits(d, s) /\ NoSignature(d) -> "fits"
    [] Admits(d, s) /\ ~NoSignature(d) /\ Len(w) >= d.window ->
         IF matchSignature(d, First(w, d.window)) THEN "fits" ELSE "out"
    [] Admits(d, s) /\ ~NoSignature(d) /\ Len(w) < d.window ->
         IF w = <<>> THEN "undecided" ELSE judgeSignature(d, w)

\* Mutant: one that fits is the answer, whatever is still open.
settledBetweenFits(F, O) == O = {} \/ settle(F) # {}

settledBetween(F, O) == O = {} \/ settle(F \union O) \cap F # {}

-----------------------------------------------------------------------------

Init ==
  /\ registry \in SUBSET Defs
  /\ scope \in [parser : {""} \union {d.command : d \in Defs},
                 variant : {""} \union {d.variant : d \in Defs}, run : BOOLEAN]
  /\ scope.parser = "" => scope.variant = "" /\ ~scope.run
  /\ guess \in {{}} \union {{d} : d \in {e \in registry : scope.parser = "" /\ ~ShapeOnly(e)}}
  /\ text = <<>> /\ last = 0 /\ held = 0
  /\ fits = {} /\ open = Considered(scope)
  /\ head = "reading" /\ answer = Failed("none")

LineComes ==
  /\ Len(text) < MaxLines
  /\ \E l \in Lines : /\ text = <<>> => l # Blank
                      /\ text' = Append(text, l)
                      /\ last' = IF l = Blank THEN last ELSE Len(text) + 1

\* Watch is asked about the window of the lines that have come.
Watched(w) ==
  /\ fits' = fits \union {d \in open : decide(d, scope, w) = "fits"}
  /\ open' = {d \in open : decide(d, scope, w) = "undecided"}
  /\ head' = IF Unknown(scope) \/ settledBetween(fits', open') THEN "settled" ELSE "reading"

\* readHead takes a line; one that fills the window ends the head.
ReadLine ==
  /\ head = "reading" /\ LineComes /\ held' = held + 1
  /\ IF WindowFull(scope, held + 1)
     THEN head' = "full" /\ UNCHANGED <<fits, open>>
     ELSE Watched(signatureWindow(text', last'))
  /\ UNCHANGED <<scopeVars, answer>>

EndOfInput ==
  /\ head = "reading" /\ head' = "ended"
  /\ UNCHANGED <<scopeVars, text, last, held, fits, open, answer>>

\* What a path guessed is tried first and taken back when it does not fit.
Choice ==
  LET w == signatureWindow(text, last)
  IN IF \E d \in guess : check(d, scope, w) THEN [why |-> "chosen", chosen |-> guess]
     ELSE Select(scope, w)

Choose ==
  /\ head # "reading" /\ answer.why = "none"
  /\ answer' = Choice
  /\ UNCHANGED <<scopeVars, text, last, held, fits, open, head>>

\* The text goes on behind the head.
GoesOn ==
  /\ head \in {"settled", "full"} /\ answer.why # "none" /\ LineComes
  /\ UNCHANGED <<scopeVars, held, fits, open, head, answer>>

Chosen == answer.why # "none" /\ UNCHANGED vars

Next == ReadLine \/ EndOfInput \/ Choose \/ GoesOn \/ Chosen

Spec == Init /\ [][Next]_vars

-----------------------------------------------------------------------------

(* What the variables range over; among it that a choice is of exactly one *)
(* definition (settle).                                                    *)
TypeOK ==
  /\ registry \subseteq Defs /\ guess \subseteq registry
  /\ text \in Texts /\ last \in 0..Len(text) /\ held \in 0..Len(text)
  /\ fits \subseteq Considered(scope) /\ open \subseteq Considered(scope)
  /\ head \in {"reading", "settled", "full", "ended"}
  /\ answer \in [why : {"none", "unknown", "nomatch", "ambiguous", "chosen"},
                chosen : {{}} \union {{d} : d \in registry}]

(* Once Watch has said that the choice is settled it is: the definition    *)
(* chosen from the lines so far, or the failure, is the one the text gives *)
(* wherever it goes on to end (Watch).                                     *)
SettledStands == head = "settled" /\ guess = {} /\ answer.why # "none" => answer = Choice

(* A window held back in full is enough to choose by, however the text     *)
(* goes on: no signature looks further.  Provided that its last line is    *)
(* not blank (Window).                                                     *)
FullWindowStands ==
  head = "full" /\ guess = {} /\ text[held] # Blank /\ answer.why # "none" => answer = Choice

-----------------------------------------------------------------------------
(* Where the program and its documentation part ways.                      *)

(* "Only where the input ends, since a blank line with text after it is    *)
(* inside": the head of a stream is not where its input ends.              *)
BlankTailStands == head = "full" /\ guess = {} /\ answer.why # "none" => answer = Choice
=============================================================================
