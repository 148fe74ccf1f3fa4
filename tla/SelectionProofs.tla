--------------------------- MODULE SelectionProofs ---------------------------
(***************************************************************************)
(* What a stream settles on is what the whole text gives, for every        *)
(* registry, every text, and expressions of which no more is known than    *)
(* MatchAssumption says.                                                   *)
(***************************************************************************)
EXTENDS Selection, SequenceTheorems, TLAPS

-----------------------------------------------------------------------------
(* Texts and their first lines.                                            *)

\* v is w, or the first lines of it.
Opens(v, w) == v \in Texts /\ w \in Texts /\ Len(v) \in 0..Len(w) /\ v = SubSeq(w, 1, Len(v))

(* A text is a sequence of lines, and its first lines are a text.          *)
LEMMA FirstLines ==
  ASSUME NEW t \in Texts, NEW k \in 0..Len(t)
  PROVE  /\ t \in Seq(Lines) /\ Len(t) \in 0..MaxLines /\ DOMAIN t = 1..Len(t)
         /\ Opens(SubSeq(t, 1, k), t) /\ Len(SubSeq(t, 1, k)) = k
         /\ \A i \in 1..k : SubSeq(t, 1, k)[i] = t[i]
<1>1. PICK n \in 0..MaxLines : t \in [1..n -> Lines]
  BY DEF Texts
<1>2. n \in Nat /\ MaxLines \in Nat /\ t \in Seq(Lines) /\ Len(t) = n /\ DOMAIN t = 1..n
  BY <1>1, TextAssumption
<1>3. /\ SubSeq(t, 1, k) \in Seq(Lines) /\ Len(SubSeq(t, 1, k)) = k
      /\ \A i \in 1..k : SubSeq(t, 1, k)[i] = t[i]
  <2>1. 1 \in 1..Len(t)+1 /\ k \in 0..Len(t)
    BY <1>2
  <2>2. CASE k = 0
    BY <2>2, <1>2, SubSeqProperties
  <2>3. CASE k # 0
    <3>1. k >= 1 /\ k \in 1..Len(t)
      BY <2>3, <1>2
    <3> QED BY <3>1, <1>2, SubSeqProperties
  <2> QED BY <2>2, <2>3
<1>4. SubSeq(t, 1, k) \in [1..k -> Lines] /\ k \in 0..MaxLines
  <2> DEFINE s == SubSeq(t, 1, k)
  <2>1. s \in Seq(Lines) /\ Len(s) = k
    BY <1>3
  <2> HIDE DEF s
  <2>2. s \in [1..Len(s) -> Lines]
    BY <2>1, LenProperties
  <2>3. s \in [1..k -> Lines]
    BY <2>1, <2>2
  <2> QED BY <1>2, <2>3 DEF s
<1>5. SubSeq(t, 1, k) \in Texts
  BY <1>4 DEF Texts
<1> QED BY <1>2, <1>3, <1>5 DEF Opens

(* Two texts that agree line by line are one.                              *)
LEMMA SameLines ==
  ASSUME NEW t \in Texts, NEW u \in Texts, Len(t) = Len(u),
         \A i \in 1..Len(t) : t[i] = u[i]
  PROVE  t = u
<1>1. t \in Seq(Lines) /\ u \in Seq(Lines) /\ Len(t) \in Nat
  <2>1. 0 \in 0..Len(t) /\ 0 \in 0..Len(u)
    BY LenProperties, TextAssumption DEF Texts
  <2> QED BY <2>1, FirstLines, TextAssumption
<1> QED BY <1>1, SeqEqual

(* The first lines of a window open every text that the window opens.      *)
LEMMA OpensOpens ==
  ASSUME NEW u, NEW v, NEW w, Opens(u, v), Opens(v, w)
  PROVE  Opens(u, w)
<1>1. u \in Texts /\ v \in Texts /\ w \in Texts /\ Len(u) \in 0..Len(v) /\ Len(v) \in 0..Len(w)
  BY DEF Opens
<1>2. Len(u) \in Nat /\ Len(v) \in Nat /\ Len(w) \in Nat /\ Len(u) \in 0..Len(w)
  BY <1>1
<1> DEFINE x == SubSeq(w, 1, Len(u))
<1>3. x \in Texts /\ Len(x) = Len(u) /\ \A i \in 1..Len(u) : x[i] = w[i]
  BY <1>1, <1>2, FirstLines DEF Opens
<1> HIDE DEF x
<1>4. \A i \in 1..Len(v) : v[i] = w[i]
  BY <1>1, <1>2, FirstLines DEF Opens
<1>5. \A i \in 1..Len(u) : u[i] = v[i]
  BY <1>1, <1>2, FirstLines DEF Opens
<1>6. \A i \in 1..Len(u) : u[i] = x[i]
  BY <1>1, <1>2, <1>3, <1>4, <1>5
<1>7. u = x
  BY <1>1, <1>3, <1>6, SameLines
<1> QED BY <1>1, <1>2, <1>7 DEF Opens, x

(* Of two beginnings of a text the shorter opens the longer.               *)
LEMMA BothOpen ==
  ASSUME NEW u, NEW v, NEW w, Opens(u, w), Opens(v, w), Len(u) <= Len(v)
  PROVE  Opens(u, v)
<1>1. /\ u \in Texts /\ v \in Texts /\ w \in Texts
      /\ Len(u) \in Nat /\ Len(v) \in Nat /\ Len(w) \in Nat
      /\ Len(u) \in 0..Len(w) /\ Len(v) \in 0..Len(w) /\ Len(u) \in 0..Len(v)
  <2>1. u \in Texts /\ v \in Texts /\ w \in Texts /\ Len(u) \in 0..Len(w) /\ Len(v) \in 0..Len(w)
    BY DEF Opens
  <2> QED BY <2>1
<1> DEFINE x == SubSeq(v, 1, Len(u))
<1>2. x \in Texts /\ Len(x) = Len(u) /\ \A i \in 1..Len(u) : x[i] = v[i]
  BY <1>1, FirstLines DEF Opens
<1> HIDE DEF x
<1>3. \A i \in 1..Len(v) : v[i] = w[i]
  BY <1>1, FirstLines DEF Opens
<1>4. \A i \in 1..Len(u) : u[i] = w[i]
  BY <1>1, FirstLines DEF Opens
<1>5. \A i \in 1..Len(u) : u[i] = x[i]
  BY <1>1, <1>2, <1>3, <1>4
<1>6. u = x
  BY <1>1, <1>2, <1>5, SameLines
<1> QED BY <1>1, <1>6 DEF Opens, x

(* The window of a text opens the window of the text that goes on.         *)
LEMMA WindowOpens ==
  ASSUME NEW t, NEW u, NEW l \in 0..Len(t), NEW m \in 0..Len(u), Opens(t, u), l <= m
  PROVE  Opens(signatureWindow(t, l), signatureWindow(u, m))
<1>1. t \in Texts /\ u \in Texts /\ Len(t) \in Nat /\ Len(u) \in Nat /\ Len(t) <= Len(u)
  <2>1. t \in Texts /\ u \in Texts /\ Len(t) \in 0..Len(u)
    BY DEF Opens
  <2>2. 0 \in 0..Len(t)
    BY <2>1
  <2> QED BY <2>1, <2>2
<1> DEFINE a == IF Len(t) > MaxWindow THEN MaxWindow ELSE l
           b == IF Len(u) > MaxWindow THEN MaxWindow ELSE m
<1>2. MaxWindow \in Nat
  BY DefinitionAssumption
<1>3. a \in 0..Len(t) /\ b \in 0..Len(u) /\ a <= b
  BY <1>1, <1>2
<1> HIDE DEF a, b
<1>4. Opens(SubSeq(t, 1, a), t) /\ Len(SubSeq(t, 1, a)) = a
  BY <1>1, <1>3, FirstLines
<1>5. Opens(SubSeq(u, 1, b), u) /\ Len(SubSeq(u, 1, b)) = b
  BY <1>1, <1>3, FirstLines
<1>6. Opens(SubSeq(t, 1, a), u)
  BY <1>4, OpensOpens
<1>7. Opens(SubSeq(t, 1, a), SubSeq(u, 1, b))
  BY <1>3, <1>4, <1>5, <1>6, BothOpen
<1> QED BY <1>7 DEF signatureWindow, a, b

-----------------------------------------------------------------------------
(* What is final stays.                                                    *)

(* An expression judged on the first lines of a text answers the same on   *)
(* the text (judge).                                                       *)
LEMMA JudgeSound ==
  ASSUME NEW re \in Exprs, NEW v, NEW w, Opens(v, w), v # <<>>
  PROVE  /\ judge(re, v) = "fits" => Matches(re, w)
         /\ judge(re, v) = "out" => ~Matches(re, w)
<1>1. v \in Texts /\ w \in Texts /\ Len(v) \in 0..Len(w) /\ v = SubSeq(w, 1, Len(v))
  BY DEF Opens
<1>2. v \in Seq(Lines) /\ Len(v) \in Nat
  <2>1. 0 \in 0..Len(v)
    BY <1>1
  <2> QED BY <1>1, <2>1, FirstLines, TextAssumption
<1>3. Len(v) # 0
  BY <1>2, EmptySeq
<1>4. Len(v) \in 1..Len(w)
  BY <1>1, <1>2, <1>3
<1>5. /\ Matches(re, v) /\ ~EndsText(re) => Matches(re, w)
      /\ ClosedBy(re, v) /\ ~Matches(re, v) => ~Matches(re, w)
  <2> DEFINE k == Len(v)
             x == SubSeq(w, 1, k)
  <2>1. k \in 1..Len(w) /\ x = v
    BY <1>1, <1>4
  <2> HIDE DEF k
  <2>2. /\ Matches(re, x) /\ ~EndsText(re) => Matches(re, w)
        /\ ClosedBy(re, x) /\ ~Matches(re, x) => ~Matches(re, w)
    BY <1>1, <2>1, MatchAssumption
  <2> QED BY <2>1, <2>2
<1>6. Matches(re, v) \in BOOLEAN /\ EndsText(re) \in BOOLEAN /\ ClosedBy(re, v) \in BOOLEAN
  BY <1>1, MatchAssumption
<1>7. judge(re, v) = "fits" => Matches(re, v) /\ ~EndsText(re)
  BY <1>6 DEF judge
<1>8. judge(re, v) = "out" => ~Matches(re, v) /\ ClosedBy(re, v)
  BY <1>6 DEF judge
<1> QED BY <1>5, <1>7, <1>8

(* A signature judged on the first lines of a text is met by the text, or  *)
(* not, as was judged (decide).                                            *)
LEMMA SignatureSound ==
  ASSUME NEW d \in Defs, NEW v, NEW w, Opens(v, w), v # <<>>
  PROVE  /\ judgeSignature(d, v) = "fits" => matchSignature(d, w)
         /\ judgeSignature(d, v) = "out" => ~matchSignature(d, w)
<1>1. d.all \subseteq Exprs /\ d.any \subseteq Exprs /\ d.none \subseteq Exprs
  BY DefinitionAssumption DEF Definition
<1>2. ASSUME judgeSignature(d, v) = "fits" PROVE matchSignature(d, w)
  <2>1. /\ \A re \in d.all : judge(re, v) = "fits"
        /\ d.any # {} => \E re \in d.any : judge(re, v) = "fits"
        /\ \A re \in d.none : judge(re, v) = "out"
    BY <1>2 DEF judgeSignature
  <2> QED BY <1>1, <2>1, JudgeSound DEF matchSignature
<1>3. ASSUME judgeSignature(d, v) = "out" PROVE ~matchSignature(d, w)
  <2>1. \/ \E re \in d.all : judge(re, v) = "out"
        \/ d.any # {} /\ \A re \in d.any : judge(re, v) = "out"
        \/ \E re \in d.none : judge(re, v) = "fits"
    BY <1>3 DEF judgeSignature
  <2> QED BY <1>1, <2>1, JudgeSound DEF matchSignature
<1> QED BY <1>2, <1>3

(* The part of a window a signature looks at.                              *)
LEMMA FirstOpens ==
  ASSUME NEW w \in Texts, NEW n \in Nat
  PROVE  Opens(First(w, n), w) /\ Len(First(w, n)) = Least(n, Len(w))
<1>1. Len(w) \in Nat
  <2>1. 0 \in 0..Len(w) \/ Len(w) \notin Nat
    OBVIOUS
  <2> QED BY LenProperties, TextAssumption DEF Texts
<1>2. Least(n, Len(w)) \in 0..Len(w)
  BY <1>1 DEF Least
<1> QED BY <1>2, FirstLines DEF First

(* A window that holds all a signature looks at shows it the same lines as *)
(* any window that goes on from it.                                        *)
LEMMA FirstStands ==
  ASSUME NEW v, NEW w, Opens(v, w), NEW n \in Nat, n <= Len(v)
  PROVE  First(v, n) = First(w, n)
<1>1. v \in Texts /\ w \in Texts /\ Len(v) \in 0..Len(w)
  BY DEF Opens
<1>2. Len(First(v, n)) = n /\ Len(First(w, n)) = n
  BY <1>1, FirstOpens DEF Least
<1>3. Opens(First(v, n), w) /\ Opens(First(w, n), w)
  BY <1>1, FirstOpens, OpensOpens
<1> QED BY <1>2, <1>3 DEF Opens

(* A verdict on the first lines that is final is the verdict on the text   *)
(* (decide, check).                                                        *)
LEMMA DecideSound ==
  ASSUME NEW d \in Defs, NEW s, NEW v, NEW w, Opens(v, w)
  PROVE  /\ decide(d, s, v) = "fits" => check(d, s, w)
         /\ decide(d, s, v) = "out" => ~check(d, s, w)
<1>1. v \in Texts /\ w \in Texts /\ Len(v) \in 0..Len(w) /\ Len(v) \in Nat /\ Len(w) \in Nat
  <2>1. v \in Texts /\ w \in Texts /\ Len(v) \in 0..Len(w)
    BY DEF Opens
  <2>2. Len(First(v, 0)) = Least(0, Len(v)) /\ 0 \in 0..Len(v)
    BY <2>1, FirstOpens
  <2> QED BY <2>1, <2>2
<1>2. d.window \in Nat
  BY DefinitionAssumption DEF Definition
<1>3. CASE ~Admits(d, s)
  BY <1>3 DEF decide, check
<1>4. CASE Admits(d, s) /\ NoSignature(d)
  <2>1. decide(d, s, v) = "fits"
    BY <1>4 DEF decide
  <2>2. check(d, s, w)
    BY <1>4 DEF check, NoSignature, matchSignature
  <2> QED BY <2>1, <2>2
<1>5. CASE Admits(d, s) /\ ~NoSignature(d) /\ Len(v) >= d.window
  <2>1. First(v, d.window) = First(w, d.window)
    BY <1>1, <1>2, <1>5, FirstStands
  <2>2. decide(d, s, v) = IF matchSignature(d, First(v, d.window)) THEN "fits" ELSE "out"
    BY <1>1, <1>2, <1>5 DEF decide
  <2> QED BY <1>5, <2>1, <2>2 DEF check
<1>6. CASE Admits(d, s) /\ ~NoSignature(d) /\ Len(v) < d.window
  <2>1. decide(d, s, v) = IF v = <<>> THEN "undecided" ELSE judgeSignature(d, v)
    BY <1>1, <1>2, <1>6 DEF decide
  <2>2. Opens(First(w, d.window), w) /\ Len(First(w, d.window)) = Least(d.window, Len(w))
    BY <1>1, <1>2, FirstOpens
  <2>3. Opens(v, First(w, d.window))
    BY <1>1, <1>2, <1>6, <2>2, BothOpen DEF Least
  <2>4. CASE v # <<>>
    BY <1>6, <2>1, <2>3, <2>4, SignatureSound DEF check
  <2> QED BY <2>1, <2>4
<1> QED BY <1>1, <1>2, <1>3, <1>4, <1>5, <1>6

(* At most one definition settles a set of them (settle).                  *)
LEMMA SettleOne ==
  ASSUME NEW S \in SUBSET Defs
  PROVE  settle(S) = {} \/ \E d \in S : settle(S) = {d}
<1>1. \A d \in S : d.priority \in Int
  BY DefinitionAssumption DEF Definition
<1>2. settle(S) \subseteq S
  BY DEF settle, breakTie, mostPreferred
<1>3. ASSUME NEW d \in settle(S), NEW e \in settle(S), d # e PROVE FALSE
  <2>1. e.priority < d.priority /\ d.priority < e.priority
    BY <1>3 DEF settle, breakTie
  <2> QED BY <1>1, <1>2, <2>1
<1> QED BY <1>2, <1>3

(* The one that wins over all that fit and all that may still fit wins     *)
(* over those of them that turn out to fit (settledBetween).               *)
LEMMA SettleMonotone ==
  ASSUME NEW F \in SUBSET Defs, NEW O \in SUBSET Defs, NEW M, F \subseteq M, M \subseteq F \union O,
         NEW x \in F, x \in settle(F \union O)
  PROVE  settle(M) = {x}
<1>1. \A d \in F \union O : d.precedence \in Int
  BY DefinitionAssumption DEF Definition
<1>2. x \in mostPreferred(F \union O) /\ \A e \in mostPreferred(F \union O) \ {x} : e.command = x.command /\ e.priority < x.priority
  BY DEF settle, breakTie
<1>3. x \in mostPreferred(M)
  BY <1>2 DEF mostPreferred
<1>4. mostPreferred(M) \subseteq mostPreferred(F \union O)
  <2> SUFFICES ASSUME NEW e \in mostPreferred(M), NEW f \in F \union O PROVE e \in M /\ e.precedence <= f.precedence
    BY DEF mostPreferred
  <2>1. e \in M /\ e.precedence <= x.precedence
    BY DEF mostPreferred
  <2>2. x.precedence <= f.precedence
    BY <1>2 DEF mostPreferred
  <2> QED BY <1>1, <2>1, <2>2
<1>5. x \in settle(M)
  BY <1>2, <1>3, <1>4 DEF settle, breakTie
<1>6. M \in SUBSET Defs
  OBVIOUS
<1> QED BY <1>5, <1>6, SettleOne

-----------------------------------------------------------------------------
(* The inductive invariant.                                                *)

W == signatureWindow(text, last)

\* Every verdict given was final where it was given: at a beginning of
\* the window there is now.
Verdicts(w) ==
  /\ \A d \in fits : \E v : Opens(v, w) /\ decide(d, scope, v) = "fits"
  /\ \A d \in Considered(scope) \ (fits \union open) :
       \E v : Opens(v, w) /\ decide(d, scope, v) = "out"

OneGuess == guess = {} \/ \E d \in registry : guess = {d}

BlankTail == \A i \in (last + 1)..Len(text) : text[i] = Blank

HeadEnds ==
  /\ head = "reading" => held = Len(text) /\ answer.why = "none"
  /\ head = "settled" => Unknown(scope) \/ settledBetween(fits, open)
  /\ head = "full" => held \in 1..Len(text) /\ WindowFull(scope, held)

\* What was chosen is what would be chosen now.
AnswerStands ==
  /\ SettledStands
  /\ FullWindowStands

IInv == TypeOK /\ OneGuess /\ BlankTail /\ Verdicts(W) /\ HeadEnds /\ AnswerStands

(* The definitions a selection considers are of the registry; those of a   *)
(* name that is not there are none (watched).                              *)
LEMMA ConsideredLoaded ==
  ASSUME NEW s
  PROVE  Considered(s) \subseteq registry /\ (Unknown(s) => Considered(s) = {})
BY DEF Considered, Unknown, Lookup, Variants

(* A line more leaves the text to begin as it did.                         *)
LEMMA LineAdded ==
  ASSUME text \in Texts, last \in 0..Len(text), BlankTail, LineComes
  PROVE  /\ text' \in Texts /\ Opens(text, text') /\ Len(text') = Len(text) + 1 /\ Len(text) \in Nat
         /\ last' \in 0..Len(text') /\ last <= last'
         /\ \A i \in 1..Len(text) : text'[i] = text[i]
         /\ BlankTail'
<1>1. Len(text) \in Nat /\ text \in Seq(Lines) /\ Len(text) \in 0..MaxLines /\ text \in [1..Len(text) -> Lines]
  <2>1. 0 \in 0..Len(text)
    BY DEF Opens
  <2> QED BY <2>1, FirstLines, LenProperties, TextAssumption
<1>2. PICK l \in Lines : text' = Append(text, l) /\ last' = IF l = Blank THEN last ELSE Len(text) + 1
  BY DEF LineComes
<1>3. Len(text) < MaxLines
  BY DEF LineComes
<1>4. /\ Len(text') = Len(text) + 1 /\ text' \in Seq(Lines)
      /\ \A i \in 1..Len(text) : text'[i] = text[i]
      /\ text'[Len(text) + 1] = l
  BY <1>1, <1>2, AppendProperties
<1>5. text' \in Texts
  <2>1. text' \in [1..Len(text') -> Lines] /\ Len(text') \in 0..MaxLines
    BY <1>1, <1>3, <1>4, LenProperties, TextAssumption
  <2> QED BY <2>1 DEF Texts
<1>6. Opens(text, text')
  <2> DEFINE x == SubSeq(text', 1, Len(text))
  <2>1. Len(text) \in 0..Len(text')
    BY <1>1, <1>4
  <2>2. x \in Texts /\ Len(x) = Len(text) /\ \A i \in 1..Len(text) : x[i] = text'[i]
    BY <1>5, <2>1, FirstLines DEF Opens
  <2> HIDE DEF x
  <2>3. text = x
    BY <1>4, <2>2, SameLines
  <2> QED BY <1>5, <2>1, <2>3 DEF Opens, x
<1>7. last' \in 0..Len(text') /\ last <= last'
  BY <1>1, <1>2, <1>4
<1>8. BlankTail'
  <2> SUFFICES ASSUME NEW i \in (last' + 1)..Len(text') PROVE text'[i] = Blank
    BY DEF BlankTail
  <2>1. l = Blank /\ last' = last
    BY <1>1, <1>2, <1>4
  <2>2. CASE i = Len(text) + 1
    BY <1>4, <2>1, <2>2
  <2>3. CASE i \in (last + 1)..Len(text)
    BY <1>1, <1>4, <2>3 DEF BlankTail
  <2> QED BY <1>1, <1>4, <2>1, <2>2, <2>3
<1> QED BY <1>1, <1>4, <1>5, <1>6, <1>7, <1>8

-----------------------------------------------------------------------------
(* What is chosen stands.                                                  *)

Matched(w) == {d \in Considered(scope) : check(d, scope, w)}

(* Select looks at nothing but which definitions fit.                      *)
LEMMA SelectOfMatched ==
  ASSUME NEW v, NEW w, Matched(v) = Matched(w)
  PROVE  Select(scope, v) = Select(scope, w)
BY DEF Select, Matched

(* The verdicts are those of the text.                                     *)
LEMMA VerdictsSound ==
  ASSUME registry \subseteq Defs, fits \subseteq Considered(scope), NEW w, Verdicts(w)
  PROVE  fits \subseteq Matched(w) /\ Matched(w) \subseteq fits \union open
<1>1. Considered(scope) \subseteq Defs
  BY ConsideredLoaded
<1>2. fits \subseteq Matched(w)
  BY <1>1, DecideSound DEF Verdicts, Matched
<1>3. ASSUME NEW d \in Matched(w), d \notin fits \union open PROVE FALSE
  <2>1. d \in Considered(scope) \ (fits \union open) /\ check(d, scope, w)
    BY <1>3 DEF Matched
  <2>2. PICK v : Opens(v, w) /\ decide(d, scope, v) = "out"
    BY <2>1 DEF Verdicts
  <2> QED BY <1>1, <2>1, <2>2, DecideSound
<1> QED BY <1>2, <1>3

(* Once the choice is settled, all texts the verdicts hold of are read     *)
(* with the same definition, or with none for the same reason              *)
(* (settledBetween, Select).                                               *)
LEMMA SettledIsFinal ==
  ASSUME registry \subseteq Defs, fits \subseteq Considered(scope), open \subseteq Considered(scope),
         NEW v, NEW w, Verdicts(v), Verdicts(w),
         Unknown(scope) \/ settledBetween(fits, open)
  PROVE  Select(scope, v) = Select(scope, w)
<1>1. CASE Unknown(scope) \/ open = {}
  <2>1. Considered(scope) = {} \/ open = {}
    BY <1>1, ConsideredLoaded
  <2>2. Matched(v) = Matched(w)
    BY <2>1, VerdictsSound DEF Matched
  <2> QED BY <2>2, SelectOfMatched
<1>2. CASE ~Unknown(scope) /\ open # {}
  <2>1. PICK x : x \in settle(fits \union open) /\ x \in fits
    BY <1>2 DEF settledBetween
  <2>2. fits \in SUBSET Defs /\ open \in SUBSET Defs
    BY ConsideredLoaded
  <2>3. ASSUME NEW u, Verdicts(u) PROVE Select(scope, u) = [why |-> "chosen", chosen |-> {x}]
    <3>1. settle(Matched(u)) = {x} /\ x \in Matched(u)
      BY <2>1, <2>2, <2>3, VerdictsSound, SettleMonotone
    <3> QED BY <1>2, <3>1 DEF Select, Matched
  <2> QED BY <2>3
<1> QED BY <1>1, <1>2

(* Windows that hold what every signature in scope looks at, one of which  *)
(* opens the other, are read with the same definition (Window).            *)
LEMMA FullIsEnough ==
  ASSUME registry \subseteq Defs, NEW n \in Nat, WindowFull(scope, n),
         NEW v, NEW w, Opens(v, w),
         n <= Len(v) \/ MaxWindow <= Len(v)
  PROVE  Select(scope, v) = Select(scope, w)
<1>1. ASSUME NEW d \in Considered(scope) PROVE check(d, scope, v) = check(d, scope, w)
  <2>1. d \in Defs /\ d \in registry
    BY <1>1, ConsideredLoaded
  <2>2. CASE NoSignature(d)
    BY <2>2 DEF check, NoSignature, matchSignature
  <2>3. CASE ~Admits(d, scope)
    BY <2>3 DEF check
  <2>4. CASE ~NoSignature(d) /\ Admits(d, scope)
    <3>1. d \in Looking(scope)
      BY <1>1, <2>1, <2>4 DEF Looking, Considered, Candidates, Lookup, Variants
    <3>2. d.window <= n /\ d.window \in Nat /\ d.window <= MaxWindow /\ MaxWindow \in Nat
      BY <2>1, <3>1, DefinitionAssumption DEF WindowFull, Definition
    <3>3. Len(v) \in Nat
      <4>1. Len(v) \in 0..Len(w)
        BY DEF Opens
      <4> QED BY <4>1
    <3>4. First(v, d.window) = First(w, d.window)
      BY <3>2, <3>3, FirstStands
    <3> QED BY <3>4 DEF check
  <2> QED BY <2>2, <2>3, <2>4
<1>2. Matched(v) = Matched(w)
  BY <1>1 DEF Matched
<1> QED BY <1>2, SelectOfMatched

-----------------------------------------------------------------------------
(* The steps.                                                              *)

(* The registry and the scope decide what is considered, and how.          *)
LEMMA SameScope ==
  ASSUME UNCHANGED scopeVars
  PROVE  /\ Considered(scope)' = Considered(scope) /\ Unknown(scope)' = Unknown(scope)
         /\ \A n : WindowFull(scope, n)' = WindowFull(scope, n)
         /\ \A w : Select(scope, w)' = Select(scope, w)
<1>1. registry' = registry /\ scope' = scope /\ guess' = guess
  BY DEF scopeVars
<1>2. Considered(scope)' = Considered(scope) /\ Unknown(scope)' = Unknown(scope)
  BY <1>1 DEF Considered, Unknown, Lookup, Variants, Claims
<1>3. \A n : WindowFull(scope, n)' = WindowFull(scope, n)
  BY <1>1 DEF WindowFull, Looking, Candidates, Lookup, Variants
<1>4. \A w : Select(scope, w)' = Select(scope, w)
  BY <1>1, <1>2 DEF Select
<1> QED BY <1>2, <1>3, <1>4

(* What is chosen is of the registry, and one (Select).                    *)
LEMMA ChoiceTyped ==
  ASSUME registry \subseteq Defs, OneGuess
  PROVE  Choice \in [why : {"none", "unknown", "nomatch", "ambiguous", "chosen"},
                     chosen : {{}} \union {{d} : d \in registry}]
<1>1. ASSUME NEW w PROVE Select(scope, w) \in [why : {"none", "unknown", "nomatch", "ambiguous", "chosen"},
                                               chosen : {{}} \union {{d} : d \in registry}]
  <2>1. Matched(w) \in SUBSET registry /\ (Unknown(scope) => Matched(w) = {})
    BY ConsideredLoaded DEF Matched
  <2>2. settle(Matched(w)) \in {{}} \union {{d} : d \in registry}
    BY <2>1, SettleOne
  <2>3. Matched(w) = {} => settle(Matched(w)) = {}
    BY DEF settle, breakTie, mostPreferred
  <2> QED BY <2>1, <2>2, <2>3 DEF Select, Matched, Failed
<1>2. guess \in {{}} \union {{d} : d \in registry}
  BY DEF OneGuess
<1> QED BY <1>1, <1>2 DEF Choice

(* The window only grows.                                                  *)
LEMMA WindowGrows ==
  ASSUME TypeOK, BlankTail, LineComes
  PROVE  Opens(W, W') /\ Opens(W', W')
<1>1. /\ text' \in Texts /\ Opens(text, text') /\ Len(text') \in Nat
      /\ last' \in 0..Len(text') /\ last <= last' /\ last \in 0..Len(text)
  BY LineAdded DEF TypeOK
<1>2. Opens(text', text')
  <2>1. Len(text') \in 0..Len(text')
    BY <1>1
  <2>2. SubSeq(text', 1, Len(text')) = text'
    BY <1>1, <2>1, FirstLines, SubSeqFull
  <2> QED BY <1>1, <2>1, <2>2 DEF Opens
<1>3. last' <= last'
  BY <1>1
<1>4. Opens(W, W')
  BY <1>1, WindowOpens DEF W
<1>5. Opens(W', W')
  BY <1>1, <1>2, <1>3, WindowOpens DEF W
<1> QED BY <1>4, <1>5

(* Verdicts that are not changed hold of the text that has grown.          *)
LEMMA VerdictsStand ==
  ASSUME NEW v, NEW w, Opens(v, w), Verdicts(v)
  PROVE  Verdicts(w)
BY OpensOpens DEF Verdicts

(* decide, in three words.                                                 *)
LEMMA DecideTyped ==
  ASSUME NEW d \in Defs, NEW s, NEW w \in Texts
  PROVE  decide(d, s, w) \in {"fits", "out", "undecided"}
<1>1. Len(w) \in Int /\ d.window \in Int
  <2>1. Len(First(w, 0)) = Least(0, Len(w)) /\ Opens(First(w, 0), w)
    BY FirstOpens
  <2>2. Len(First(w, 0)) \in 0..Len(w)
    BY <2>1 DEF Opens
  <2> QED BY <2>2, DefinitionAssumption DEF Definition
<1>2. judgeSignature(d, w) \in {"fits", "out", "undecided"}
  BY DEF judgeSignature
<1> QED BY <1>1, <1>2 DEF decide

(* The invariant holds at the start.                                       *)
LEMMA InitIInv == Init => IInv
<1> SUFFICES ASSUME Init PROVE IInv
  OBVIOUS
<1>1. <<>> \in Texts /\ Len(<<>>) = 0
  <2>1. 0 \in 0..MaxLines
    BY TextAssumption
  <2>2. <<>> \in [1..0 -> Lines]
    OBVIOUS
  <2> QED BY <2>1, <2>2 DEF Texts
<1>2. text = <<>> /\ last = 0 /\ held = 0 /\ fits = {} /\ open = Considered(scope) /\ head = "reading"
      /\ answer = [why |-> "none", chosen |-> {}] /\ registry \subseteq Defs
  BY DEF Init, Failed
<1>3. guess \subseteq registry /\ OneGuess
  BY DEF Init, OneGuess
<1>4. TypeOK
  BY <1>1, <1>2, <1>3 DEF TypeOK
<1>5. BlankTail
  BY <1>1, <1>2 DEF BlankTail
<1>6. Verdicts(W) /\ HeadEnds /\ AnswerStands
  BY <1>1, <1>2 DEF Verdicts, HeadEnds, AnswerStands, SettledStands, FullWindowStands
<1> QED BY <1>3, <1>4, <1>5, <1>6 DEF IInv

(* It holds when readHead has taken a line.                                *)
LEMMA ReadLineIInv == IInv /\ ReadLine => IInv'
<1> SUFFICES ASSUME IInv, ReadLine PROVE IInv'
  OBVIOUS
<1>1. /\ head = "reading" /\ LineComes /\ held' = held + 1 /\ UNCHANGED scopeVars /\ answer' = answer
      /\ TypeOK /\ OneGuess /\ BlankTail /\ Verdicts(W)
      /\ held = Len(text) /\ answer.why = "none"
  BY DEF ReadLine, IInv, HeadEnds
<1>2. registry' = registry /\ scope' = scope /\ guess' = guess /\ registry \subseteq Defs
  BY <1>1 DEF scopeVars, TypeOK
<1>3. /\ text' \in Texts /\ Len(text') = Len(text) + 1 /\ Len(text) \in Nat
      /\ last' \in 0..Len(text') /\ BlankTail'
  BY <1>1, LineAdded DEF TypeOK
<1>4. Opens(W, W') /\ Opens(W', W')
  BY <1>1, WindowGrows
<1>5. Verdicts(W')
  BY <1>1, <1>4, VerdictsStand
<1>6. Considered(scope)' = Considered(scope) /\ Unknown(scope)' = Unknown(scope)
      /\ \A n : WindowFull(scope, n)' = WindowFull(scope, n)
  BY <1>1, SameScope
<1>7. held' \in 1..Len(text') /\ held' = Len(text')
  BY <1>1, <1>3
<1>8. CASE WindowFull(scope, held + 1)
  <2>1. head' = "full" /\ fits' = fits /\ open' = open
    BY <1>8 DEF ReadLine
  <2>2. TypeOK'
    BY <1>1, <1>2, <1>3, <1>6, <1>7, <2>1 DEF TypeOK
  <2>3. Verdicts(W)'
    BY <1>2, <1>5, <1>6, <2>1 DEF Verdicts
  <2>4. HeadEnds'
    BY <1>1, <1>2, <1>6, <1>7, <1>8, <2>1 DEF HeadEnds, WindowFull
  <2>5. AnswerStands'
    BY <1>1 DEF AnswerStands, SettledStands, FullWindowStands
  <2> QED BY <1>1, <1>2, <1>3, <2>2, <2>3, <2>4, <2>5 DEF IInv, OneGuess
<1>9. CASE ~WindowFull(scope, held + 1)
  <2>1. /\ fits' = fits \union {d \in open : decide(d, scope, W') = "fits"}
        /\ open' = {d \in open : decide(d, scope, W') = "undecided"}
        /\ head' = IF Unknown(scope) \/ settledBetween(fits', open') THEN "settled" ELSE "reading"
    BY <1>9 DEF ReadLine, Watched, W
  <2>2. fits' \subseteq Considered(scope) /\ open' \subseteq Considered(scope)
    BY <1>1, <2>1 DEF TypeOK
  <2>3. TypeOK'
    BY <1>1, <1>2, <1>3, <1>6, <1>7, <2>1, <2>2 DEF TypeOK
  <2>4. ASSUME NEW d \in fits' PROVE \E v : Opens(v, W') /\ decide(d, scope, v) = "fits"
    BY <1>4, <1>5, <2>1 DEF Verdicts
  <2>5. ASSUME NEW d \in Considered(scope) \ (fits' \union open')
        PROVE  \E v : Opens(v, W') /\ decide(d, scope, v) = "out"
    <3>1. CASE d \in open
      <4>1. decide(d, scope, W') \in {"fits", "out", "undecided"}
        BY <1>2, <1>4, ConsideredLoaded, DecideTyped DEF Opens
      <4> QED BY <1>4, <2>1, <3>1, <4>1
    <3>2. CASE d \notin open
      BY <1>5, <2>1, <3>2 DEF Verdicts
    <3> QED BY <3>1, <3>2
  <2>6. Verdicts(W)'
    BY <1>2, <1>6, <2>4, <2>5 DEF Verdicts
  <2>7. HeadEnds'
    BY <1>1, <1>6, <1>7, <2>1 DEF HeadEnds
  <2>8. AnswerStands'
    BY <1>1 DEF AnswerStands, SettledStands, FullWindowStands
  <2> QED BY <1>1, <1>2, <1>3, <2>3, <2>6, <2>7, <2>8 DEF IInv, OneGuess
<1> QED BY <1>8, <1>9

(* It holds when the definition has been chosen.                           *)
LEMMA ChooseIInv == IInv /\ Choose => IInv'
<1> SUFFICES ASSUME IInv, Choose PROVE IInv'
  OBVIOUS
<1>1. /\ head # "reading" /\ answer' = Choice
      /\ UNCHANGED scopeVars /\ UNCHANGED <<text, last, held, fits, open, head>>
      /\ TypeOK /\ OneGuess
  BY DEF Choose, IInv
<1>2. registry' = registry /\ scope' = scope /\ guess' = guess
  BY <1>1 DEF scopeVars
<1>3. Considered(scope)' = Considered(scope) /\ Unknown(scope)' = Unknown(scope)
      /\ \A n : WindowFull(scope, n)' = WindowFull(scope, n)
      /\ \A w : Select(scope, w)' = Select(scope, w)
  BY <1>1, SameScope
<1>4. TypeOK'
  BY <1>1, <1>2, <1>3, ChoiceTyped DEF TypeOK
<1>5. OneGuess' /\ BlankTail' /\ Verdicts(W)'
  BY <1>1, <1>2, <1>3 DEF IInv, OneGuess, BlankTail, Verdicts, W
<1>6. HeadEnds'
  BY <1>1, <1>2, <1>3 DEF IInv, HeadEnds
<1>7. Choice' = Choice
  BY <1>1, <1>2, <1>3 DEF Choice
<1>8. AnswerStands'
  BY <1>1, <1>7 DEF AnswerStands, SettledStands, FullWindowStands
<1> QED BY <1>4, <1>5, <1>6, <1>8 DEF IInv

(* It holds when the text has gone on behind the head.                     *)
LEMMA GoesOnIInv == IInv /\ GoesOn => IInv'
<1> SUFFICES ASSUME IInv, GoesOn PROVE IInv'
  OBVIOUS
<1>1. /\ head \in {"settled", "full"} /\ LineComes /\ answer.why # "none"
      /\ UNCHANGED scopeVars /\ UNCHANGED <<held, fits, open, head, answer>>
      /\ TypeOK /\ OneGuess /\ BlankTail /\ Verdicts(W) /\ HeadEnds /\ AnswerStands
  BY DEF GoesOn, IInv
<1>2. registry' = registry /\ scope' = scope /\ guess' = guess /\ registry \subseteq Defs
      /\ fits \subseteq Considered(scope) /\ open \subseteq Considered(scope)
  BY <1>1 DEF scopeVars, TypeOK
<1>3. /\ text' \in Texts /\ Len(text') = Len(text) + 1 /\ Len(text) \in Nat
      /\ last' \in 0..Len(text') /\ BlankTail' /\ \A i \in 1..Len(text) : text'[i] = text[i]
  BY <1>1, LineAdded DEF TypeOK
<1>4. Opens(W, W')
  BY <1>1, WindowGrows
<1>5. Verdicts(W')
  BY <1>1, <1>4, VerdictsStand
<1>6. Considered(scope)' = Considered(scope) /\ Unknown(scope)' = Unknown(scope)
      /\ \A n : WindowFull(scope, n)' = WindowFull(scope, n)
      /\ \A w : Select(scope, w)' = Select(scope, w)
  BY <1>1, SameScope
<1>7. TypeOK' /\ OneGuess'
  BY <1>1, <1>2, <1>3, <1>6 DEF TypeOK, OneGuess
<1>8. Verdicts(W)'
  BY <1>1, <1>2, <1>5, <1>6 DEF Verdicts
<1>9. HeadEnds'
  BY <1>1, <1>2, <1>3, <1>6 DEF HeadEnds
<1>10. guess = {} => Choice = Select(scope, W) /\ Choice' = Select(scope, W')
  BY <1>2, <1>6 DEF Choice, W
<1>11. SettledStands'
  <2> SUFFICES ASSUME head = "settled", guess = {} PROVE answer = Choice'
    BY <1>1, <1>2 DEF SettledStands
  <2>1. answer = Select(scope, W)
    BY <1>1, <1>10 DEF AnswerStands, SettledStands
  <2>2. Select(scope, W) = Select(scope, W')
    BY <1>1, <1>2, <1>5, SettledIsFinal DEF HeadEnds
  <2> QED BY <1>10, <2>1, <2>2
<1>12. FullWindowStands'
  <2> SUFFICES ASSUME head = "full", guess = {}, text'[held] # Blank PROVE answer = Choice'
    BY <1>1, <1>2 DEF FullWindowStands
  <2>1. held \in 1..Len(text) /\ WindowFull(scope, held) /\ text[held] # Blank
    BY <1>1, <1>3 DEF HeadEnds
  <2>2. answer = Select(scope, W)
    BY <1>1, <1>10, <2>1 DEF AnswerStands, FullWindowStands
  <2>3. held <= last /\ last \in 0..Len(text)
    BY <1>1, <1>3, <2>1 DEF BlankTail, TypeOK
  <2>4. held <= Len(W) \/ MaxWindow <= Len(W)
    <3> DEFINE a == IF Len(text) > MaxWindow THEN MaxWindow ELSE last
    <3>1. a \in 0..Len(text)
      BY <1>3, <2>3, DefinitionAssumption
    <3>2. Len(W) = a
      BY <1>1, <3>1, FirstLines DEF W, signatureWindow, TypeOK
    <3> QED BY <1>3, <2>1, <2>3, <3>2, DefinitionAssumption
  <2>5. Select(scope, W) = Select(scope, W')
    BY <1>2, <1>3, <1>4, <2>1, <2>4, FullIsEnough
  <2> QED BY <1>10, <2>2, <2>5
<1> QED BY <1>3, <1>7, <1>8, <1>9, <1>11, <1>12 DEF IInv, AnswerStands

(* It holds when the input has ended, and when nothing changes.            *)
LEMMA OtherIInv == IInv /\ (EndOfInput \/ UNCHANGED vars) => IInv'
<1> SUFFICES ASSUME IInv, EndOfInput \/ UNCHANGED vars PROVE IInv'
  OBVIOUS
<1>1. /\ UNCHANGED scopeVars /\ UNCHANGED <<text, last, held, fits, open, answer>>
      /\ head' = head \/ (head = "reading" /\ head' = "ended")
  <2>1. CASE EndOfInput
    BY <2>1 DEF EndOfInput
  <2>2. CASE UNCHANGED vars
    BY <2>2 DEF vars
  <2> QED BY <2>1, <2>2
<1>2. registry' = registry /\ scope' = scope /\ guess' = guess
  BY <1>1 DEF scopeVars
<1>3. Considered(scope)' = Considered(scope) /\ Unknown(scope)' = Unknown(scope)
      /\ \A n : WindowFull(scope, n)' = WindowFull(scope, n)
      /\ \A w : Select(scope, w)' = Select(scope, w)
  BY <1>1, SameScope
<1>4. TypeOK'
  BY <1>1, <1>2, <1>3 DEF IInv, TypeOK
<1>5. OneGuess' /\ BlankTail' /\ Verdicts(W)'
  BY <1>1, <1>2, <1>3 DEF IInv, OneGuess, BlankTail, Verdicts, W
<1>6. HeadEnds'
  BY <1>1, <1>2, <1>3 DEF IInv, HeadEnds
<1>7. Choice' = Choice
  BY <1>1, <1>2, <1>3 DEF Choice
<1>8. AnswerStands'
  BY <1>1, <1>2, <1>7 DEF IInv, AnswerStands, SettledStands, FullWindowStands
<1> QED BY <1>4, <1>5, <1>6, <1>8 DEF IInv

LEMMA Invariant == Spec => []IInv
<1>1. IInv /\ [Next]_vars => IInv'
  BY ReadLineIInv, ChooseIInv, GoesOnIInv, OtherIInv DEF Next, Chosen
<1> QED BY InitIInv, <1>1, PTL DEF Spec

-----------------------------------------------------------------------------
(* What the runs check, for every registry and every text.                 *)

(* A choice is of one definition of the registry (Select).                 *)
THEOREM TypeCorrect == Spec => []TypeOK
<1>1. IInv => TypeOK
  BY DEF IInv
<1> QED BY <1>1, Invariant, PTL

(* What a stream has chosen by its first lines, because Watch said they    *)
(* settle it, is what its whole text gives (Watch, Select).                *)
THEOREM SettledIsRight == Spec => []SettledStands
<1>1. IInv => SettledStands
  BY DEF IInv, AnswerStands
<1> QED BY <1>1, Invariant, PTL

(* What it has chosen by a full window that does not end with a blank line *)
(* is what its whole text gives (Window, Select).                          *)
THEOREM FullWindowIsRight == Spec => []FullWindowStands
<1>1. IInv => FullWindowStands
  BY DEF IInv, AnswerStands
<1> QED BY <1>1, Invariant, PTL
=============================================================================
