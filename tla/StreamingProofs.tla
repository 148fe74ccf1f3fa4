---------------------------- MODULE StreamingProofs ----------------------------
(***************************************************************************)
(* That the books of a stream balance, which Streaming checks for texts of *)
(* five lines and seventeen definitions, proved for every definition, text *)
(* and bound.                                                              *)
(*                                                                         *)
(* The argument.  A part takes a line or leaves it, and what it holds      *)
(* changes by as much as is charged (Step); a streamer whose books are     *)
(* kept for B bytes (Books) holds in each part no more than B, so that a   *)
(* line that is too much is so for the parts together (TooMuch).  A line   *)
(* goes to the parsers with a number that no open fate has, and its own    *)
(* fate opens with the number of parts that took it (Offering, Handed);    *)
(* what a part gives back it settles (Settles).  That the number is new is *)
(* the hard part: a csv record, a fold and the empty lines each hold a     *)
(* line back while later ones come, and the lines go on in the order they  *)
(* came only because what waits behind is younger than what waits before   *)
(* (Ordered, FoldOrdered, AllOrdered).  Both together are kept by every    *)
(* record of the text (Between), and by its end (Finished).                *)
(*                                                                         *)
(* The account of the whole is counted over disjoint sets of lines, which  *)
(* needs nothing of the stream (WholeAddsUp).                              *)
(***************************************************************************)
EXTENDS Streaming, TLAPS, WellFoundedInduction, FiniteSetTheorems, SequenceTheorems

-----------------------------------------------------------------------------
(* Sums.                                                                  *)

\* A set of numbers that has one has a least one.
LEMMA Least ==
  ASSUME NEW T \in SUBSET Nat, T # {}
  PROVE  \E n \in T : \A m \in T : n <= m
<1> DEFINE R == {ss \in Nat \X Nat : ss[1] < ss[2]}
<1>1. IsWellFoundedOn(R, Nat)
  BY NatLessThanWellFounded, Zenon DEF OpToRel
<1>2. PICK x \in T : \A y \in T : ~ (<<y, x>> \in R)
  BY <1>1, WFMin
<1>3. \A y \in T : ~ (y < x)
  BY <1>2
<1> QED BY <1>3

\* What holds of zero and goes on from each number to the next holds of all of them:
\* induction, over a set.
LEMMA Reaches ==
  ASSUME NEW n \in Nat, NEW T, 0 \in T, \A i \in 0..(n - 1) : i \in T => i + 1 \in T
  PROVE  \A i \in 0..n : i \in T
<1> SUFFICES ASSUME NEW j \in 0..n, j \notin T PROVE FALSE
  OBVIOUS
<1> DEFINE U == {i \in 0..n : i \notin T}
<1>0. U \in SUBSET Nat /\ U # {}
  OBVIOUS
<1>1. PICK m \in U : \A k \in U : m <= k
  BY <1>0, Least
<1>2. m - 1 \in 0..(n-1) /\ m - 1 \in T
  BY <1>1
<1> QED BY <1>1, <1>2

\* Max finds the last of some positions.
LEMMA MaxIsLast ==
  ASSUME NEW n \in Nat, NEW S \in SUBSET (1..n), S # {}
  PROVE  Max(S) \in S /\ \A x \in S : Max(S) >= x
<1> DEFINE T == {n - x : x \in S}
<1>0. PICK x \in S : TRUE
  OBVIOUS
<1>1. T \in SUBSET Nat /\ n - x \in T
  BY <1>0
<1>2. PICK m \in T : \A k \in T : m <= k
  BY <1>1, Least
<1>3. PICK y \in S : m = n - y
  BY <1>2
<1>4. ASSUME NEW z \in S PROVE y >= z
  <2>1. n - z \in T
    OBVIOUS
  <2>2. y \in 1..n /\ z \in 1..n /\ m <= n - z
    BY <1>2, <2>1
  <2> QED BY <1>3, <2>2
<1> QED BY <1>4 DEF Max

\* What a fold works out: a value for each set of positions, by the last of them.
IsTable(h, n, base, F) == \A S \in SUBSET (1..n) : h[S] = IF S = {} THEN base ELSE F[<<h[S \ {Max(S)}], Max(S)>>]

\* For each step that stays in a set A there is such a table.
LEMMA TableExists ==
  ASSUME NEW n \in Nat, NEW A, NEW base \in A, NEW F \in [A \X (1..n) -> A]
  PROVE  \E h \in [SUBSET (1..n) -> A] : IsTable(h, n, base, F)
<1> DEFINE Fits(h, m) == \A S \in SUBSET (1..m) : h[S] = IF S = {} THEN base ELSE F[<<h[S \ {Max(S)}], Max(S)>>]
           T == {m \in 0..n : \E h \in [SUBSET (1..m) -> A] : Fits(h, m)}
<1>1. 0 \in T
  <2> DEFINE h == [S \in SUBSET (1..0) |-> base]
  <2>1. h \in [SUBSET (1..0) -> A] /\ Fits(h, 0)
    OBVIOUS
  <2>2. 0 \in 0..n
    OBVIOUS
  <2> HIDE DEF h, Fits
  <2> QED BY <2>1, <2>2
<1>2. ASSUME NEW m \in 0..(n - 1), m \in T PROVE m + 1 \in T
  <2>1. PICK h \in [SUBSET (1..m) -> A] : Fits(h, m)
    BY <1>2
  <2> DEFINE k == [S \in SUBSET (1..(m + 1)) |-> IF m + 1 \in S THEN F[<<h[S \ {m + 1}], m + 1>>] ELSE h[S]]
  <2>2. \A S \in SUBSET (1..(m + 1)) : /\ m + 1 \in S => S \ {m + 1} \in SUBSET (1..m)
                                       /\ m + 1 \notin S => S \in SUBSET (1..m)
    OBVIOUS
  <2>3. k \in [SUBSET (1..(m + 1)) -> A]
    <3> SUFFICES ASSUME NEW S \in SUBSET (1..(m + 1)) PROVE k[S] \in A
      BY Zenon
    <3> QED BY <2>2
  <2>4. ASSUME NEW S \in SUBSET (1..(m + 1)) PROVE k[S] = IF S = {} THEN base ELSE F[<<k[S \ {Max(S)}], Max(S)>>]
    <3>1. CASE S = {}
      BY <3>1, <2>1, <2>2
    <3>2. CASE m + 1 \in S
      <4>1. Max(S) = m + 1
        <5>1. Max(S) \in S /\ Max(S) >= m + 1
          BY <3>2, MaxIsLast, m + 1 \in Nat
        <5>2. Max(S) \in 1..(m + 1)
          BY <5>1
        <5> QED BY <5>1, <5>2
      <4>2. S \ {m + 1} \in SUBSET (1..m) /\ k[S \ {m + 1}] = h[S \ {m + 1}]
        BY <2>2, <3>2
      <4> QED BY <3>2, <4>1, <4>2
    <3>3. CASE S # {} /\ m + 1 \notin S
      <4>1. S \in SUBSET (1..m) /\ Max(S) \in S
        BY <2>2, <3>3, MaxIsLast, m + 1 \in Nat
      <4>2. S \ {Max(S)} \in SUBSET (1..m)
        BY <4>1
      <4>3. k[S] = h[S] /\ k[S \ {Max(S)}] = h[S \ {Max(S)}]
        BY <3>3, <4>2
      <4> QED BY <2>1, <3>3, <4>1, <4>3
    <3> QED BY <3>1, <3>2, <3>3
  <2> HIDE DEF k
  <2>5. Fits(k, m + 1)
    BY <2>4
  <2> HIDE DEF Fits
  <2> QED BY <2>3, <2>5
<1> HIDE DEF T
<1>3. n \in T
  BY <1>1, <1>2, Reaches
<1>4. \E h \in [SUBSET (1..n) -> A] : Fits(h, n)
  BY <1>3 DEF T
<1> QED BY <1>4 DEF IsTable

\* The first i positions are the i-th after the ones before it.
LEMMA PrefixIs ==
  ASSUME NEW n \in Nat, NEW i \in 1..n
  PROVE  1..i \in SUBSET (1..n) /\ 1..i # {} /\ Max(1..i) = i /\ (1..i) \ {Max(1..i)} = 1..(i - 1)
<1>1. 1..i \in SUBSET (1..n) /\ i \in 1..i
  OBVIOUS
<1>2. Max(1..i) = i
  BY <1>1, MaxIsLast
<1>3. (1..i) \ {i} = 1..(i - 1)
  OBVIOUS
<1> QED BY <1>1, <1>2, <1>3

\* Total adds its numbers up, one after the other.
AddsUp(g, ns) ==
  /\ \A i \in 0..Len(ns) : g[i] \in Nat
  /\ g[0] = 0 /\ g[Len(ns)] = Total(ns)
  /\ \A i \in 0..(Len(ns) - 1) : g[i + 1] = g[i] + ns[i + 1]

\* Total is the last of the sums of its numbers, each the one before it and the next
\* number.
LEMMA TotalTable ==
  ASSUME NEW ns \in Seq(Nat)
  PROVE  \E g : AddsUp(g, ns)
<1> DEFINE n == Len(ns)
           S == DOMAIN ns
           F == [p \in Nat \X (1..n) |-> p[1] + ns[p[2]]]
<1>1. n \in Nat /\ S = 1..n /\ \A i \in 1..n : ns[i] \in Nat
  OBVIOUS
<1>2. F \in [Nat \X (1..n) -> Nat]
  BY <1>1
<1>3. PICK h \in [SUBSET (1..n) -> Nat] : IsTable(h, n, 0, F)
  <2>1. 0 \in Nat
    OBVIOUS
  <2> HIDE DEF F, n
  <2> QED BY <1>1, <1>2, <2>1, TableExists, Zenon
<1>4. ASSUME NEW T \in SUBSET S PROVE h[T] = IF T = {} THEN 0 ELSE h[T \ {Max(T)}] + ns[Max(T)]
  <2>1. CASE T = {}
    BY <1>1, <1>3, <2>1 DEF IsTable
  <2>2. CASE T # {}
    <3>1. Max(T) \in 1..n /\ T \ {Max(T)} \in SUBSET (1..n)
      BY <1>1, <2>2, MaxIsLast
    <3>2. h[T] = F[<<h[T \ {Max(T)}], Max(T)>>]
      BY <1>1, <1>3, <2>2 DEF IsTable
    <3> QED BY <1>1, <1>3, <2>2, <3>1, <3>2
  <2> QED BY <2>1, <2>2
<1>5. h = [T \in SUBSET S |-> IF T = {} THEN 0 ELSE h[T \ {Max(T)}] + ns[Max(T)]]
  <2> HIDE DEF S
  <2> QED BY <1>1, <1>3, <1>4
<1>6. PICK f : /\ f = [T \in SUBSET S |-> IF T = {} THEN 0 ELSE f[T \ {Max(T)}] + ns[Max(T)]]
               /\ Total(ns) = f[S]
  BY <1>5, Zenon DEF Total, FoldLeft, MapThenFoldSet
<1> DEFINE g == [i \in 0..n |-> f[1..i]]
<1>7. g[0] = 0
  BY <1>1, <1>6
<1>8. ASSUME NEW i \in 1..n PROVE g[i] = g[i - 1] + ns[i]
  <2>1. 1..i \in SUBSET S /\ 1..i # {} /\ Max(1..i) = i /\ (1..i) \ {Max(1..i)} = 1..(i - 1)
    BY <1>1, PrefixIs
  <2>2. f[1..i] = f[(1..i) \ {Max(1..i)}] + ns[Max(1..i)]
    BY <1>6, <2>1
  <2>3. i \in 0..n /\ i - 1 \in 0..n
    BY <1>1
  <2> QED BY <2>1, <2>2, <2>3, Zenon
<1> HIDE DEF g
<1> DEFINE T == {i \in 0..n : g[i] \in Nat}
<1>9. \A i \in 0..n : i \in T
  <2>1. 0 \in T
    BY <1>1, <1>7
  <2>2. ASSUME NEW i \in 0..(n - 1), i \in T PROVE i + 1 \in T
    <3>1. g[i + 1] = g[i] + ns[i + 1] /\ ns[i + 1] \in Nat
      BY <1>1, <1>8, i + 1 \in 1..n, (i + 1) - 1 = i
    <3> QED BY <1>1, <2>2, <3>1
  <2> HIDE DEF T
  <2> QED BY <1>1, <2>1, <2>2, Reaches
<1>10. g \in [0..n -> Nat]
  BY <1>9 DEF g
<1>11. g[n] = Total(ns)
  BY <1>1, <1>6 DEF g
<1>12. \A i \in 0..(n - 1) : g[i + 1] = g[i] + ns[i + 1]
  BY <1>1, <1>8, \A i \in 0..(n - 1) : i + 1 \in 1..n /\ (i + 1) - 1 = i
<1> QED BY <1>7, <1>10, <1>11, <1>12 DEF AddsUp

\* A sum of numbers is a number.
LEMMA TotalNat ==
  ASSUME NEW ns \in Seq(Nat)
  PROVE  Total(ns) \in Nat
<1>1. Len(ns) \in 0..Len(ns)
  OBVIOUS
<1> QED BY <1>1, TotalTable DEF AddsUp

\* Nothing adds up to zero.
LEMMA TotalNone == Total(<<>>) = 0
<1>1. <<>> \in Seq(Nat) /\ Len(<<>>) = 0
  OBVIOUS
<1> QED BY <1>1, TotalTable DEF AddsUp

\* What two sequences add up to, one after the other, is what each of them does.
LEMMA TotalConcat ==
  ASSUME NEW ms \in Seq(Nat), NEW ns \in Seq(Nat)
  PROVE  ms \o ns \in Seq(Nat) /\ Total(ms \o ns) = Total(ms) + Total(ns)
<1> DEFINE both == ms \o ns
           m == Len(ms)
           n == Len(ns)
<1>1. /\ both \in Seq(Nat) /\ m \in Nat /\ n \in Nat /\ Len(both) = m + n
      /\ \A i \in 0..(m - 1) : both[i + 1] = ms[i + 1]
      /\ \A i \in 0..(n - 1) : both[m + (i + 1)] = ns[i + 1]
      /\ \A i \in 0..(m - 1) : ms[i + 1] \in Nat
      /\ \A i \in 0..(n - 1) : ns[i + 1] \in Nat
  OBVIOUS
<1>2. PICK b : AddsUp(b, both)
  BY <1>1, TotalTable
<1>3. PICK f : AddsUp(f, ms)
  BY TotalTable
<1>4. PICK g : AddsUp(g, ns)
  BY TotalTable
<1> HIDE DEF both
<1> DEFINE T == {i \in 0..m : b[i] = f[i]}
<1>5. \A i \in 0..m : i \in T
  <2>1. 0 \in T
    BY <1>1, <1>2, <1>3 DEF AddsUp
  <2>2. ASSUME NEW i \in 0..(m - 1), i \in T PROVE i + 1 \in T
    <3>1. i + 1 \in 0..m /\ i \in 0..(Len(both) - 1)
      BY <1>1
    <3>2. b[i + 1] = b[i] + both[i + 1] /\ f[i + 1] = f[i] + ms[i + 1]
      BY <1>2, <1>3, <3>1 DEF AddsUp
    <3> QED BY <1>1, <2>2, <3>1, <3>2
  <2> HIDE DEF T
  <2> QED BY <1>1, <2>1, <2>2, Reaches
<1> DEFINE U == {i \in 0..n : b[m + i] = f[m] + g[i]}
<1>6. \A i \in 0..n : i \in U
  <2>1. 0 \in U
    <3>1. m \in 0..m /\ m + 0 = m /\ 0 \in 0..n
      BY <1>1
    <3>2. b[m] = f[m] /\ f[m] \in Nat /\ g[0] = 0
      BY <1>3, <1>4, <1>5, <3>1 DEF AddsUp
    <3>3. b[m + 0] = f[m] + g[0]
      BY <3>1, <3>2
    <3> QED BY <3>1, <3>3
  <2>2. ASSUME NEW i \in 0..(n - 1), i \in U PROVE i + 1 \in U
    <3>1. i + 1 \in 0..n /\ m + i \in 0..(Len(both) - 1) /\ m + (i + 1) = (m + i) + 1
      BY <1>1
    <3>2. b[m + (i + 1)] = b[m + i] + both[m + (i + 1)] /\ g[i + 1] = g[i] + ns[i + 1]
      BY <1>2, <1>4, <3>1 DEF AddsUp
    <3>3. f[m] \in Nat /\ g[i] \in Nat /\ both[m + (i + 1)] = ns[i + 1] /\ ns[i + 1] \in Nat
      BY <1>1, <1>3, <1>4, m \in 0..m, i \in 0..n DEF AddsUp
    <3>4. b[m + (i + 1)] = f[m] + g[i + 1]
      BY <2>2, <3>2, <3>3
    <3> QED BY <3>1, <3>4
  <2> HIDE DEF U
  <2> QED BY <1>1, <2>1, <2>2, Reaches
<1>7. b[m + n] = f[m] + g[n]
  BY <1>1, <1>6
<1> QED BY <1>1, <1>2, <1>3, <1>4, <1>7 DEF both, AddsUp

\* One number adds up to itself.
LEMMA TotalOne ==
  ASSUME NEW n \in Nat
  PROVE  <<n>> \in Seq(Nat) /\ Total(<<n>>) = n
<1>1. <<n>> \in Seq(Nat) /\ Len(<<n>>) = 1 /\ <<n>>[1] = n
  OBVIOUS
<1>2. PICK g : AddsUp(g, <<n>>)
  BY <1>1, TotalTable
<1>3. g[0] = 0 /\ g[1] = Total(<<n>>) /\ g[0 + 1] = g[0] + <<n>>[0 + 1]
  BY <1>1, <1>2, 0 \in 0..(1 - 1) DEF AddsUp
<1> QED BY <1>1, <1>3

\* Two differences and the difference of the sums.
LEMMA Moves ==
  ASSUME NEW a \in Nat, NEW b \in Nat, NEW x \in Nat, NEW y \in Nat
  PROVE  (a + x) - (b + y) = (a - b) + (x - y)
  OBVIOUS

\* Two sums whose numbers are the same but for one differ by what that one does.
LEMMA TotalChanged ==
  ASSUME NEW n \in Nat, NEW ms \in Seq(Nat), NEW ns \in Seq(Nat), Len(ms) = n, Len(ns) = n, NEW k \in 1..n,
         \A i \in 1..n : i # k => ms[i] = ns[i]
  PROVE  Total(ms) - ms[k] = Total(ns) - ns[k]
<1>1. n \in Nat /\ k \in 1..n /\ Len(ms) = n /\ \A i \in 1..n : ms[i] \in Nat /\ ns[i] \in Nat /\ (i # k => ms[i] = ns[i])
  OBVIOUS
<1>2. PICK f : AddsUp(f, ms)
  BY TotalTable
<1>3. PICK g : AddsUp(g, ns)
  BY TotalTable
<1>4. /\ \A i \in 0..n : f[i] \in Nat /\ g[i] \in Nat
      /\ f[0] = 0 /\ g[0] = 0 /\ f[n] = Total(ms) /\ g[n] = Total(ns)
      /\ \A i \in 0..(n - 1) : f[i + 1] = f[i] + ms[i + 1] /\ g[i + 1] = g[i] + ns[i + 1]
  BY <1>1, <1>2, <1>3 DEF AddsUp
<1> DEFINE T == {i \in 0..n : f[i] - g[i] = IF i < k THEN 0 ELSE ms[k] - ns[k]}
<1>5. \A i \in 0..n : i \in T
  <2>1. 0 \in T
    BY <1>1, <1>4
  <2>2. ASSUME NEW i \in 0..(n - 1), i \in T PROVE i + 1 \in T
    <3>1. i + 1 \in 1..n /\ i + 1 \in 0..n /\ i \in 0..n /\ i \in Nat /\ k \in Nat
      BY <1>1
    <3>2. f[i + 1] = f[i] + ms[i + 1] /\ g[i + 1] = g[i] + ns[i + 1]
      BY <1>4
    <3>3. f[i] \in Nat /\ g[i] \in Nat /\ ms[i + 1] \in Nat /\ ns[i + 1] \in Nat /\ ms[k] \in Nat /\ ns[k] \in Nat
      BY <1>1, <1>4, <3>1
    <3>4. i + 1 # k => ms[i + 1] = ns[i + 1]
      BY <1>1, <3>1
    <3>5. f[i + 1] - g[i + 1] = IF i + 1 < k THEN 0 ELSE ms[k] - ns[k]
      <4>0. f[i] - g[i] = IF i < k THEN 0 ELSE ms[k] - ns[k]
        BY <2>2
      <4>a. f[i + 1] - g[i + 1] = (f[i] + ms[i + 1]) - (g[i] + ns[i + 1])
        BY <3>2
      <4>b. f[i + 1] - g[i + 1] = (f[i] - g[i]) + (ms[i + 1] - ns[i + 1])
        <5>2. (f[i] + ms[i + 1]) - (g[i] + ns[i + 1]) = (f[i] - g[i]) + (ms[i + 1] - ns[i + 1])
          BY <3>3, Moves, SMTT(60)
        <5> QED BY <4>a, <5>2, Zenon
      <4>1. CASE i + 1 < k
        <5>1. i < k /\ ms[i + 1] = ns[i + 1]
          BY <3>1, <3>4, <4>1
        <5> QED BY <3>2, <3>3, <4>0, <4>1, <5>1
      <4>2. CASE i + 1 = k
        <5>1. i < k /\ ~(i + 1 < k)
          BY <3>1, <4>2
        <5>2. f[i] - g[i] = 0
          BY <4>0, <5>1
        <5>3. \A x, y \in Nat : 0 + (x - y) = x - y
          OBVIOUS
        <5>4. f[i + 1] - g[i + 1] = 0 + (ms[k] - ns[k])
          BY <4>2, <4>b, <5>2
        <5>5. f[i + 1] - g[i + 1] = ms[k] - ns[k]
          BY <3>3, <5>3, <5>4
        <5> QED BY <5>1, <5>5
      <4>3. CASE i + 1 > k
        <5>1. ~(i < k) /\ ~(i + 1 < k) /\ ms[i + 1] = ns[i + 1]
          BY <3>1, <3>4, <4>3
        <5>2. f[i] - g[i] = ms[k] - ns[k]
          BY <4>0, <5>1
        <5>3. f[i + 1] - g[i + 1] = ms[k] - ns[k]
          BY <3>3, <4>b, <5>1, <5>2
        <5> QED BY <5>1, <5>3
      <4> QED BY <3>1, <4>1, <4>2, <4>3
    <3> QED BY <3>1, <3>5
  <2> HIDE DEF T
  <2> QED BY <1>1, <2>1, <2>2, Reaches
<1>6. f[n] - g[n] = ms[k] - ns[k] /\ f[n] \in Nat /\ g[n] \in Nat /\ ms[k] \in Nat /\ ns[k] \in Nat
  BY <1>1, <1>4, <1>5
<1> QED BY <1>4, <1>6, SMTT(60)

\* A sum is at most its length times the most of its numbers.
LEMMA TotalBound ==
  ASSUME NEW ns \in Seq(Nat), NEW most \in Nat, \A i \in 1..Len(ns) : ns[i] <= most
  PROVE  Total(ns) <= Len(ns) * most
<1> DEFINE n == Len(ns)
<1>1. n \in Nat /\ \A i \in 1..n : ns[i] \in Nat /\ ns[i] <= most
  OBVIOUS
<1>2. PICK g : AddsUp(g, ns)
  BY TotalTable
<1>3. /\ \A i \in 0..n : g[i] \in Nat
      /\ g[0] = 0 /\ g[n] = Total(ns)
      /\ \A i \in 0..(n - 1) : g[i + 1] = g[i] + ns[i + 1]
  BY <1>1, <1>2 DEF AddsUp
<1> HIDE DEF n
<1> DEFINE T == {i \in 0..n : g[i] <= i * most}
<1>5. \A i \in 0..n : i \in T
  <2>1. 0 \in T
    BY <1>1, <1>3
  <2>2. ASSUME NEW i \in 0..(n - 1), i \in T PROVE i + 1 \in T
    <3>1. i + 1 \in 1..n /\ i + 1 \in 0..n /\ i \in 0..n
      BY <1>1
    <3>2. g[i + 1] = g[i] + ns[i + 1] /\ ns[i + 1] <= most /\ ns[i + 1] \in Nat /\ g[i] \in Nat
      BY <1>1, <1>3, <3>1
    <3>3. (i + 1) * most = i * most + most /\ i * most \in Nat
      BY <1>1
    <3>4. g[i + 1] <= (i + 1) * most
      BY <2>2, <3>2, <3>3
    <3> QED BY <3>1, <3>4
  <2> HIDE DEF T
  <2> QED BY <1>1, <2>1, <2>2, Reaches
<1> QED BY <1>1, <1>3, <1>5 DEF n

-----------------------------------------------------------------------------
(* What lines cost.                                                       *)

\* A text is letters, the empty ones of line breaks among them.
Glyph == Letters \union {""}
Text == Seq(Glyph)
Line == [text : Text, num : Nat]

\* A function on the first n numbers is a sequence of length n.
LEMMA OfLength ==
  ASSUME NEW S, NEW n \in Nat, NEW f \in [1..n -> S]
  PROVE  f \in Seq(S) /\ Len(f) = n
OBVIOUS

\* A sequence of one element.
LEMMA OneIs ==
  ASSUME NEW S, NEW e \in S
  PROVE  <<e>> \in Seq(S) /\ Len(<<e>>) = 1 /\ <<e>>[1] = e /\ 1 \in DOMAIN <<e>>
OBVIOUS

\* What two sequences are, one after the other.
LEMMA ConcatIs ==
  ASSUME NEW S, NEW x \in Seq(S), NEW y \in Seq(S)
  PROVE  /\ x \o y \in Seq(S) /\ Len(x \o y) = Len(x) + Len(y)
         /\ Len(x) \in Nat /\ Len(y) \in Nat
         /\ DOMAIN (x \o y) = 1..(Len(x) + Len(y))
         /\ DOMAIN x = 1..Len(x) /\ DOMAIN y = 1..Len(y)
         /\ \A i \in 1..(Len(x) + Len(y)) :
              /\ i <= Len(x) => i \in 1..Len(x) /\ (x \o y)[i] = x[i]
              /\ ~(i <= Len(x)) => i - Len(x) \in 1..Len(y) /\ (x \o y)[i] = y[i - Len(x)]
<1>1. x \o y \in Seq(S) /\ Len(x \o y) = Len(x) + Len(y) /\ Len(x) \in Nat /\ Len(y) \in Nat
  OBVIOUS
<1>2. DOMAIN (x \o y) = 1..(Len(x) + Len(y)) /\ DOMAIN x = 1..Len(x) /\ DOMAIN y = 1..Len(y)
  BY <1>1
<1>3. ASSUME NEW i \in 1..(Len(x) + Len(y)), i <= Len(x)
      PROVE  i \in 1..Len(x) /\ (x \o y)[i] = x[i]
  BY <1>1, <1>3
<1>4. ASSUME NEW i \in 1..(Len(x) + Len(y)), ~(i <= Len(x))
      PROVE  i - Len(x) \in 1..Len(y) /\ (x \o y)[i] = y[i - Len(x)]
  BY <1>1, <1>4
<1> QED BY <1>1, <1>2, <1>3, <1>4

\* A sequence that agrees with two others, one after the other.
LEMMA IsConcat ==
  ASSUME NEW S, NEW x \in Seq(S), NEW y \in Seq(S), NEW z \in Seq(S), Len(z) = Len(x) + Len(y),
         \A i \in 1..Len(z) : z[i] = IF i <= Len(x) THEN x[i] ELSE y[i - Len(x)]
  PROVE  z = x \o y
<1>1. /\ x \o y \in Seq(S) /\ Len(x \o y) = Len(z)
      /\ \A i \in 1..Len(z) : (x \o y)[i] = z[i]
  BY ConcatIs
<1> QED BY <1>1

\* What each letter of a text costs.
Costs(x) == [i \in DOMAIN x |-> IF x[i] = "" THEN 1 ELSE 2]

\* A line costs what its letters do (lineBytes).
LEMMA CostsSeq ==
  ASSUME NEW x \in Text
  PROVE  Costs(x) \in Seq(Nat) /\ Len(Costs(x)) = Len(x) /\ LineBytes(x) = Total(Costs(x))
<1>1. Costs(x) = [i \in 1..Len(x) |-> IF x[i] = "" THEN 1 ELSE 2] /\ Len(x) \in Nat
  BY DEF Text, Costs
<1>2. \A i \in 1..Len(x) : (IF x[i] = "" THEN 1 ELSE 2) \in Nat
  OBVIOUS
<1>3. LineBytes(x) = Total(Costs(x))
  BY DEF LineBytes, Costs
<1>4. Costs(x) \in [1..Len(x) -> Nat]
  BY <1>1, <1>2
<1>5. Costs(x) \in Seq(Nat) /\ Len(Costs(x)) = Len(x)
  BY <1>1, <1>4, OfLength
<1> QED BY <1>3, <1>5

\* The cost of a line is a number.
LEMMA LineBytesNat ==
  ASSUME NEW x \in Text
  PROVE  LineBytes(x) \in Nat
BY CostsSeq, TotalNat

\* Two texts joined cost what each of them does.
LEMMA LineBytesConcat ==
  ASSUME NEW x \in Text, NEW y \in Text
  PROVE  x \o y \in Text /\ LineBytes(x \o y) = LineBytes(x) + LineBytes(y)
<1>1. x \o y \in Text
  BY DEF Text
<1>2. Costs(x \o y) = Costs(x) \o Costs(y)
  <2>1. x \in Seq(Glyph) /\ y \in Seq(Glyph)
    BY DEF Text
  <2>2. Costs(x) \in Seq(Nat) /\ Costs(y) \in Seq(Nat) /\ Len(Costs(x)) = Len(x) /\ Len(Costs(y)) = Len(y)
    BY CostsSeq
  <2>3. x \o y \in Text /\ Len(x \o y) = Len(x) + Len(y)
    BY <1>1, <2>1, ConcatIs
  <2>4. Costs(x \o y) \in Seq(Nat) /\ Len(Costs(x \o y)) = Len(Costs(x)) + Len(Costs(y))
    BY <2>2, <2>3, CostsSeq
  <2>5. ASSUME NEW i \in 1..Len(Costs(x \o y))
        PROVE  Costs(x \o y)[i] = IF i <= Len(Costs(x)) THEN Costs(x)[i] ELSE Costs(y)[i - Len(Costs(x))]
    <3>1. /\ i \in 1..(Len(x) + Len(y)) /\ DOMAIN (x \o y) = 1..(Len(x) + Len(y))
          /\ DOMAIN x = 1..Len(x) /\ DOMAIN y = 1..Len(y)
          /\ i <= Len(x) => i \in 1..Len(x) /\ (x \o y)[i] = x[i]
          /\ ~(i <= Len(x)) => i - Len(x) \in 1..Len(y) /\ (x \o y)[i] = y[i - Len(x)]
      BY <2>1, <2>2, <2>4, ConcatIs
    <3>2. CASE i <= Len(x)
      BY <2>2, <3>1, <3>2 DEF Costs
    <3>3. CASE ~(i <= Len(x))
      BY <2>2, <3>1, <3>3 DEF Costs
    <3> QED BY <3>2, <3>3
  <2> QED BY <2>2, <2>4, <2>5, IsConcat
<1> QED BY <1>1, <1>2, CostsSeq, TotalConcat

\* A line without its spaces costs no more than with them (foldLines).
LEMMA TrimmedBytes ==
  ASSUME NEW l \in Line
  PROVE  Trimmed(l) \in Text /\ LineBytes(Trimmed(l)) <= LineBytes(l.text)
<1>0. l.text \in Text /\ LineBytes(l.text) \in Nat
  BY LineBytesNat DEF Line
<1>1. CASE l.text = <<"_">>
  <2> DEFINE one == <<"">>
             two == <<"_">>
  <2>a. "" \in Glyph /\ two \in Text
    BY <1>0, <1>1 DEF Glyph
  <2>b. one \in Text
    BY <2>a, OneIs, Zenon DEF Text
  <2>c. /\ Len(one) = 1 /\ one[1] = "" /\ Len(two) = 1 /\ two[1] = "_"
        /\ 1 \in DOMAIN one /\ 1 \in DOMAIN two
    OBVIOUS
  <2>1. /\ one \in Text /\ Len(one) = 1 /\ one[1] = "" /\ two \in Text /\ Len(two) = 1 /\ two[1] = "_"
        /\ 1 \in DOMAIN one /\ 1 \in DOMAIN two
    BY <2>a, <2>b, <2>c
  <2>2. Trimmed(l) = one /\ l.text = two
    BY <1>1 DEF Trimmed
  <2> HIDE DEF one, two
  <2>3. Costs(one)[1] = 1 /\ Costs(two)[1] = 2
    BY <2>1 DEF Costs
  <2>4. /\ Costs(one) \in Seq(Nat) /\ Len(Costs(one)) = 1
        /\ Costs(two) \in Seq(Nat) /\ Len(Costs(two)) = 1
    BY <2>1, CostsSeq
  <2>5. Costs(one) = <<1>> /\ Costs(two) = <<2>>
    BY <2>3, <2>4
  <2>6. LineBytes(one) = 1 /\ LineBytes(two) = 2
    BY <2>1, <2>5, CostsSeq, TotalOne
  <2>7. one \in Text /\ LineBytes(one) <= LineBytes(two)
    <3>1. 1 <= 2
      OBVIOUS
    <3> QED BY <2>1, <2>6, <3>1, Zenon
  <2> QED BY <2>2, <2>7, Zenon
<1>2. CASE l.text # <<"_">>
  <2>1. Trimmed(l) = l.text
    BY <1>2 DEF Trimmed
  <2> QED BY <1>0, <2>1
<1> QED BY <1>1, <1>2

\* What each line costs.
Weights(ls) == [i \in DOMAIN ls |-> LineBytes(ls[i].text)]

\* Lines cost what each of them does (linesBytes).
LEMMA WeightsSeq ==
  ASSUME NEW ls \in Seq(Line)
  PROVE  Weights(ls) \in Seq(Nat) /\ Len(Weights(ls)) = Len(ls) /\ LinesBytes(ls) = Total(Weights(ls))
<1>1. Weights(ls) = [i \in 1..Len(ls) |-> LineBytes(ls[i].text)] /\ Len(ls) \in Nat
  BY DEF Weights
<1>2. \A i \in 1..Len(ls) : LineBytes(ls[i].text) \in Nat
  <2>1. \A l \in Line : l.text \in Text
    BY DEF Line
  <2> QED BY <2>1, LineBytesNat
<1>3. LinesBytes(ls) = Total(Weights(ls))
  BY DEF LinesBytes, Weights
<1>4. Weights(ls) \in [1..Len(ls) -> Nat]
  BY <1>1, <1>2
<1>5. Weights(ls) \in Seq(Nat) /\ Len(Weights(ls)) = Len(ls)
  BY <1>1, <1>4, OfLength
<1> QED BY <1>3, <1>5

\* The cost of lines is a number.
LEMMA LinesBytesNat ==
  ASSUME NEW ls \in Seq(Line)
  PROVE  LinesBytes(ls) \in Nat
BY WeightsSeq, TotalNat

\* No line costs nothing.
LEMMA LinesBytesNone == <<>> \in Seq(Line) /\ LinesBytes(<<>>) = 0
<1>1. Weights(<<>>) = <<>> /\ <<>> \in Seq(Line)
  BY DEF Weights
<1> QED BY <1>1, WeightsSeq, TotalNone

\* One line costs what it does.
LEMMA LinesBytesOne ==
  ASSUME NEW l \in Line
  PROVE  <<l>> \in Seq(Line) /\ LinesBytes(<<l>>) = LineBytes(l.text)
<1>1. Weights(<<l>>) = <<LineBytes(l.text)>> /\ <<l>> \in Seq(Line)
  BY DEF Weights
<1>2. LineBytes(l.text) \in Nat
  BY LineBytesNat DEF Line
<1> QED BY <1>1, <1>2, WeightsSeq, TotalOne

\* Lines after lines cost what both do.
LEMMA LinesBytesConcat ==
  ASSUME NEW ks \in Seq(Line), NEW ls \in Seq(Line)
  PROVE  ks \o ls \in Seq(Line) /\ LinesBytes(ks \o ls) = LinesBytes(ks) + LinesBytes(ls)
<1>1. ks \o ls \in Seq(Line)
  OBVIOUS
<1>2. Weights(ks \o ls) = Weights(ks) \o Weights(ls)
  <2>2. Weights(ks) \in Seq(Nat) /\ Weights(ls) \in Seq(Nat) /\ Len(Weights(ks)) = Len(ks) /\ Len(Weights(ls)) = Len(ls)
    BY WeightsSeq
  <2>3. ks \o ls \in Seq(Line) /\ Len(ks \o ls) = Len(ks) + Len(ls)
    BY <1>1, ConcatIs
  <2>4. Weights(ks \o ls) \in Seq(Nat) /\ Len(Weights(ks \o ls)) = Len(Weights(ks)) + Len(Weights(ls))
    BY <2>2, <2>3, WeightsSeq
  <2>5. ASSUME NEW i \in 1..Len(Weights(ks \o ls))
        PROVE  Weights(ks \o ls)[i] = IF i <= Len(Weights(ks)) THEN Weights(ks)[i] ELSE Weights(ls)[i - Len(Weights(ks))]
    <3>1. /\ i \in 1..(Len(ks) + Len(ls)) /\ DOMAIN (ks \o ls) = 1..(Len(ks) + Len(ls))
          /\ DOMAIN ks = 1..Len(ks) /\ DOMAIN ls = 1..Len(ls)
          /\ i <= Len(ks) => i \in 1..Len(ks) /\ (ks \o ls)[i] = ks[i]
          /\ ~(i <= Len(ks)) => i - Len(ks) \in 1..Len(ls) /\ (ks \o ls)[i] = ls[i - Len(ks)]
      BY <2>2, <2>4, ConcatIs
    <3>2. CASE i <= Len(ks)
      BY <2>2, <3>1, <3>2 DEF Weights
    <3>3. CASE ~(i <= Len(ks))
      BY <2>2, <3>1, <3>3 DEF Weights
    <3> QED BY <3>2, <3>3
  <2> QED BY <2>2, <2>4, <2>5, IsConcat
<1> QED BY <1>1, <1>2, WeightsSeq, TotalConcat

\* One more line costs as much more.
LEMMA LinesBytesAppend ==
  ASSUME NEW ls \in Seq(Line), NEW l \in Line
  PROVE  Append(ls, l) \in Seq(Line) /\ LinesBytes(Append(ls, l)) = LinesBytes(ls) + LineBytes(l.text)
<1>1. Append(ls, l) = ls \o <<l>>
  OBVIOUS
<1> QED BY <1>1, LinesBytesConcat, LinesBytesOne

\* Without its first line a sequence costs that much less.
LEMMA LinesBytesTail ==
  ASSUME NEW ls \in Seq(Line), ls # <<>>
  PROVE  Tail(ls) \in Seq(Line) /\ Head(ls) \in Line /\ LinesBytes(ls) = LineBytes(Head(ls).text) + LinesBytes(Tail(ls))
<1>1. ls = <<Head(ls)>> \o Tail(ls) /\ Head(ls) \in Line /\ Tail(ls) \in Seq(Line)
  OBVIOUS
<1>2. LinesBytes(ls) = LinesBytes(<<Head(ls)>>) + LinesBytes(Tail(ls))
  <2>1. <<Head(ls)>> \in Seq(Line)
    BY <1>1
  <2> QED BY <1>1, <2>1, LinesBytesConcat
<1> QED BY <1>1, <1>2, LinesBytesOne

\* FlattenSeq goes through the pieces once.
Flattens(f, xs) == \A i \in 1..Len(xs) : f[i] = IF i = 1 THEN xs[i] ELSE f[i - 1] \o xs[i]

\* There is a table of the texts joined so far.
LEMMA FlattenTable ==
  ASSUME NEW xs \in Seq(Text)
  PROVE  \E f \in [1..Len(xs) -> Text] : Flattens(f, xs)
<1> DEFINE n == Len(xs)
           Upto(f, m) == \A i \in 1..m : f[i] = IF i = 1 THEN xs[i] ELSE f[i - 1] \o xs[i]
           T == {m \in 0..n : \E f \in [1..m -> Text] : Upto(f, m)}
<1>1. n \in Nat /\ \A i \in 1..n : xs[i] \in Text
  OBVIOUS
<1>2. 0 \in T
  <2> DEFINE f == [i \in 1..0 |-> <<>>]
  <2>1. f \in [1..0 -> Text] /\ Upto(f, 0)
    OBVIOUS
  <2>2. 0 \in 0..n
    BY <1>1
  <2> HIDE DEF f, Upto, n
  <2> QED BY <2>1, <2>2
<1>3. ASSUME NEW m \in 0..(n - 1), m \in T PROVE m + 1 \in T
  <2>1. PICK f \in [1..m -> Text] : Upto(f, m)
    BY <1>3
  <2> HIDE DEF n
  <2> DEFINE last == IF m = 0 THEN xs[1] ELSE f[m] \o xs[m + 1]
             g == [i \in 1..(m + 1) |-> IF i = m + 1 THEN last ELSE f[i]]
  <2>2. m \in Nat /\ m + 1 \in 1..n /\ xs[m + 1] \in Text /\ m + 1 \in 0..n
    BY <1>1
  <2>3. last \in Text
    <3>1. CASE m = 0
      BY <2>2, <3>1
    <3>2. CASE m # 0
      <4>1. f[m] \in Text
        BY <2>2, <3>2
      <4> QED BY <2>2, <3>2, <4>1, LineBytesConcat
    <3> QED BY <3>1, <3>2
  <2> HIDE DEF last
  <2>4. g \in [1..(m + 1) -> Text]
    <3>1. ASSUME NEW i \in 1..(m + 1), i # m + 1 PROVE i \in 1..m
      BY <2>2, <3>1
    <3> QED BY <2>3, <3>1
  <2>5. ASSUME NEW i \in 1..(m + 1) PROVE g[i] = IF i = 1 THEN xs[i] ELSE g[i - 1] \o xs[i]
    <3>1. CASE i = m + 1
      <4>1. g[i] = last /\ (i # 1 => i - 1 \in 1..m /\ i - 1 \in 1..(m + 1) /\ i - 1 # m + 1 /\ i - 1 = m)
        BY <2>2, <3>1
      <4>2. i # 1 => g[i - 1] = f[m]
        BY <4>1
      <4>3. i = 1 => m = 0
        BY <2>2, <3>1
      <4>4. i # 1 => m # 0
        BY <2>2, <3>1
      <4> QED BY <3>1, <4>1, <4>2, <4>3, <4>4 DEF last
    <3>2. CASE i # m + 1
      <4>1. i \in 1..m /\ (i # 1 => i - 1 \in 1..(m + 1) /\ i - 1 # m + 1)
        BY <2>2, <3>2
      <4>2. g[i] = f[i] /\ (i # 1 => g[i - 1] = f[i - 1])
        BY <3>2, <4>1
      <4> QED BY <2>1, <4>1, <4>2
    <3> QED BY <3>1, <3>2
  <2> HIDE DEF g
  <2>6. Upto(g, m + 1)
    BY <2>5
  <2> HIDE DEF Upto
  <2> QED BY <2>2, <2>4, <2>6
<1> HIDE DEF T
<1>4. n \in T
  <2> HIDE DEF n
  <2>1. \A i \in 0..n : i \in T
    BY <1>1, <1>2, <1>3, Reaches
  <2> QED BY <1>1, <2>1
<1>5. \E f \in [1..n -> Text] : Upto(f, n)
  BY <1>4 DEF T
<1> QED BY <1>5 DEF Flattens

\* FlattenSeq is the last text of such a table.
LEMMA FlattenIs ==
  ASSUME NEW xs \in Seq(Text), xs # <<>>
  PROVE  \E f \in [1..Len(xs) -> Text] : Flattens(f, xs) /\ FlattenSeq(xs) = f[Len(xs)]
<1>1. PICK h \in [1..Len(xs) -> Text] : Flattens(h, xs)
  BY FlattenTable
<1>2. h = [i \in 1..Len(xs) |-> IF i = 1 THEN xs[i] ELSE h[i - 1] \o xs[i]]
  BY <1>1 DEF Flattens
<1>3. Len(xs) # 0
  OBVIOUS
<1>4. PICK f : /\ f = [i \in 1..Len(xs) |-> IF i = 1 THEN xs[i] ELSE f[i - 1] \o xs[i]]
               /\ FlattenSeq(xs) = f[Len(xs)]
  BY <1>2, <1>3, Zenon DEF FlattenSeq
<1>5. Flattens(f, xs)
  BY <1>4, Zenon DEF Flattens
<1> DEFINE n == Len(xs)
           T == {i \in 0..n : i = 0 \/ f[i] \in Text}
<1>6. n \in Nat /\ \A i \in 1..n : xs[i] \in Text
  OBVIOUS
<1>7. \A i \in 0..n : i \in T
  <2>1. 0 \in T
    BY <1>6
  <2>2. ASSUME NEW i \in 0..(n - 1), i \in T PROVE i + 1 \in T
    <3>1. i + 1 \in 1..n /\ i + 1 \in 0..n /\ i \in Nat /\ (i + 1) - 1 = i /\ (i + 1 = 1 => i = 0) /\ xs[i + 1] \in Text
      BY <1>6
    <3>2. f[i + 1] = IF i + 1 = 1 THEN xs[i + 1] ELSE f[i] \o xs[i + 1]
      BY <1>5, <3>1 DEF Flattens
    <3>3. i # 0 => i + 1 # 1
      BY <3>1
    <3>4. f[i + 1] \in Text
      <4>1. CASE i = 0
        BY <3>1, <3>2, <4>1
      <4>2. CASE i # 0
        BY <2>2, <3>1, <3>2, <3>3, <4>2, LineBytesConcat
      <4> QED BY <4>1, <4>2
    <3> QED BY <3>1, <3>4
  <2> HIDE DEF T, n
  <2> QED BY <1>6, <2>1, <2>2, Reaches
<1>8. \A i \in 1..n : f[i] \in Text
  BY <1>6, <1>7
<1>9. f \in [1..n -> Text]
  BY <1>4, <1>8
<1> QED BY <1>4, <1>5, <1>9

\* Lines joined are a line, with the number of the first, that costs what they do one
\* by one.
LEMMA JoinedBytes ==
  ASSUME NEW ls \in Seq(Line), ls # <<>>
  PROVE  /\ Joined(ls) \in Line /\ Joined(ls).num = ls[1].num
         /\ LineBytes(Joined(ls).text) = LinesBytes(ls)
<1> DEFINE n == Len(ls)
           xs == [i \in DOMAIN ls |-> ls[i].text]
<1>1. n \in Nat /\ n >= 1 /\ 1 \in 1..n /\ DOMAIN ls = 1..n /\ \A i \in 1..n : ls[i] \in Line
  OBVIOUS
<1>2. \A i \in 1..n : ls[i].text \in Text /\ ls[i].num \in Nat
  BY <1>1 DEF Line
<1>3. xs \in [1..n -> Text]
  BY <1>1, <1>2
<1>4. xs \in Seq(Text) /\ Len(xs) = n /\ xs # <<>>
  <2>1. xs \in Seq(Text) /\ Len(xs) = n
    BY <1>1, <1>3, OfLength
  <2> QED BY <1>1, <2>1
<1>5. \A i \in 1..n : xs[i] = ls[i].text
  BY <1>1
<1>6. Joined(ls).text = FlattenSeq(xs) /\ Joined(ls) = [text |-> FlattenSeq(xs), num |-> ls[1].num]
  BY DEF Joined
<1> HIDE DEF xs
<1>7. PICK f \in [1..n -> Text] : Flattens(f, xs) /\ FlattenSeq(xs) = f[n]
  BY <1>4, FlattenIs
<1>8. PICK g : AddsUp(g, Weights(ls))
  BY WeightsSeq, TotalTable
<1>9. /\ \A i \in 0..n : g[i] \in Nat
      /\ g[0] = 0 /\ g[n] = LinesBytes(ls)
      /\ \A i \in 0..(n - 1) : g[i + 1] = g[i] + Weights(ls)[i + 1]
  BY <1>8, WeightsSeq DEF AddsUp
<1> HIDE DEF n
<1> DEFINE T == {i \in 0..n : i = 0 \/ LineBytes(f[i]) = g[i]}
<1>10. \A i \in 0..n : i \in T
  <2>1. 0 \in T
    BY <1>1
  <2>2. ASSUME NEW i \in 0..(n - 1), i \in T PROVE i + 1 \in T
    <3>1. i + 1 \in 1..n /\ i + 1 \in 0..n /\ i \in 0..n /\ i \in Nat /\ (i + 1) - 1 = i /\ xs[i + 1] \in Text
      BY <1>1, <1>2, <1>5
    <3>2. f[i + 1] = IF i + 1 = 1 THEN xs[i + 1] ELSE f[i] \o xs[i + 1]
      BY <1>4, <1>7, <3>1 DEF Flattens
    <3>3. Weights(ls)[i + 1] = LineBytes(xs[i + 1]) /\ LineBytes(xs[i + 1]) \in Nat
      BY <1>1, <1>5, <3>1, LineBytesNat DEF Weights
    <3>4. g[i + 1] = g[i] + LineBytes(xs[i + 1])
      BY <1>9, <3>3
    <3>5. LineBytes(f[i + 1]) = g[i + 1]
      <4>1. CASE i = 0
        <5>1. f[i + 1] = xs[i + 1] /\ g[i] = 0
          BY <1>9, <3>2, <4>1
        <5> QED BY <3>3, <3>4, <5>1
      <4>2. CASE i # 0
        <5>1. i \in 1..n /\ i + 1 # 1
          BY <3>1, <4>2
        <5>2. f[i + 1] = f[i] \o xs[i + 1] /\ f[i] \in Text /\ LineBytes(f[i]) = g[i]
          BY <2>2, <3>2, <4>2, <5>1
        <5> QED BY <3>1, <3>4, <5>2, LineBytesConcat
      <4> QED BY <4>1, <4>2
    <3> QED BY <3>1, <3>5
  <2> HIDE DEF T
  <2> QED BY <1>1, <2>1, <2>2, Reaches
<1>11. LineBytes(f[n]) = g[n] /\ f[n] \in Text
  BY <1>1, <1>10
<1> QED BY <1>2, <1>1, <1>6, <1>7, <1>9, <1>11 DEF Line

-----------------------------------------------------------------------------
(* The streamer, and one part of it.                                      *)

\* The streamer, by type.
Lines == Seq(Line)
Rec == [under : Lines, lines : Lines]
Sub == [header : Lines, first : Lines, body : BOOLEAN, group : Lines]
Region == [started : BOOLEAN, done : BOOLEAN, skipped : Nat, taken : Nat]
Fates == UNION {[D -> [pending : Int, read : BOOLEAN]] : D \in SUBSET Nat}

Streamer(d) ==
  [csvRec : Lines, folding : Lines, empty : Lines, text : BOOLEAN, sel : Region,
   subs : [DOMAIN d.parts -> Sub], regions : [DOMAIN d.parts -> Region],
   lines : [DOMAIN d.parts -> Lines], read : [DOMAIN d.parts -> BOOLEAN], fates : Fates,
   held : Int, out : [DOMAIN d.parts -> Seq(Rec)], sent : Nat, stops : Nat,
   err : {"none", "large", "refused", "unread", "emit"}]

\* Nothing changes but parsers, records and the charge.
Rest(t, u) ==
  /\ u.csvRec = t.csvRec /\ u.folding = t.folding /\ u.empty = t.empty /\ u.text = t.text
  /\ u.sel = t.sel /\ u.regions = t.regions /\ u.lines = t.lines /\ u.read = t.read
  /\ u.fates = t.fates /\ u.stops = t.stops

\* A step of part k is not about the other parts, and counts what it sends.
Others(t, u, k) ==
  /\ Rest(t, u)
  /\ \A j \in DOMAIN def.parts : j # k => u.subs[j] = t.subs[j] /\ u.out[j] = t.out[j]
  /\ u.sent - Len(u.out[k]) = t.sent - Len(t.out[k])

\* The bytes a parser holds.
Grouped(t, k) == LinesBytes(t.subs[k].group)

\* A record handed over, or refused, changes only what part k handed over, and is
\* counted (emit).
LEMMA EmitIfIs ==
  ASSUME def \in Definitions, NEW t \in Streamer(def), NEW k \in DOMAIN def.parts, NEW ok, NEW rec \in Rec
  PROVE  LET u == EmitIf(t, k, ok, rec)
         IN /\ u \in Streamer(def) /\ Others(t, u, k)
            /\ u.subs = t.subs /\ u.held = t.held /\ (Ok(t) => u.err # "large")
<1> DEFINE u == EmitIf(t, k, ok, rec)
<1>1. CASE ~ok
  <2>1. u = [t EXCEPT !.err = "refused"]
    BY <1>1 DEF EmitIf, Fail
  <2> HIDE DEF u
  <2>2. u \in Streamer(def)
    BY <2>1 DEF Streamer
  <2>3. Others(t, u, k) /\ u.subs = t.subs /\ u.held = t.held /\ u.err # "large"
    BY <2>1 DEF Streamer, Others, Rest
  <2> QED BY <2>2, <2>3 DEF u
<1>2. CASE ok /\ t.sent + 1 = t.stops
  <2>1. u = [t EXCEPT !.err = "emit"]
    BY <1>2 DEF EmitIf, emit, Fail
  <2> HIDE DEF u
  <2>2. u \in Streamer(def)
    BY <2>1 DEF Streamer
  <2>3. Others(t, u, k) /\ u.subs = t.subs /\ u.held = t.held /\ u.err # "large"
    BY <2>1 DEF Streamer, Others, Rest
  <2> QED BY <2>2, <2>3 DEF u
<1>3. CASE ok /\ t.sent + 1 # t.stops
  <2>1. u = [t EXCEPT !.out[k] = Append(t.out[k], rec), !.sent = t.sent + 1]
    BY <1>3 DEF EmitIf, emit
  <2>2. t.out \in [DOMAIN def.parts -> Seq(Rec)] /\ t.out[k] \in Seq(Rec)
    BY DEF Streamer
  <2>3. Append(t.out[k], rec) \in Seq(Rec) /\ Len(Append(t.out[k], rec)) = Len(t.out[k]) + 1 /\ Len(t.out[k]) \in Nat
    BY <2>2
  <2> HIDE DEF u
  <2>4. u \in Streamer(def)
    <3> DEFINE out == [t.out EXCEPT ![k] = Append(t.out[k], rec)]
    <3>1. out \in [DOMAIN def.parts -> Seq(Rec)]
      BY <2>2, <2>3
    <3>2. u = [t EXCEPT !.out = out, !.sent = t.sent + 1]
      BY <2>1
    <3>3. t.sent + 1 \in Nat
      BY DEF Streamer
    <3> HIDE DEF out
    <3> QED BY <3>1, <3>2, <3>3 DEF Streamer
  <2>5. /\ Rest(t, u) /\ u.subs = t.subs /\ u.held = t.held /\ u.err = t.err
        /\ u.out = [t.out EXCEPT ![k] = Append(t.out[k], rec)] /\ u.sent = t.sent + 1
    BY <2>1 DEF Streamer, Rest
  <2>6. u.out[k] = Append(t.out[k], rec) /\ \A j \in DOMAIN def.parts : j # k => u.out[j] = t.out[j]
    BY <2>2, <2>5
  <2>7. t.sent \in Nat /\ u.sent - Len(u.out[k]) = t.sent - Len(t.out[k])
    BY <2>3, <2>5, <2>6 DEF Streamer
  <2> QED BY <2>4, <2>5, <2>6, <2>7 DEF u, Others, Ok
<1> QED BY <1>1, <1>2, <1>3

Regroup(t, k, g, h) == [t EXCEPT !.subs[k].group = g, !.held = h]

\* Another group for one part.
LEMMA Regrouped ==
  ASSUME def \in Definitions, NEW t \in Streamer(def), NEW k \in DOMAIN def.parts, NEW g \in Lines, NEW h \in Int
  PROVE  LET u == Regroup(t, k, g, h)
         IN /\ u \in Streamer(def) /\ Others(t, u, k) /\ u.out = t.out
            /\ u.subs[k] = [t.subs[k] EXCEPT !.group = g] /\ u.held = h /\ u.err = t.err
<1> DEFINE u == Regroup(t, k, g, h)
<1> DEFINE subs == [t.subs EXCEPT ![k] = [t.subs[k] EXCEPT !.group = g]]
<1>1. t.subs \in [DOMAIN def.parts -> Sub]
  BY DEF Streamer
<1>2. subs \in [DOMAIN def.parts -> Sub]
  <2>1. [t.subs[k] EXCEPT !.group = g] \in Sub
    BY <1>1 DEF Sub
  <2> QED BY <1>1, <2>1
<1>3. u = [t EXCEPT !.subs = subs, !.held = h]
  BY <1>1 DEF Regroup
<1>4. subs[k] = [t.subs[k] EXCEPT !.group = g] /\ \A j \in DOMAIN def.parts : j # k => subs[j] = t.subs[j]
  BY <1>1
<1> HIDE DEF subs, u
<1>5. u \in Streamer(def)
  BY <1>2, <1>3 DEF Streamer
<1>6. Rest(t, u) /\ u.subs = subs /\ u.held = h /\ u.err = t.err /\ u.out = t.out /\ u.sent = t.sent
  BY <1>3 DEF Streamer, Rest
<1> QED BY <1>4, <1>5, <1>6 DEF Others, u

\* What failed is only marked.
LEMMA Failed ==
  ASSUME def \in Definitions, NEW t \in Streamer(def), NEW why \in {"large", "refused", "unread", "emit"}
  PROVE  /\ Fail(t, why) \in Streamer(def) /\ Fail(t, why).err = why
         /\ Rest(t, Fail(t, why)) /\ Fail(t, why).subs = t.subs /\ Fail(t, why).out = t.out
         /\ Fail(t, why).held = t.held /\ Fail(t, why).sent = t.sent
<1>1. Fail(t, why) \in Streamer(def)
  BY DEF Streamer, Fail
<1>2. /\ Fail(t, why).err = why
      /\ Rest(t, Fail(t, why)) /\ Fail(t, why).subs = t.subs /\ Fail(t, why).out = t.out
      /\ Fail(t, why).held = t.held /\ Fail(t, why).sent = t.sent
  BY DEF Streamer, Fail, Rest
<1> QED BY <1>1, <1>2

\* What failed is the same for the other parts.
LEMMA FailedOthers ==
  ASSUME def \in Definitions, NEW t \in Streamer(def), NEW why \in {"large", "refused", "unread", "emit"}, NEW k \in DOMAIN def.parts
  PROVE  Others(t, Fail(t, why), k)
BY Failed DEF Others

\* Two steps of one part are a step of it.
LEMMA OthersTrans ==
  ASSUME NEW t, NEW u, NEW v, NEW k, Others(t, u, k), Others(u, v, k)
  PROVE  Others(t, v, k)
BY DEF Others, Rest

\* What is known of one part.
LEMMA GroupedNat ==
  ASSUME def \in Definitions, NEW t \in Streamer(def), NEW k \in DOMAIN def.parts
  PROVE  /\ t.subs[k] \in Sub /\ t.subs[k].group \in Lines /\ t.subs[k].header \in Lines /\ t.subs[k].first \in Lines
         /\ t.held \in Int /\ Grouped(t, k) \in Nat
<1>1. t.subs[k] \in Sub /\ t.held \in Int
  BY DEF Streamer
<1>2. t.subs[k].group \in Lines /\ t.subs[k].header \in Lines /\ t.subs[k].first \in Lines
  BY <1>1 DEF Sub
<1> QED BY <1>1, <1>2, LinesBytesNat DEF Grouped, Lines

\* A line is charged, and too much is an error (hold.take).
LEMMA TakeIs ==
  ASSUME def \in Definitions, NEW t \in Streamer(def), NEW l \in Line
  PROVE  LET u == take(t, l)
         IN /\ u \in Streamer(def) /\ Rest(t, u) /\ u.subs = t.subs /\ u.out = t.out /\ u.sent = t.sent
            /\ u.held = t.held + LineBytes(l.text)
            /\ u.err = IF u.held > def.limit THEN "large" ELSE t.err
<1> DEFINE h == t.held + LineBytes(l.text)
           v == [t EXCEPT !.held = h]
<1>1. LineBytes(l.text) \in Nat
  <2>1. l.text \in Text
    BY DEF Line
  <2> QED BY <2>1, LineBytesNat
<1>2. h \in Int
  BY <1>1 DEF Streamer
<1>3. take(t, l) = IF v.held > def.limit THEN Fail(v, "large") ELSE v
  BY DEF take
<1> HIDE DEF h
<1>4. v \in Streamer(def)
  BY <1>2 DEF Streamer
<1>5. Rest(t, v) /\ v.subs = t.subs /\ v.out = t.out /\ v.sent = t.sent /\ v.held = h /\ v.err = t.err
  BY DEF Streamer, Rest
<1> HIDE DEF v
<1>6. CASE v.held > def.limit
  BY <1>3, <1>4, <1>5, <1>6, Failed DEF h, Rest
<1>7. CASE ~(v.held > def.limit)
  BY <1>3, <1>4, <1>5, <1>7 DEF h
<1> QED BY <1>6, <1>7

\* A line of b bytes was fed to part k: what is charged changes with what is held, at
\* most by b, and is within the limit or too much.
Fed(t, u, k, b) ==
  /\ Others(t, u, k)
  /\ Ok(u) => /\ u.held - Grouped(u, k) = t.held - Grouped(t, k)
              /\ Grouped(u, k) <= Grouped(t, k) + b
              /\ t.held <= def.limit => u.held <= def.limit
  /\ u.err = "large" => t.held + b > def.limit

\* A line held for a part is charged and goes to its group (Held).
LEMMA HeldIs ==
  ASSUME def \in Definitions, NEW t \in Streamer(def), Ok(t), NEW k \in DOMAIN def.parts, NEW l \in Line
  PROVE  LET u == Held(t, k, l)
         IN /\ u \in Streamer(def) /\ Fed(t, u, k, LineBytes(l.text))
            /\ Ok(u) => u.subs[k] = [t.subs[k] EXCEPT !.group = Append(t.subs[k].group, l)]
<1> DEFINE b == LineBytes(l.text)
           v == take(t, l)
           g == Append(t.subs[k].group, l)
<1>0. b \in Nat
  <2>1. l.text \in Text
    BY DEF Line
  <2> QED BY <2>1, LineBytesNat
<1>1. /\ v \in Streamer(def) /\ Rest(t, v) /\ v.subs = t.subs /\ v.out = t.out /\ v.sent = t.sent
      /\ v.held = t.held + b
      /\ v.err = IF v.held > def.limit THEN "large" ELSE t.err
  BY TakeIs
<1>2. g \in Lines /\ LinesBytes(g) = Grouped(t, k) + b
  BY GroupedNat, LinesBytesAppend DEF Lines, Grouped
<1>3. Held(t, k, l) = IF Ok(v) THEN [v EXCEPT !.subs[k].group = g] ELSE v
  BY <1>1 DEF Held, Then
<1>4. Others(t, v, k)
  BY <1>1 DEF Others
<1>5. v.held \in Int /\ t.held \in Int /\ Grouped(t, k) \in Nat /\ def.limit \in Nat
  BY <1>1, GroupedNat, DefinitionsAssumption
<1> HIDE DEF b, v, g
<1>6. CASE Ok(v)
  <2> DEFINE u == Regroup(v, k, g, v.held)
  <2>1. [v EXCEPT !.subs[k].group = g] = u
    BY <1>1 DEF Streamer, Regroup
  <2>2. /\ u \in Streamer(def) /\ Others(v, u, k) /\ u.out = v.out
        /\ u.subs[k] = [v.subs[k] EXCEPT !.group = g] /\ u.held = v.held /\ u.err = v.err
    BY <1>1, <1>2, <1>5, Regrouped
  <2> HIDE DEF u
  <2>3. Others(t, u, k)
    BY <1>4, <2>2, OthersTrans
  <2>4. t.subs[k] \in Sub
    BY GroupedNat
  <2>5. u.subs[k].group = g
    BY <1>1, <2>2, <2>4 DEF Sub
  <2>6. Grouped(u, k) = Grouped(t, k) + b
    BY <1>2, <2>5 DEF Grouped
  <2>7. u.held <= def.limit /\ u.err = "none"
    BY <1>1, <1>5, <1>6, <2>2 DEF Ok
  <2>8. u.held - Grouped(u, k) = t.held - Grouped(t, k)
    BY <1>0, <1>1, <1>5, <2>2, <2>6
  <2>9. Grouped(u, k) <= Grouped(t, k) + b
    BY <1>0, <1>5, <2>6
  <2>10. Fed(t, u, k, b)
    BY <2>3, <2>7, <2>8, <2>9 DEF Fed
  <2> QED BY <1>1, <1>3, <1>6, <2>1, <2>2, <2>10 DEF b, g
<1>7. CASE ~Ok(v)
  <2>1. v.err = "large" /\ v.held > def.limit
    BY <1>1, <1>7 DEF Ok
  <2>2. Fed(t, v, k, b)
    BY <1>1, <1>4, <2>1 DEF Fed, Ok
  <2> QED BY <1>1, <1>3, <1>7, <2>2 DEF b
<1> QED BY <1>6, <1>7

Resub(t, k, sub) == [t EXCEPT !.subs[k] = sub]

\* Another state for the parser of one part.
LEMMA ResubIs ==
  ASSUME def \in Definitions, NEW t \in Streamer(def), NEW k \in DOMAIN def.parts, NEW sub \in Sub
  PROVE  LET u == Resub(t, k, sub)
         IN /\ u \in Streamer(def) /\ Others(t, u, k) /\ u.out = t.out
            /\ u.subs[k] = sub /\ u.held = t.held /\ u.err = t.err
<1> DEFINE u == Resub(t, k, sub)
<1> DEFINE subs == [t.subs EXCEPT ![k] = sub]
<1>1. t.subs \in [DOMAIN def.parts -> Sub]
  BY DEF Streamer
<1>2. subs \in [DOMAIN def.parts -> Sub]
  BY <1>1
<1>3. u = [t EXCEPT !.subs = subs]
  BY <1>1 DEF Resub
<1>4. subs[k] = sub /\ \A j \in DOMAIN def.parts : j # k => subs[j] = t.subs[j]
  BY <1>1
<1> HIDE DEF subs, u
<1>5. u \in Streamer(def)
  BY <1>2, <1>3 DEF Streamer
<1>6. Rest(t, u) /\ u.subs = subs /\ u.held = t.held /\ u.err = t.err /\ u.out = t.out /\ u.sent = t.sent
  BY <1>3 DEF Streamer, Rest
<1> QED BY <1>4, <1>5, <1>6 DEF Others, u

\* Nothing of the group changes hands.
Passes(t, u, k) ==
  /\ u \in Streamer(def) /\ Others(t, u, k)
  /\ u.subs[k].group = t.subs[k].group /\ u.held = t.held /\ (Ok(t) => u.err # "large")

\* The group is handed on, and uncharged.
Flushed(t, u, k) ==
  /\ u \in Streamer(def) /\ Others(t, u, k)
  /\ u.subs[k].group = <<>> /\ u.held = t.held - Grouped(t, k) /\ (Ok(t) => u.err # "large")

\* A record handed over leaves the groups as they are.
LEMMA EmitPasses ==
  ASSUME def \in Definitions, NEW t \in Streamer(def), NEW k \in DOMAIN def.parts, NEW ok, NEW rec \in Rec
  PROVE  Passes(t, EmitIf(t, k, ok, rec), k)
BY EmitIfIs DEF Passes

\* An error other than of size leaves the groups as they are.
LEMMA FailPasses ==
  ASSUME def \in Definitions, NEW t \in Streamer(def), NEW k \in DOMAIN def.parts, NEW why \in {"refused", "unread", "emit"}
  PROVE  Passes(t, Fail(t, why), k)
<1>1. why \in {"large", "refused", "unread", "emit"} /\ why # "large"
  OBVIOUS
<1> QED BY <1>1, Failed, FailedOthers DEF Passes

\* A parser that keeps its group keeps what is charged.
LEMMA ResubPasses ==
  ASSUME def \in Definitions, NEW t \in Streamer(def), NEW k \in DOMAIN def.parts, NEW sub \in Sub, sub.group = t.subs[k].group
  PROVE  Passes(t, Resub(t, k, sub), k)
BY ResubIs DEF Passes, Ok

\* Nothing at all leaves everything as it is.
LEMMA SamePasses ==
  ASSUME def \in Definitions, NEW t \in Streamer(def), NEW k \in DOMAIN def.parts
  PROVE  Passes(t, t, k)
BY DEF Passes, Others, Rest, Ok

\* One after the other, the second after a state that is not in trouble.
LEMMA PassesTrans ==
  ASSUME def \in Definitions, NEW t \in Streamer(def), NEW u, NEW v, NEW k \in DOMAIN def.parts,
         Passes(t, u, k), Passes(u, v, k), u.err = t.err
  PROVE  Passes(t, v, k)
BY OthersTrans DEF Passes, Ok

\* A group that was handed on stays handed on.
LEMMA FlushedPasses ==
  ASSUME def \in Definitions, NEW t \in Streamer(def), NEW u, NEW v, NEW k \in DOMAIN def.parts,
         Flushed(t, u, k), Passes(u, v, k), u.err = t.err
  PROVE  Flushed(t, v, k)
BY OthersTrans DEF Passes, Flushed, Ok

\* letGo hands the group on and gives back its cost.
LEMMA LetGoFlushed ==
  ASSUME def \in Definitions, NEW t \in Streamer(def), NEW k \in DOMAIN def.parts
  PROVE  Flushed(t, letGo(t, k), k) /\ letGo(t, k).err = t.err
         /\ letGo(t, k).subs[k] = [t.subs[k] EXCEPT !.group = <<>>]
<1>1. letGo(t, k) = Regroup(t, k, <<>>, t.held - Grouped(t, k))
  BY DEF letGo, give, Regroup, Grouped, Streamer
<1>2. <<>> \in Lines /\ t.held - Grouped(t, k) \in Int /\ t.subs[k] \in Sub
  BY GroupedNat DEF Lines
<1>3. [t.subs[k] EXCEPT !.group = <<>>].group = <<>>
  BY <1>2 DEF Sub
<1> DEFINE h == t.held - Grouped(t, k)
           u == Regroup(t, k, <<>>, h)
<1>4. /\ u \in Streamer(def) /\ Others(t, u, k)
      /\ u.subs[k] = [t.subs[k] EXCEPT !.group = <<>>] /\ u.held = h /\ u.err = t.err
  BY <1>2, Regrouped
<1> HIDE DEF u
<1> QED BY <1>1, <1>3, <1>4 DEF Flushed, Ok, u

\* Without a group there is nothing to hand on.
LEMMA SameFlushed ==
  ASSUME def \in Definitions, NEW t \in Streamer(def), NEW k \in DOMAIN def.parts, t.subs[k].group = <<>>
  PROVE  Flushed(t, t, k)
<1>1. Grouped(t, k) = 0 /\ t.held \in Int
  BY LinesBytesNone, GroupedNat DEF Grouped
<1> QED BY <1>1 DEF Flushed, Others, Rest, Ok

\* What leaves the groups as they are charges nothing.
LEMMA PassesFed ==
  ASSUME def \in Definitions, NEW t \in Streamer(def), Ok(t), NEW u, NEW k \in DOMAIN def.parts, NEW b \in Nat, Passes(t, u, k)
  PROVE  Fed(t, u, k, b)
<1>1. Grouped(u, k) = Grouped(t, k) /\ Grouped(t, k) \in Nat
  BY GroupedNat DEF Passes, Grouped
<1> QED BY <1>1 DEF Passes, Fed

\* What hands a group on charges nothing.
LEMMA FlushedFed ==
  ASSUME def \in Definitions, NEW t \in Streamer(def), Ok(t), NEW u, NEW k \in DOMAIN def.parts, NEW b \in Nat, Flushed(t, u, k)
  PROVE  Fed(t, u, k, b)
<1>1. Grouped(u, k) = 0 /\ Grouped(t, k) \in Nat /\ t.held \in Int /\ def.limit \in Nat
  BY GroupedNat, LinesBytesNone, DefinitionsAssumption DEF Flushed, Grouped
<1>2. u.held = t.held - Grouped(t, k)
  BY DEF Flushed
<1>3. t.held <= def.limit => u.held <= def.limit
  BY <1>1, <1>2
<1> QED BY <1>1, <1>2, <1>3 DEF Flushed, Fed

\* A line that is held, and then handed on with its group.
LEMMA FedFlushed ==
  ASSUME def \in Definitions, NEW t \in Streamer(def), Ok(t), NEW v \in Streamer(def), Ok(v), NEW u, NEW k \in DOMAIN def.parts,
         NEW b \in Nat, Fed(t, v, k, b), Flushed(v, u, k)
  PROVE  Fed(t, u, k, b)
<1>1. /\ Grouped(u, k) = 0 /\ Grouped(t, k) \in Nat /\ t.held \in Int /\ def.limit \in Nat
      /\ Grouped(v, k) \in Nat /\ v.held \in Int
  BY GroupedNat, LinesBytesNone, DefinitionsAssumption DEF Flushed, Grouped
<1>2. u.held = v.held - Grouped(v, k) /\ v.held - Grouped(v, k) = t.held - Grouped(t, k)
  BY DEF Flushed, Fed
<1>3. t.held <= def.limit => u.held <= def.limit
  BY <1>1, <1>2
<1>4. Others(t, u, k) /\ u.err # "large"
  BY OthersTrans DEF Fed, Flushed
<1> QED BY <1>1, <1>2, <1>3, <1>4 DEF Fed

\* A group that is handed on, and then a line held.
LEMMA FlushedHeld ==
  ASSUME def \in Definitions, NEW t \in Streamer(def), NEW v \in Streamer(def), NEW u \in Streamer(def), NEW k \in DOMAIN def.parts,
         NEW b \in Nat, Flushed(t, v, k), Fed(v, u, k, b)
  PROVE  Fed(t, u, k, b)
<1>1. /\ Grouped(v, k) = 0 /\ Grouped(t, k) \in Nat /\ t.held \in Int /\ def.limit \in Nat /\ v.held \in Int
      /\ Grouped(u, k) \in Nat
  BY GroupedNat, LinesBytesNone, DefinitionsAssumption DEF Flushed, Grouped
<1>2. v.held = t.held - Grouped(t, k)
  BY DEF Flushed
<1>3. Others(t, u, k)
  BY OthersTrans DEF Fed, Flushed
<1>4. u.err = "large" => t.held + b > def.limit
  BY <1>1, <1>2 DEF Fed
<1>5. ASSUME Ok(u)
      PROVE  /\ u.held - Grouped(u, k) = t.held - Grouped(t, k)
             /\ Grouped(u, k) <= Grouped(t, k) + b
             /\ t.held <= def.limit => u.held <= def.limit
  <2>1. /\ u.held - Grouped(u, k) = v.held - Grouped(v, k)
        /\ Grouped(u, k) <= Grouped(v, k) + b
        /\ v.held <= def.limit => u.held <= def.limit
    BY <1>5 DEF Fed
  <2>2. u.held - Grouped(u, k) = t.held - Grouped(t, k)
    BY <1>1, <1>2, <2>1
  <2>3. t.held <= def.limit => v.held <= def.limit
    BY <1>1, <1>2
  <2> QED BY <1>1, <2>1, <2>2, <2>3
<1> QED BY <1>3, <1>4, <1>5 DEF Fed

\* A record is lines under lines.
LEMMA RecordIs ==
  ASSUME NEW under \in Lines, NEW ls \in Lines
  PROVE  Record(under, ls) \in Rec
BY DEF Record, Rec

\* A line alone.
LEMMA OneLine ==
  ASSUME NEW l \in Line
  PROVE  <<l>> \in Lines /\ <<l>> # <<>> /\ <<>> \in Lines
BY OneIs DEF Lines

\* A table never holds a line back (feedTable).
LEMMA TableFed ==
  ASSUME def \in Definitions, NEW t \in Streamer(def), Ok(t), NEW k \in DOMAIN def.parts, NEW p, NEW l \in Line
  PROVE  Passes(t, feedTable(t, k, p, l), k)
<1> DEFINE first == t.subs[k].first
           u == feedTable(t, k, p, l)
           sub == [t.subs[k] EXCEPT !.header = <<l>>, !.first = IF first = <<>> THEN <<l>> ELSE first]
<1>1. t.subs[k] \in Sub /\ first \in Lines /\ <<l>> \in Lines /\ t.subs[k].header \in Lines
  BY GroupedNat, OneLine
<1>2. sub \in Sub /\ sub.group = t.subs[k].group
  BY <1>1 DEF Sub
<1>3. \/ u = Resub(t, k, sub)
      \/ u = Fail(t, "refused")
      \/ u = EmitIf(t, k, Opens(l, p.reads), Record(t.subs[k].header, <<l>>))
  <2>1. t.subs \in [DOMAIN def.parts -> Sub]
    BY DEF Streamer
  <2> QED BY <2>1 DEF feedTable, Resub
<1>4. Record(t.subs[k].header, <<l>>) \in Rec
  BY <1>1, RecordIs
<1> HIDE DEF u, sub
<1>5. CASE u = Resub(t, k, sub)
  BY <1>2, <1>5, ResubPasses DEF u
<1>6. CASE u = Fail(t, "refused")
  BY <1>6, FailPasses DEF u
<1>7. CASE u = EmitIf(t, k, Opens(l, p.reads), Record(t.subs[k].header, <<l>>))
  BY <1>4, <1>7, EmitPasses DEF u
<1> QED BY <1>3, <1>5, <1>6, <1>7

\* A finished record of a csv is handed over, kept as the header, or refused (emitCSV).
LEMMA CSVEmitted ==
  ASSUME def \in Definitions, NEW t \in Streamer(def), NEW k \in DOMAIN def.parts, NEW p, NEW rec \in Line
  PROVE  Passes(t, emitCSV(t, k, p, rec), k)
<1> DEFINE first == t.subs[k].first
           known == [t EXCEPT !.subs[k].first = IF first = <<>> THEN <<rec>> ELSE first]
           under == IF p.header = "named" THEN <<>> ELSE known.subs[k].first
           u == emitCSV(t, k, p, rec)
           sub == [t.subs[k] EXCEPT !.first = IF first = <<>> THEN <<rec>> ELSE first]
<1>1. t.subs[k] \in Sub /\ first \in Lines /\ <<rec>> \in Lines /\ <<>> \in Lines
  BY GroupedNat, OneLine
<1>2. sub \in Sub /\ sub.group = t.subs[k].group
  BY <1>1 DEF Sub
<1>3. known = Resub(t, k, sub)
  <2>1. t.subs \in [DOMAIN def.parts -> Sub]
    BY DEF Streamer
  <2> QED BY <2>1 DEF Resub
<1>4. \/ u = t
      \/ u = known
      \/ u = Fail(t, "refused")
      \/ u = EmitIf(known, k, Opens(rec, p.reads), Record(under, <<rec>>))
  <2>1. CASE rec.text = <<"">>
    BY <2>1 DEF emitCSV
  <2>2. CASE rec.text # <<"">> /\ ~Closed(rec, p)
    BY <2>2 DEF emitCSV
  <2>3. CASE rec.text # <<"">> /\ Closed(rec, p) /\ p.header = "line" /\ first = <<>>
    BY <2>3 DEF emitCSV
  <2>4. CASE rec.text # <<"">> /\ Closed(rec, p) /\ ~(p.header = "line" /\ first = <<>>)
    BY <2>4 DEF emitCSV
  <2> QED BY <2>1, <2>2, <2>3, <2>4, Zenon
<1> HIDE DEF sub, known
<1>5. Passes(t, known, k) /\ known.err = t.err /\ known.subs[k] = sub
  BY <1>2, <1>3, ResubPasses, ResubIs
<1>6. known \in Streamer(def) /\ known.subs[k].first \in Lines
  BY <1>5, GroupedNat DEF Passes
<1>7. Record(under, <<rec>>) \in Rec
  BY <1>1, <1>6, RecordIs
<1> HIDE DEF under, u
<1>8. CASE u = t
  BY <1>8, SamePasses DEF u
<1>9. CASE u = known
  BY <1>9, <1>5 DEF u
<1>10. CASE u = Fail(t, "refused")
  BY <1>10, FailPasses DEF u
<1>11. CASE u = EmitIf(known, k, Opens(rec, p.reads), Record(under, <<rec>>))
  <2>1. Passes(known, u, k)
    BY <1>6, <1>7, <1>11, EmitPasses
  <2> QED BY <1>5, <2>1, PassesTrans DEF u
<1> QED BY <1>4, <1>8, <1>9, <1>10, <1>11

\* The record that is open is handed on, and given back (flushCSV).
LEMMA CSVFlushed ==
  ASSUME def \in Definitions, NEW t \in Streamer(def), NEW k \in DOMAIN def.parts, NEW p
  PROVE  Flushed(t, flushCSV(t, k, p), k)
<1> DEFINE group == t.subs[k].group
           v == letGo(t, k)
<1>1. CASE group = <<>>
  BY <1>1, SameFlushed DEF flushCSV
<1>2. CASE group # <<>>
  <2>1. Joined(group) \in Line
    BY <1>2, GroupedNat, JoinedBytes DEF Lines
  <2>2. Flushed(t, v, k) /\ v.err = t.err /\ v \in Streamer(def)
    BY LetGoFlushed DEF Flushed
  <2>3. flushCSV(t, k, p) = emitCSV(v, k, p, Joined(group))
    BY <1>2 DEF flushCSV
  <2> HIDE DEF v
  <2>4. Passes(v, flushCSV(t, k, p), k)
    BY <2>1, <2>2, <2>3, CSVEmitted
  <2> QED BY <2>2, <2>4, FlushedPasses
<1> QED BY <1>1, <1>2

\* What a line is.
LEMMA LineNat ==
  ASSUME NEW l \in Line
  PROVE  l.text \in Text /\ l.num \in Nat /\ LineBytes(l.text) \in Nat
BY LineBytesNat DEF Line

\* A line of a csv is charged until its record is closed (feedCSV).
LEMMA CSVFed ==
  ASSUME def \in Definitions, NEW t \in Streamer(def), Ok(t), NEW k \in DOMAIN def.parts, NEW p, NEW l \in Line
  PROVE  feedCSV(t, k, p, l) \in Streamer(def) /\ Fed(t, feedCSV(t, k, p, l), k, LineBytes(l.text))
<1> DEFINE b == LineBytes(l.text)
           v == Held(t, k, l)
           u == feedCSV(t, k, p, l)
<1>0. b \in Nat
  BY LineNat
<1>1. CASE def.csv
  <2>1. u = emitCSV(t, k, p, l)
    BY <1>1 DEF feedCSV
  <2>2. Passes(t, u, k)
    BY <2>1, CSVEmitted
  <2> HIDE DEF u, b
  <2> QED BY <1>0, <2>2, PassesFed DEF u, b, Passes
<1>2. CASE ~def.csv
  <2>1. u = v \/ (Ok(v) /\ u = flushCSV(v, k, p))
    BY <1>2 DEF feedCSV, Then
  <2>2. v \in Streamer(def) /\ Fed(t, v, k, b)
    BY HeldIs
  <2> HIDE DEF u, b, v
  <2>3. CASE u = v
    BY <2>2, <2>3 DEF u, b
  <2>4. CASE Ok(v) /\ u = flushCSV(v, k, p)
    <3>1. Flushed(v, u, k)
      BY <2>2, <2>4, CSVFlushed
    <3> QED BY <1>0, <2>2, <2>4, <3>1, FedFlushed DEF u, b, Flushed
  <2> QED BY <2>1, <2>3, <2>4
<1> QED BY <1>1, <1>2

\* A rule hands the row of a box on, and gives it back (flushBox).
LEMMA BoxFlushed ==
  ASSUME def \in Definitions, NEW t \in Streamer(def), NEW k \in DOMAIN def.parts, NEW p
  PROVE  Flushed(t, flushBox(t, k, p), k)
<1> DEFINE group == t.subs[k].group
           header == t.subs[k].header
           v == letGo(t, k)
           w == [v EXCEPT !.subs[k].body = TRUE]
           x == [v EXCEPT !.subs[k].header = group]
           u == flushBox(t, k, p)
           body == [v.subs[k] EXCEPT !.body = TRUE]
           head == [v.subs[k] EXCEPT !.header = group]
<1>1. group \in Lines /\ header \in Lines
  BY GroupedNat
<1>2. Flushed(t, v, k) /\ v.err = t.err /\ v \in Streamer(def)
  BY LetGoFlushed DEF Flushed
<1>3. \/ group = <<>> /\ u = t
      \/ group # <<>> /\ u = x
      \/ u = Fail(v, "refused")
      \/ u = w
      \/ u = EmitIf(w, k, AllRead(p, group), Record(header, group))
  <2>1. CASE group = <<>>
    BY <2>1 DEF flushBox
  <2>2. CASE group # <<>> /\ header = <<>>
    BY <2>2 DEF flushBox
  <2>3. CASE group # <<>> /\ header # <<>> /\ Texts(group) = Texts(header)
    BY <2>3 DEF flushBox
  <2>4. CASE group # <<>> /\ header # <<>> /\ Texts(group) # Texts(header)
    BY <2>4 DEF flushBox
  <2> QED BY <2>1, <2>2, <2>3, <2>4, Zenon
<1>4. v.subs[k] \in Sub /\ v.subs \in [DOMAIN def.parts -> Sub]
  BY <1>2, GroupedNat DEF Streamer
<1> HIDE DEF v
<1>5. body \in Sub /\ body.group = v.subs[k].group /\ head \in Sub /\ head.group = v.subs[k].group
  BY <1>1, <1>4 DEF Sub
<1>6. w = Resub(v, k, body) /\ x = Resub(v, k, head)
  BY <1>4 DEF Resub
<1> HIDE DEF w, x, body, head, u
<1>7. Passes(v, w, k) /\ w.err = v.err /\ Passes(v, x, k) /\ x.err = v.err
  BY <1>2, <1>5, <1>6, ResubPasses, ResubIs
<1>8. Flushed(t, w, k) /\ Flushed(t, x, k) /\ w \in Streamer(def) /\ w.err = t.err
  BY <1>2, <1>7, FlushedPasses DEF Passes
<1>9. CASE group = <<>> /\ u = t
  BY <1>9, SameFlushed DEF u
<1>10. CASE u = x \/ u = w
  BY <1>8, <1>10 DEF u
<1>11. CASE u = Fail(v, "refused")
  BY <1>2, <1>11, FailPasses, FlushedPasses DEF u
<1>12. CASE u = EmitIf(w, k, AllRead(p, group), Record(header, group))
  <2>1. Passes(w, u, k)
    BY <1>1, <1>8, <1>12, RecordIs, EmitPasses
  <2> QED BY <1>8, <2>1, FlushedPasses DEF u
<1> QED BY <1>3, <1>9, <1>10, <1>11, <1>12

\* The next line, once it is charged.
Added(v, k, l) == [v EXCEPT !.subs[k].group = Append(@, l)]

\* The next line, once it is charged, begins a group or goes on with it.
LEMMA AddedFed ==
  ASSUME def \in Definitions, NEW t \in Streamer(def), NEW v \in Streamer(def), Ok(v), NEW k \in DOMAIN def.parts, NEW l \in Line,
         Others(t, v, k), v.held - Grouped(v, k) = t.held + LineBytes(l.text) - Grouped(t, k),
         Grouped(v, k) <= Grouped(t, k), v.held <= def.limit
  PROVE  Added(v, k, l) \in Streamer(def) /\ Fed(t, Added(v, k, l), k, LineBytes(l.text))
<1> DEFINE b == LineBytes(l.text)
           g == Append(v.subs[k].group, l)
           u == Regroup(v, k, g, v.held)
<1>1. v.subs[k].group \in Lines /\ v.held \in Int /\ t.held \in Int /\ Grouped(v, k) \in Nat /\ Grouped(t, k) \in Nat /\ b \in Nat
  BY GroupedNat, LineNat
<1>2. g \in Lines /\ LinesBytes(g) = Grouped(v, k) + b
  BY <1>1, LinesBytesAppend DEF Lines, Grouped
<1>3. Added(v, k, l) = u
  BY DEF Streamer, Regroup, Added
<1> HIDE DEF g
<1>4. /\ u \in Streamer(def) /\ Others(v, u, k)
      /\ u.subs[k] = [v.subs[k] EXCEPT !.group = g] /\ u.held = v.held /\ u.err = v.err
  BY <1>1, <1>2, Regrouped
<1> HIDE DEF u, g, b
<1>5. u.subs[k].group = g /\ v.subs[k] \in Sub
  BY <1>4, GroupedNat DEF Sub
<1>6. Grouped(u, k) = Grouped(v, k) + b
  BY <1>2, <1>5 DEF Grouped
<1>7. v.held - Grouped(v, k) = t.held + b - Grouped(t, k)
  BY DEF b
<1>8. /\ u.held - Grouped(u, k) = t.held - Grouped(t, k)
      /\ Grouped(u, k) <= Grouped(t, k) + b
  BY <1>1, <1>4, <1>6, <1>7
<1>9. Others(t, u, k)
  BY <1>4, OthersTrans
<1>10. Fed(t, u, k, b)
  BY <1>4, <1>8, <1>9 DEF Fed, Ok
<1> QED BY <1>3, <1>4, <1>10 DEF b

\* A line of a box is charged until its row is (feedBox).
LEMMA BoxFed ==
  ASSUME def \in Definitions, NEW t \in Streamer(def), Ok(t), NEW k \in DOMAIN def.parts, NEW p, NEW l \in Line
  PROVE  feedBox(t, k, p, l) \in Streamer(def) /\ Fed(t, feedBox(t, k, p, l), k, LineBytes(l.text))
<1> DEFINE b == LineBytes(l.text)
           v == take(t, l)
           w == flushBox(v, k, p)
           u == feedBox(t, k, p, l)
<1>0. b \in Nat
  BY LineNat
<1>1. \/ u = Fail(t, "refused")
      \/ u = flushBox(t, k, p)
      \/ u = v /\ ~Ok(v)
      \/ Ok(v) /\ u = Added(v, k, l)
      \/ Ok(v) /\ Ok(w) /\ u = Added(w, k, l)
      \/ Ok(v) /\ ~Ok(w) /\ u = w
  BY DEF feedBox, Then, Added, isBoxRule, boxLine, Opens
<1>2. /\ v \in Streamer(def) /\ Rest(t, v) /\ v.subs = t.subs /\ v.out = t.out /\ v.sent = t.sent
      /\ v.held = t.held + b
      /\ v.err = IF v.held > def.limit THEN "large" ELSE t.err
  BY TakeIs
<1>3. Others(t, v, k) /\ Grouped(v, k) = Grouped(t, k)
  BY <1>2 DEF Others, Grouped
<1>4. v.held \in Int /\ t.held \in Int /\ Grouped(t, k) \in Nat /\ def.limit \in Nat
  BY <1>2, GroupedNat, DefinitionsAssumption
<1>5. Flushed(v, w, k) /\ w \in Streamer(def)
  BY <1>2, BoxFlushed DEF Flushed
<1>6. Ok(v) => v.held <= def.limit
  BY <1>2, <1>4 DEF Ok
<1> HIDE DEF u, v, w, b
<1>7. CASE u = Fail(t, "refused")
  BY <1>0, <1>7, FailPasses, PassesFed DEF u, b, Passes
<1>8. CASE u = flushBox(t, k, p)
  BY <1>0, <1>8, BoxFlushed, FlushedFed DEF u, b, Flushed
<1>9. CASE u = v /\ ~Ok(v)
  <2>1. v.held > def.limit
    BY <1>2, <1>9 DEF Ok
  <2>2. Fed(t, v, k, b)
    BY <1>2, <1>3, <1>9, <2>1 DEF Fed
  <2> QED BY <1>2, <1>9, <2>2 DEF u, b
<1>10. CASE Ok(v) /\ u = Added(v, k, l)
  <2>1. v.held - Grouped(v, k) = t.held + LineBytes(l.text) - Grouped(t, k) /\ Grouped(v, k) <= Grouped(t, k)
    <3>1. Grouped(v, k) <= Grouped(t, k)
      BY <1>3, <1>4
    <3>2. v.held - Grouped(v, k) = t.held + b - Grouped(t, k)
      BY <1>0, <1>2, <1>3, <1>4
    <3> QED BY <3>1, <3>2 DEF b
  <2> QED BY <1>2, <1>3, <1>6, <1>10, <2>1, AddedFed DEF u, b
<1>11. CASE Ok(v) /\ Ok(w) /\ u = Added(w, k, l)
  <2>1. Grouped(w, k) = 0 /\ w.held = v.held - Grouped(v, k)
    BY <1>5, LinesBytesNone DEF Flushed, Grouped
  <2>2. w.held - Grouped(w, k) = t.held + LineBytes(l.text) - Grouped(t, k) /\ Grouped(w, k) <= Grouped(t, k)
    BY <1>0, <1>2, <1>3, <1>4, <2>1 DEF b
  <2>3. w.held <= def.limit
    BY <1>3, <1>4, <1>6, <1>11, <2>1
  <2>4. Others(t, w, k)
    BY <1>3, <1>5, OthersTrans DEF Flushed
  <2> QED BY <1>5, <1>11, <2>2, <2>3, <2>4, AddedFed DEF u, b
<1>12. CASE Ok(v) /\ ~Ok(w) /\ u = w
  <2>1. Others(t, w, k) /\ w.err # "large"
    BY <1>3, <1>5, <1>12, OthersTrans DEF Flushed
  <2> QED BY <1>5, <1>12, <2>1 DEF Fed, u, b
<1> QED BY <1>1, <1>7, <1>8, <1>9, <1>10, <1>11, <1>12

\* A block is handed on, and given back (flushBlock).
LEMMA BlockFlushed ==
  ASSUME def \in Definitions, NEW t \in Streamer(def), NEW k \in DOMAIN def.parts, NEW p
  PROVE  Flushed(t, flushBlock(t, k, p), k)
<1> DEFINE group == t.subs[k].group
           v == letGo(t, k)
           u == flushBlock(t, k, p)
<1>1. \/ group = <<>> /\ u = t
      \/ u = Fail(v, "unread")
      \/ u = EmitIf(v, k, AllRead(p, group), Record(<<>>, group))
  <2> DEFINE unread == {i \in DOMAIN group : group[i].num \in Passed(p, group) /\ ~Blank(group[i])}
  <2>1. CASE group = <<>>
    BY <2>1 DEF flushBlock
  <2>2. CASE group # <<>> /\ AllRead(p, group) /\ unread # {}
    BY <2>2 DEF flushBlock
  <2>3. CASE group # <<>> /\ ~(AllRead(p, group) /\ unread # {})
    BY <2>3 DEF flushBlock
  <2> QED BY <2>1, <2>2, <2>3, Zenon
<1>2. Flushed(t, v, k) /\ v.err = t.err /\ v \in Streamer(def)
  BY LetGoFlushed DEF Flushed
<1>3. Record(<<>>, group) \in Rec
  <2>1. <<>> \in Lines /\ group \in Lines
    BY GroupedNat, LinesBytesNone DEF Lines
  <2> QED BY <2>1, RecordIs
<1> HIDE DEF u, v
<1>4. CASE group = <<>> /\ u = t
  BY <1>4, SameFlushed DEF u
<1>5. CASE u = Fail(v, "unread")
  BY <1>2, <1>5, FailPasses, FlushedPasses DEF u
<1>6. CASE u = EmitIf(v, k, AllRead(p, group), Record(<<>>, group))
  <2>1. Passes(v, u, k)
    BY <1>2, <1>3, <1>6, EmitPasses
  <2> QED BY <1>2, <2>1, FlushedPasses DEF u
<1> QED BY <1>1, <1>4, <1>5, <1>6

\* A node is handed on, and given back (flushTree).
LEMMA TreeFlushed ==
  ASSUME def \in Definitions, NEW t \in Streamer(def), NEW k \in DOMAIN def.parts, NEW p
  PROVE  Flushed(t, flushTree(t, k, p), k)
<1> DEFINE group == t.subs[k].group
           v == letGo(t, k)
           u == flushTree(t, k, p)
           fine == AllRead(p, group) /\ treeNodes(p, group)
<1>1. \/ group = <<>> /\ u = t
      \/ u = EmitIf(v, k, fine, Record(<<>>, group))
  BY Zenon DEF flushTree
<1>2. Flushed(t, v, k) /\ v.err = t.err /\ v \in Streamer(def)
  BY LetGoFlushed DEF Flushed
<1>3. Record(<<>>, group) \in Rec
  <2>1. <<>> \in Lines /\ group \in Lines
    BY GroupedNat, LinesBytesNone DEF Lines
  <2> QED BY <2>1, RecordIs
<1> HIDE DEF u, v, fine
<1>4. CASE group = <<>> /\ u = t
  BY <1>4, SameFlushed DEF u
<1>5. CASE u = EmitIf(v, k, fine, Record(<<>>, group))
  <2>1. Passes(v, u, k)
    BY <1>2, <1>3, <1>5, EmitPasses
  <2> QED BY <1>2, <2>1, FlushedPasses DEF u
<1> QED BY <1>1, <1>4, <1>5

\* The block that is opened is held whatever became of the one before it.
Recovered(t) == [t EXCEPT !.err = "none"]

\* A block whose error is put aside.
LEMMA RecoveredIs ==
  ASSUME def \in Definitions, NEW t \in Streamer(def), NEW v, NEW k \in DOMAIN def.parts, Flushed(t, v, k)
  PROVE  Flushed(t, Recovered(v), k) /\ Ok(Recovered(v))
<1>1. v \in Streamer(def)
  BY DEF Flushed
<1>2. Recovered(v) \in Streamer(def)
  BY <1>1 DEF Streamer, Recovered
<1>3. /\ Rest(v, Recovered(v)) /\ Recovered(v).subs = v.subs /\ Recovered(v).out = v.out /\ Recovered(v).sent = v.sent
      /\ Recovered(v).held = v.held /\ Recovered(v).err = "none"
  BY <1>1 DEF Streamer, Recovered, Rest
<1>4. Others(v, Recovered(v), k)
  BY <1>3 DEF Others
<1>5. Others(t, Recovered(v), k)
  BY <1>4, OthersTrans DEF Flushed
<1> QED BY <1>2, <1>3, <1>5 DEF Flushed, Ok

\* The block that is opened is held whatever became of the one before it (feedBlock).
LEMMA BlockOpened ==
  ASSUME def \in Definitions, NEW t \in Streamer(def), Ok(t), NEW v, NEW k \in DOMAIN def.parts, NEW l \in Line, Flushed(t, v, k)
  PROVE  OpenBlock(v, k, l) \in Streamer(def) /\ Fed(t, OpenBlock(v, k, l), k, LineBytes(l.text))
<1> DEFINE b == LineBytes(l.text)
           r == Recovered(v)
           h == Held(r, k, l)
           u == OpenBlock(v, k, l)
<1>0. b \in Nat
  BY LineNat
<1>1. v \in Streamer(def) /\ v.err # "large" /\ v.err \in {"none", "large", "refused", "unread", "emit"}
  BY DEF Flushed, Streamer
<1>2. Flushed(t, r, k) /\ Ok(r) /\ r \in Streamer(def)
  BY RecoveredIs DEF Flushed
<1>3. u = IF Ok(h) THEN Fail(h, v.err) ELSE h
  BY DEF OpenBlock, Recovered
<1> HIDE DEF r
<1>4. h \in Streamer(def) /\ Fed(r, h, k, b)
  BY <1>2, HeldIs
<1> HIDE DEF h, u, b
<1>5. Fed(t, h, k, b)
  BY <1>0, <1>2, <1>4, FlushedHeld
<1>6. CASE ~Ok(h)
  BY <1>3, <1>4, <1>5, <1>6 DEF u, b
<1>7. CASE Ok(h) /\ v.err = "none"
  <2>1. u = h
    BY <1>3, <1>4, <1>7 DEF Fail, Ok, Streamer
  <2> QED BY <1>4, <1>5, <2>1 DEF u, b
<1>8. CASE Ok(h) /\ v.err # "none"
  <2>1. v.err \in {"refused", "unread", "emit"} /\ v.err \in {"large", "refused", "unread", "emit"}
    BY <1>1, <1>8
  <2>2. u \in Streamer(def) /\ u.err = v.err /\ Others(h, u, k)
    BY <1>3, <1>4, <1>8, <2>1, Failed, FailedOthers
  <2>3. Others(t, u, k)
    BY <1>5, <2>2, OthersTrans DEF Fed
  <2>4. ~Ok(u) /\ u.err # "large"
    BY <1>1, <1>8, <2>2 DEF Ok
  <2> QED BY <2>2, <2>3, <2>4 DEF Fed, u, b
<1> QED BY <1>6, <1>7, <1>8

\* A line of a block is charged until the next block opens (feedBlock).
LEMMA BlockFed ==
  ASSUME def \in Definitions, NEW t \in Streamer(def), Ok(t), NEW k \in DOMAIN def.parts, NEW p, NEW l \in Line
  PROVE  feedBlock(t, k, p, l) \in Streamer(def) /\ Fed(t, feedBlock(t, k, p, l), k, LineBytes(l.text))
<1> DEFINE b == LineBytes(l.text)
           u == feedBlock(t, k, p, l)
<1>0. b \in Nat
  BY LineNat
<1>1. \/ u = OpenBlock(flushBlock(t, k, p), k, l)
      \/ u = Fail(t, "refused")
      \/ u = Held(t, k, l)
  BY Zenon DEF feedBlock
<1> HIDE DEF u, b
<1>2. CASE u = OpenBlock(flushBlock(t, k, p), k, l)
  BY <1>2, BlockFlushed, BlockOpened DEF u, b
<1>3. CASE u = Fail(t, "refused")
  BY <1>0, <1>3, FailPasses, PassesFed DEF u, b, Passes
<1>4. CASE u = Held(t, k, l)
  <2>1. Held(t, k, l) \in Streamer(def) /\ Fed(t, Held(t, k, l), k, b)
    BY HeldIs DEF b
  <2> QED BY <1>4, <2>1 DEF u, b
<1> QED BY <1>1, <1>2, <1>3, <1>4

\* A line of a node is charged until the next node opens (feedTree).
LEMMA TreeFed ==
  ASSUME def \in Definitions, NEW t \in Streamer(def), Ok(t), NEW k \in DOMAIN def.parts, NEW p, NEW l \in Line
  PROVE  feedTree(t, k, p, l) \in Streamer(def) /\ Fed(t, feedTree(t, k, p, l), k, LineBytes(l.text))
<1> DEFINE b == LineBytes(l.text)
           v == flushTree(t, k, p)
           u == feedTree(t, k, p, l)
<1>0. b \in Nat
  BY LineNat
<1>1. \/ u = v /\ ~Ok(v)
      \/ Ok(v) /\ u = Held(v, k, l)
      \/ u = Fail(t, "refused")
      \/ u = Held(t, k, l)
  <2>1. CASE treeDepth(p, l) = 0
    BY <2>1 DEF feedTree, Then
  <2>2. CASE treeDepth(p, l) # 0 /\ t.subs[k].group = <<>>
    BY <2>2 DEF feedTree
  <2>3. CASE treeDepth(p, l) # 0 /\ t.subs[k].group # <<>>
    BY <2>3 DEF feedTree
  <2> QED BY <2>1, <2>2, <2>3, Zenon
<1>2. Flushed(t, v, k) /\ v \in Streamer(def)
  BY TreeFlushed DEF Flushed
<1> HIDE DEF u, b, v
<1>3. CASE u = v /\ ~Ok(v)
  BY <1>0, <1>2, <1>3, FlushedFed DEF u, b
<1>4. CASE Ok(v) /\ u = Held(v, k, l)
  <2>1. u \in Streamer(def) /\ Fed(v, u, k, b)
    BY <1>2, <1>4, HeldIs DEF b
  <2> QED BY <1>0, <1>2, <2>1, FlushedHeld DEF u, b
<1>5. CASE u = Fail(t, "refused")
  BY <1>0, <1>5, FailPasses, PassesFed DEF u, b, Passes
<1>6. CASE u = Held(t, k, l)
  <2>1. Held(t, k, l) \in Streamer(def) /\ Fed(t, Held(t, k, l), k, b)
    BY HeldIs DEF b
  <2> QED BY <1>6, <2>1 DEF u, b
<1> QED BY <1>1, <1>3, <1>4, <1>5, <1>6

\* Whatever the parser, a line is charged as long as it is held (feedRecord).
LEMMA OneFed ==
  ASSUME def \in Definitions, NEW t \in Streamer(def), Ok(t), NEW k \in DOMAIN def.parts, NEW p, p.type \in Types \ {"single"}, NEW l \in Line
  PROVE  feedOne(t, k, p, l) \in Streamer(def) /\ Fed(t, feedOne(t, k, p, l), k, LineBytes(l.text))
<1> DEFINE b == LineBytes(l.text)
           u == feedOne(t, k, p, l)
<1>0. b \in Nat
  BY LineNat
<1>1. \/ u = EmitIf(t, k, Opens(l, p.reads), Record(<<>>, <<l>>))
      \/ u = feedTable(t, k, p, l)
      \/ u = feedCSV(t, k, p, l)
      \/ u = feedBox(t, k, p, l)
      \/ u = feedBlock(t, k, p, l)
      \/ u = feedTree(t, k, p, l)
  BY DEF feedOne, Types
<1>2. Record(<<>>, <<l>>) \in Rec
  BY OneLine, RecordIs
<1> HIDE DEF u, b
<1>3. CASE u = EmitIf(t, k, Opens(l, p.reads), Record(<<>>, <<l>>))
  BY <1>0, <1>2, <1>3, EmitPasses, PassesFed DEF u, b, Passes
<1>4. CASE u = feedTable(t, k, p, l)
  BY <1>0, <1>4, TableFed, PassesFed DEF u, b, Passes
<1>5. CASE u = feedCSV(t, k, p, l)
  BY <1>5, CSVFed DEF u, b
<1>6. CASE u = feedBox(t, k, p, l)
  BY <1>6, BoxFed DEF u, b
<1>7. CASE u = feedBlock(t, k, p, l)
  BY <1>7, BlockFed DEF u, b
<1>8. CASE u = feedTree(t, k, p, l)
  BY <1>8, TreeFed DEF u, b
<1> QED BY <1>1, <1>3, <1>4, <1>5, <1>6, <1>7, <1>8

\* The end of the lines hands on what is held (finish).
LEMMA PartFinished ==
  ASSUME def \in Definitions, NEW t \in Streamer(def), Ok(t), NEW k \in DOMAIN def.parts, NEW p
  PROVE  finishPart(t, k, p) \in Streamer(def) /\ Fed(t, finishPart(t, k, p), k, 0)
<1> DEFINE v == flushBox(t, k, p)
           u == finishPart(t, k, p)
<1>1. \/ u = v
      \/ u = Fail(v, "refused") /\ Ok(v)
      \/ u = flushTree(t, k, p)
      \/ u = flushCSV(t, k, p)
      \/ u = flushBlock(t, k, p)
      \/ u = t
  <2>1. CASE p.type = "box"
    BY <2>1 DEF finishPart, Then
  <2>2. CASE p.type = "tree"
    BY <2>2 DEF finishPart
  <2>3. CASE p.type = "csv"
    BY <2>3 DEF finishPart
  <2>4. CASE p.type = "records"
    BY <2>4 DEF finishPart
  <2>5. CASE p.type \notin {"box", "tree", "csv", "records"}
    BY <2>5 DEF finishPart
  <2> QED BY <2>1, <2>2, <2>3, <2>4, <2>5
<1>2. Flushed(t, v, k) /\ v \in Streamer(def)
  BY BoxFlushed DEF Flushed
<1> HIDE DEF u, v
<1>3. CASE Flushed(t, u, k)
  BY <1>3, FlushedFed, 0 \in Nat DEF u, Flushed
<1>4. CASE u = Fail(v, "refused") /\ Ok(v)
  <2>1. Others(t, v, k)
    BY <1>2 DEF Flushed
  <2>2. u \in Streamer(def) /\ Others(v, u, k) /\ u.err = "refused"
    BY <1>2, <1>4, Failed, FailedOthers
  <2>3. Others(t, u, k)
    BY <2>1, <2>2, OthersTrans
  <2> QED BY <2>2, <2>3 DEF Fed, Ok, u
<1>5. CASE u = t
  BY <1>5, SamePasses, PassesFed, 0 \in Nat DEF u
<1> QED BY <1>1, <1>2, <1>3, <1>4, <1>5, TreeFlushed, CSVFlushed, BlockFlushed

-----------------------------------------------------------------------------
(* The books of all the parts.                                            *)

\* The bytes a part holds, and those before the parsers.
Load(t, k) == LinesBytes(t.subs[k].group) + LinesBytes(t.lines[k])

FrontBytes(t) == LinesBytes(t.csvRec) + LinesBytes(t.folding) + LinesBytes(t.empty)

Loads(d, t) == [k \in DOMAIN d.parts |-> Load(t, k)]

Sents(d, t) == [k \in DOMAIN d.parts |-> Len(t.out[k])]

\* No part, with what is before the parsers, holds more than B bytes.
Fits(d, t, B) == \A k \in DOMAIN d.parts : FrontBytes(t) + Load(t, k) <= B

\* Several parts may hold the same lines: only the bytes of all of them may be too
\* much.
Overrun(d, B) == Cardinality(DOMAIN d.parts) * B > d.limit

\* What is held is what is charged.
Charged(d, t) == t.held = FrontBytes(t) + Total(Loads(d, t)) /\ t.held <= d.limit

\* The books of a streamer that was given B bytes.
Books(d, t, B) ==
  /\ t \in Streamer(d)
  /\ t.sent = Total(Sents(d, t))
  /\ t.err = "large" => Overrun(d, B)
  /\ Ok(t) => Charged(d, t) /\ Fits(d, t, B)

\* Nothing changes before the parsers.
SameFront(t, u) == u.csvRec = t.csvRec /\ u.folding = t.folding /\ u.empty = t.empty

\* A step of part k, which is given b bytes.
Step(t, u, k, b) ==
  /\ SameFront(t, u)
  /\ \A j \in DOMAIN def.parts : j # k => Load(u, j) = Load(t, j) /\ u.lines[j] = t.lines[j] /\ u.out[j] = t.out[j]
  /\ u.sent - Len(u.out[k]) = t.sent - Len(t.out[k])
  /\ Ok(u) => /\ u.held - Load(u, k) = t.held - Load(t, k)
              /\ Load(u, k) <= Load(t, k) + b
              /\ t.held <= def.limit => u.held <= def.limit
  /\ u.err = "large" => t.held + b > def.limit

\* A definition has parts, and as many as there are.
LEMMA PartsAre ==
  ASSUME def \in Definitions
  PROVE  /\ Len(def.parts) \in Nat /\ Len(def.parts) >= 1 /\ DOMAIN def.parts = 1..Len(def.parts)
         /\ Cardinality(DOMAIN def.parts) = Len(def.parts) /\ IsFiniteSet(DOMAIN def.parts)
         /\ def.limit \in Nat
<1>1. def.parts # <<>> /\ def.parts \in Seq({def.parts[k] : k \in DOMAIN def.parts}) /\ def.limit \in Nat
  BY DefinitionsAssumption
<1>2. Len(def.parts) \in Nat /\ Len(def.parts) >= 1 /\ DOMAIN def.parts = 1..Len(def.parts)
  <2> DEFINE S == {def.parts[k] : k \in DOMAIN def.parts}
  <2> HIDE DEF S
  <2>1. def.parts \in Seq(S)
    BY <1>1 DEF S
  <2> QED BY <1>1, <2>1
<1>3. Cardinality(1..Len(def.parts)) = Len(def.parts) /\ IsFiniteSet(1..Len(def.parts))
  <2>1. /\ 1 \in Int /\ Len(def.parts) \in Int
        /\ (IF 1 > Len(def.parts) THEN 0 ELSE Len(def.parts) - 1 + 1) = Len(def.parts)
    BY <1>2
  <2>2. IsFiniteSet(1..Len(def.parts)) /\ Cardinality(1..Len(def.parts)) = IF 1 > Len(def.parts) THEN 0 ELSE Len(def.parts) - 1 + 1
    BY <2>1, FS_Interval
  <2> QED BY <2>1, <2>2
<1> QED BY <1>1, <1>2, <1>3

\* What one part holds is a number of bytes.
LEMMA LoadNat ==
  ASSUME def \in Definitions, NEW t \in Streamer(def), NEW k \in DOMAIN def.parts
  PROVE  /\ t.lines[k] \in Lines /\ Load(t, k) \in Nat /\ Load(t, k) = Grouped(t, k) + LinesBytes(t.lines[k])
         /\ LinesBytes(t.lines[k]) \in Nat /\ FrontBytes(t) \in Nat /\ t.out[k] \in Seq(Rec) /\ Len(t.out[k]) \in Nat
<1>1. t.lines[k] \in Lines /\ t.out[k] \in Seq(Rec) /\ t.csvRec \in Lines /\ t.folding \in Lines /\ t.empty \in Lines
  BY DEF Streamer
<1>2. LinesBytes(t.lines[k]) \in Nat /\ LinesBytes(t.csvRec) \in Nat /\ LinesBytes(t.folding) \in Nat /\ LinesBytes(t.empty) \in Nat
  BY <1>1, LinesBytesNat DEF Lines
<1>3. Grouped(t, k) \in Nat
  BY GroupedNat
<1>4. Len(t.out[k]) \in Nat
  BY <1>1
<1> QED BY <1>1, <1>2, <1>3, <1>4 DEF Load, FrontBytes, Grouped

\* What the parts hold and have handed over, as sequences of numbers.
LEMMA LoadsAre ==
  ASSUME def \in Definitions, NEW t \in Streamer(def)
  PROVE  /\ Loads(def, t) \in Seq(Nat) /\ Len(Loads(def, t)) = Len(def.parts)
         /\ Sents(def, t) \in Seq(Nat) /\ Len(Sents(def, t)) = Len(def.parts)
         /\ \A k \in DOMAIN def.parts : Loads(def, t)[k] = Load(t, k) /\ Sents(def, t)[k] = Len(t.out[k])
         /\ Total(Loads(def, t)) \in Nat /\ Total(Sents(def, t)) \in Nat /\ FrontBytes(t) \in Nat /\ t.sent \in Nat /\ t.held \in Int
<1>1. Loads(def, t) \in [1..Len(def.parts) -> Nat]
  BY PartsAre, LoadNat DEF Loads
<1>2. Sents(def, t) \in [1..Len(def.parts) -> Nat]
  BY PartsAre, LoadNat DEF Sents
<1>3. Loads(def, t) \in Seq(Nat) /\ Len(Loads(def, t)) = Len(def.parts) /\ Sents(def, t) \in Seq(Nat) /\ Len(Sents(def, t)) = Len(def.parts)
  BY <1>1, <1>2, PartsAre, OfLength
<1>4. \A k \in DOMAIN def.parts : Loads(def, t)[k] = Load(t, k) /\ Sents(def, t)[k] = Len(t.out[k])
  BY DEF Loads, Sents
<1>5. FrontBytes(t) \in Nat
  <2>1. 1 \in DOMAIN def.parts
    BY PartsAre
  <2> QED BY <2>1, LoadNat
<1>6. t.sent \in Nat /\ t.held \in Int
  BY DEF Streamer
<1> QED BY <1>3, <1>4, <1>5, <1>6, TotalNat

\* Bytes shared n times are at most n times the bytes.
LEMMA Scales ==
  ASSUME NEW n \in Nat, n >= 1, NEW f \in Nat, NEW B \in Nat, f <= B, NEW x \in Nat, x <= n * (B - f)
  PROVE  f + x <= n * B
<1>1. n * (B - f) = n * B - n * f /\ n * f \in Nat /\ n * B \in Nat
  OBVIOUS
<1>2. n * f >= f
  <2>1. n * f = (n - 1) * f + f /\ (n - 1) * f \in Nat
    OBVIOUS
  <2> QED BY <2>1, <1>1
<1> QED BY <1>1, <1>2

\* A line that is too much for the bound, though every part has room for it, is so
\* because several parts hold the same lines.
LEMMA TooMuch ==
  ASSUME def \in Definitions, NEW t \in Streamer(def), NEW k \in DOMAIN def.parts, NEW b \in Nat, NEW B \in Nat,
         Fits(def, t, B), FrontBytes(t) + Load(t, k) + b <= B,
         t.held = FrontBytes(t) + Total(Loads(def, t)), t.held + b > def.limit
  PROVE  Overrun(def, B)
<1> DEFINE n == Len(def.parts)
           ms == Loads(def, t)
           ns == [ms EXCEPT ![k] = ms[k] + b]
           f == FrontBytes(t)
<1>1. /\ n \in Nat /\ n >= 1 /\ DOMAIN def.parts = 1..n /\ ms \in Seq(Nat) /\ Len(ms) = n /\ f \in Nat
      /\ k \in 1..n /\ \A j \in 1..n : ms[j] = Load(t, j) /\ ms[j] \in Nat
  BY PartsAre, LoadsAre, LoadNat
<1>2. ns \in [1..n -> Nat]
  BY <1>1
<1>3. ns \in Seq(Nat) /\ Len(ns) = n
  BY <1>1, <1>2, OfLength
<1>4. ns[k] = ms[k] + b /\ \A j \in 1..n : j # k => ms[j] = ns[j]
  BY <1>1
<1> HIDE DEF ns, ms, f, n
<1>5. Total(ms) - ms[k] = Total(ns) - ns[k]
  BY <1>1, <1>3, <1>4, TotalChanged
<1>6. Total(ms) \in Nat /\ Total(ns) \in Nat /\ ms[k] \in Nat
  BY <1>1, <1>3, TotalNat
<1>7. Total(ns) = Total(ms) + b
  BY <1>4, <1>5, <1>6
<1>8. f <= B /\ B - f \in Nat
  BY <1>1 DEF Fits, f
<1>9. \A j \in 1..Len(ns) : ns[j] <= B - f
  <2> SUFFICES ASSUME NEW j \in 1..n PROVE ns[j] <= B - f
    BY <1>3
  <2>1. ms[j] = Load(t, j) /\ ms[j] \in Nat
    BY <1>1
  <2>2. CASE j = k
    BY <1>1, <1>4, <2>1, <2>2 DEF f
  <2>3. CASE j # k
    <3>1. f + Load(t, j) <= B
      BY <1>1 DEF Fits, f
    <3> QED BY <1>1, <1>4, <2>1, <2>3, <3>1
  <2> QED BY <2>2, <2>3
<1>10. Total(ns) <= n * (B - f)
  BY <1>3, <1>8, <1>9, TotalBound
<1>11. f + Total(ns) <= n * B
  BY <1>1, <1>6, <1>8, <1>10, Scales
<1>12. t.held + b = f + Total(ns)
  BY <1>1, <1>6, <1>7 DEF f, ms
<1>13. n * B \in Nat /\ def.limit \in Nat /\ Cardinality(DOMAIN def.parts) = n
  BY <1>1, PartsAre DEF n
<1>14. n * B > def.limit
  BY <1>1, <1>6, <1>11, <1>12, <1>13
<1> QED BY <1>13, <1>14 DEF Overrun

\* A step of one part, which has room for what it takes, keeps the books.
LEMMA StepBooks ==
  ASSUME def \in Definitions, NEW t, NEW u \in Streamer(def), NEW k \in DOMAIN def.parts, NEW b \in Nat, NEW B \in Nat,
         Books(def, t, B), Ok(t), FrontBytes(t) + Load(t, k) + b <= B, Step(t, u, k, b)
  PROVE  Books(def, u, B)
<1> DEFINE n == Len(def.parts)
<1>1. t \in Streamer(def) /\ t.sent = Total(Sents(def, t)) /\ t.held = FrontBytes(t) + Total(Loads(def, t)) /\ t.held <= def.limit /\ Fits(def, t, B)
  BY DEF Books, Charged
<1>2. n \in Nat /\ DOMAIN def.parts = 1..n /\ k \in 1..n
  BY PartsAre
<1>3. /\ Loads(def, t) \in Seq(Nat) /\ Len(Loads(def, t)) = n /\ Loads(def, u) \in Seq(Nat) /\ Len(Loads(def, u)) = n
      /\ Sents(def, t) \in Seq(Nat) /\ Len(Sents(def, t)) = n /\ Sents(def, u) \in Seq(Nat) /\ Len(Sents(def, u)) = n
      /\ \A j \in DOMAIN def.parts : Loads(def, t)[j] = Load(t, j) /\ Sents(def, t)[j] = Len(t.out[j])
      /\ \A j \in DOMAIN def.parts : Loads(def, u)[j] = Load(u, j) /\ Sents(def, u)[j] = Len(u.out[j])
      /\ Total(Loads(def, t)) \in Nat /\ Total(Sents(def, t)) \in Nat /\ FrontBytes(t) \in Nat /\ t.sent \in Nat /\ t.held \in Int
      /\ Total(Loads(def, u)) \in Nat /\ Total(Sents(def, u)) \in Nat /\ FrontBytes(u) \in Nat /\ u.sent \in Nat /\ u.held \in Int
  BY <1>1, LoadsAre
<1>4. Load(t, k) \in Nat /\ Load(u, k) \in Nat /\ Len(t.out[k]) \in Nat /\ Len(u.out[k]) \in Nat
  BY <1>1, LoadNat
<1>5. \A j \in 1..n : j # k => Loads(def, t)[j] = Loads(def, u)[j] /\ Sents(def, t)[j] = Sents(def, u)[j]
  BY <1>2, <1>3 DEF Step
<1>6. u.sent = Total(Sents(def, u))
  <2> DEFINE ms == Sents(def, t)
             ns == Sents(def, u)
  <2>1. /\ ms \in Seq(Nat) /\ ns \in Seq(Nat) /\ Len(ms) = n /\ Len(ns) = n /\ ms[k] = Len(t.out[k]) /\ ns[k] = Len(u.out[k])
        /\ \A j \in 1..n : j # k => ms[j] = ns[j]
        /\ t.sent = 0 + Total(ms) /\ Total(ns) \in Nat
    <3>1. t.sent = Total(ms) /\ Total(ms) \in Nat
      BY <1>1, <1>3
    <3>2. t.sent = 0 + Total(ms)
      BY <3>1
    <3>3. k \in DOMAIN def.parts
      OBVIOUS
    <3> QED BY <1>3, <1>5, <3>2, <3>3, Zenon
  <2>2. u.sent - ns[k] = t.sent - ms[k] /\ u.sent \in Int /\ t.sent \in Int
    <3>1. u.sent - Len(u.out[k]) = t.sent - Len(t.out[k])
      BY DEF Step
    <3>2. u.sent \in Int /\ t.sent \in Int
      <4>1. u.sent \in Nat /\ t.sent \in Nat
        BY <1>3, Zenon
      <4> QED BY <4>1
    <3>3. ms[k] = Len(t.out[k]) /\ ns[k] = Len(u.out[k])
      BY <2>1
    <3> HIDE DEF ms, ns
    <3> QED BY <3>1, <3>2, <3>3, Zenon
  <2> HIDE DEF ms, ns, n
  <2>4. Total(ms) - ms[k] = Total(ns) - ns[k]
    BY <1>2, <2>1, TotalChanged
  <2>5. ms[k] \in Nat /\ ns[k] \in Nat /\ Total(ms) \in Nat /\ Total(ns) \in Nat
    <3>1. Total(ms) \in Nat /\ Total(ns) \in Nat
      BY <2>1, TotalNat
    <3> QED BY <1>4, <2>1, <3>1
  <2>6. t.sent = 0 + Total(ms)
    BY <2>1
  <2>3. u.sent = 0 + Total(ns)
    BY <2>2, <2>4, <2>5, <2>6, SMTT(60)
  <2> QED BY <2>1, <2>3 DEF ns
<1>7. u.err = "large" => Overrun(def, B)
  <2> SUFFICES ASSUME u.err = "large" PROVE Overrun(def, B)
    OBVIOUS
  <2>1. t.held + b > def.limit
    BY DEF Step
  <2> QED BY <1>1, <2>1, TooMuch
<1>8. ASSUME Ok(u) PROVE Charged(def, u)
  <2> DEFINE ms == Loads(def, t)
             ns == Loads(def, u)
  <2>1. /\ ms \in Seq(Nat) /\ ns \in Seq(Nat) /\ Len(ms) = n /\ Len(ns) = n /\ ms[k] = Load(t, k) /\ ns[k] = Load(u, k)
        /\ \A j \in 1..n : j # k => ms[j] = ns[j]
        /\ t.held = FrontBytes(t) + Total(ms) /\ FrontBytes(t) \in Int
    BY <1>1, <1>2, <1>3, <1>5
  <2>2. u.held - ns[k] = t.held - ms[k] /\ u.held \in Int /\ t.held \in Int /\ u.held <= def.limit
    BY <1>1, <1>3, <1>8, <2>1 DEF Step
  <2>3. FrontBytes(u) = FrontBytes(t)
    BY DEF FrontBytes, Step, SameFront
  <2> HIDE DEF ms, ns, n
  <2>5. Total(ms) - ms[k] = Total(ns) - ns[k]
    BY <1>2, <2>1, TotalChanged
  <2>6. ms[k] \in Nat /\ ns[k] \in Nat /\ Total(ms) \in Nat /\ Total(ns) \in Nat
    BY <1>2, <2>1, TotalNat
  <2>4. u.held = FrontBytes(t) + Total(ns)
    <3>1. t.held = FrontBytes(t) + Total(ms) /\ FrontBytes(t) \in Int
      BY <2>1
    <3>2. u.held - ns[k] = t.held - ms[k] /\ u.held \in Int
      BY <2>2
    <3> QED BY <2>5, <2>6, <3>1, <3>2, SMTT(60)
  <2> QED BY <2>2, <2>3, <2>4 DEF Charged, ns
<1>9. ASSUME Ok(u) PROVE Fits(def, u, B)
  <2>1. FrontBytes(u) = FrontBytes(t)
    BY DEF FrontBytes, Step, SameFront
  <2> SUFFICES ASSUME NEW j \in DOMAIN def.parts PROVE FrontBytes(u) + Load(u, j) <= B
    BY DEF Fits
  <2>2. CASE j = k
    <3>1. Load(u, k) <= Load(t, k) + b
      BY <1>9 DEF Step
    <3> QED BY <1>3, <1>4, <2>1, <2>2, <3>1
  <2>3. CASE j # k
    BY <1>1, <2>1, <2>3 DEF Step, Fits
  <2> QED BY <2>2, <2>3
<1> QED BY <1>6, <1>7, <1>8, <1>9 DEF Books

-----------------------------------------------------------------------------
(* The parts of a composite.                                              *)

\* A line that is fed to a parser is a step of its part.
LEMMA FedStep ==
  ASSUME def \in Definitions, NEW t \in Streamer(def), NEW u \in Streamer(def), NEW k \in DOMAIN def.parts, NEW b \in Nat, Fed(t, u, k, b)
  PROVE  Step(t, u, k, b) /\ u.lines = t.lines /\ u.fates = t.fates
<1>1. SameFront(t, u) /\ u.lines = t.lines /\ u.fates = t.fates
  BY DEF Fed, Others, Rest, SameFront
<1>2. /\ \A j \in DOMAIN def.parts : j # k => u.subs[j] = t.subs[j] /\ u.out[j] = t.out[j]
      /\ u.sent - Len(u.out[k]) = t.sent - Len(t.out[k])
  BY DEF Fed, Others
<1>3. \A j \in DOMAIN def.parts : j # k => Load(u, j) = Load(t, j) /\ u.lines[j] = t.lines[j] /\ u.out[j] = t.out[j]
  BY <1>1, <1>2 DEF Load
<1>4. u.err = "large" => t.held + b > def.limit
  BY DEF Fed
<1>5. ASSUME Ok(u)
      PROVE  /\ u.held - Load(u, k) = t.held - Load(t, k)
             /\ Load(u, k) <= Load(t, k) + b
             /\ t.held <= def.limit => u.held <= def.limit
  <2> DEFINE x == LinesBytes(t.lines[k])
  <2>1. /\ u.held - Grouped(u, k) = t.held - Grouped(t, k)
        /\ Grouped(u, k) <= Grouped(t, k) + b
        /\ t.held <= def.limit => u.held <= def.limit
    BY <1>5 DEF Fed
  <2>2. /\ Load(t, k) = Grouped(t, k) + x /\ Load(u, k) = Grouped(u, k) + x /\ x \in Nat
        /\ Grouped(t, k) \in Nat /\ Grouped(u, k) \in Nat
        /\ u.held \in Int /\ t.held \in Int
    BY <1>1, LoadNat, GroupedNat
  <2> HIDE DEF x
  <2> QED BY <2>1, <2>2
<1> QED BY <1>1, <1>2, <1>3, <1>4, <1>5 DEF Step

\* The region of a part, which no book is kept of.
Regioned(t, k, r) == [t EXCEPT !.regions[k] = r]

\* The region of a part, which no book is kept of.
LEMMA RegionedIs ==
  ASSUME def \in Definitions, NEW t \in Streamer(def), NEW k \in DOMAIN def.parts, NEW r \in Region
  PROVE  LET u == Regioned(t, k, r)
         IN /\ u \in Streamer(def) /\ SameFront(t, u) /\ u.subs = t.subs /\ u.lines = t.lines /\ u.out = t.out
            /\ u.fates = t.fates /\ u.sent = t.sent /\ u.held = t.held /\ u.err = t.err
<1> DEFINE u == Regioned(t, k, r)
           regions == [t.regions EXCEPT ![k] = r]
<1>1. regions \in [DOMAIN def.parts -> Region]
  BY DEF Streamer
<1>2. u = [t EXCEPT !.regions = regions]
  BY DEF Regioned, Streamer
<1> HIDE DEF regions, u
<1>3. u \in Streamer(def)
  BY <1>1, <1>2 DEF Streamer
<1>4. /\ SameFront(t, u) /\ u.subs = t.subs /\ u.lines = t.lines /\ u.out = t.out
      /\ u.fates = t.fates /\ u.sent = t.sent /\ u.held = t.held /\ u.err = t.err
  BY <1>2 DEF Streamer, SameFront
<1> QED BY <1>3, <1>4 DEF u

\* A region with one more line.
LEMMA RegionTaken ==
  ASSUME NEW g \in Region, NEW n \in Nat, NEW last \in BOOLEAN
  PROVE  [g EXCEPT !.taken = n, !.done = last] \in Region
BY DEF Region

\* admit leaves a region.
LEMMA AdmitIs ==
  ASSUME NEW sel, NEW g \in Region, NEW l
  PROVE  admit(sel, g, l).region \in Region
<1> DEFINE begins == sel.after # {} /\ ~g.started
<1>1. CASE g.done
  BY <1>1 DEF admit
<1>2. CASE ~g.done /\ begins /\ Opens(l, sel.after)
  <2>1. admit(sel, g, l).region = [g EXCEPT !.started = TRUE]
    BY <1>2 DEF admit
  <2> QED BY <2>1 DEF Region
<1>3. CASE ~g.done /\ begins /\ ~Opens(l, sel.after)
  BY <1>3 DEF admit
<1>4. CASE ~g.done /\ ~begins /\ Opens(l, sel.until)
  <2>1. admit(sel, g, l).region = [g EXCEPT !.done = TRUE]
    BY <1>4 DEF admit
  <2> QED BY <2>1 DEF Region
<1>5. CASE ~g.done /\ ~begins /\ ~Opens(l, sel.until) /\ g.skipped < sel.skip
  <2>1. admit(sel, g, l).region = [g EXCEPT !.skipped = g.skipped + 1]
    BY <1>5 DEF admit
  <2> QED BY <2>1 DEF Region
<1>6. CASE ~g.done /\ ~begins /\ ~Opens(l, sel.until) /\ ~(g.skipped < sel.skip)
  <2>1. admit(sel, g, l).region = [g EXCEPT !.taken = g.taken + 1, !.done = sel.limit > 0 /\ g.taken + 1 >= sel.limit]
    BY <1>6 DEF admit
  <2> DEFINE last == sel.limit > 0 /\ g.taken + 1 >= sel.limit
  <2>2. last \in BOOLEAN
    OBVIOUS
  <2>3. admit(sel, g, l).region = [g EXCEPT !.taken = g.taken + 1, !.done = last]
    BY <2>1
  <2>4. g.taken + 1 \in Nat
    BY DEF Region
  <2> QED BY <2>2, <2>3, <2>4, RegionTaken
<1> QED BY <1>1, <1>2, <1>3, <1>4, <1>5, <1>6

\* One more line of a part that is one value.
Lined(t, k, ls, h) == [t EXCEPT !.lines[k] = ls, !.held = h]

\* Other lines for one part, and another charge.
LEMMA LinedIs ==
  ASSUME def \in Definitions, NEW t \in Streamer(def), NEW k \in DOMAIN def.parts, NEW ls \in Lines, NEW h \in Int
  PROVE  LET u == Lined(t, k, ls, h)
         IN /\ u \in Streamer(def) /\ SameFront(t, u) /\ u.subs = t.subs /\ u.out = t.out
            /\ u.lines[k] = ls /\ \A j \in DOMAIN def.parts : j # k => u.lines[j] = t.lines[j]
            /\ u.fates = t.fates /\ u.sent = t.sent /\ u.held = h /\ u.err = t.err
<1> DEFINE u == Lined(t, k, ls, h)
           lines == [t.lines EXCEPT ![k] = ls]
<1>1. lines \in [DOMAIN def.parts -> Lines] /\ lines[k] = ls /\ \A j \in DOMAIN def.parts : j # k => lines[j] = t.lines[j]
  BY DEF Streamer
<1>2. u = [t EXCEPT !.lines = lines, !.held = h]
  BY DEF Lined, Streamer
<1> HIDE DEF lines, u
<1>3. u \in Streamer(def)
  BY <1>1, <1>2 DEF Streamer
<1>4. /\ SameFront(t, u) /\ u.subs = t.subs /\ u.lines = lines /\ u.out = t.out
      /\ u.fates = t.fates /\ u.sent = t.sent /\ u.held = h /\ u.err = t.err
  BY <1>2 DEF Streamer, SameFront
<1> QED BY <1>1, <1>3, <1>4 DEF u

Lining(t, k, l) == Then(take(t, l), LAMBDA v : [v EXCEPT !.lines[k] = Append(@, l)])

\* One more line of a part that is one value, charged.
LEMMA LiningIs ==
  ASSUME def \in Definitions, NEW t \in Streamer(def), Ok(t), NEW k \in DOMAIN def.parts, NEW l \in Line
  PROVE  LET u == Lining(t, k, l)
         IN /\ u \in Streamer(def) /\ Step(t, u, k, LineBytes(l.text)) /\ u.fates = t.fates
            /\ Ok(u) => u.lines[k] = Append(t.lines[k], l)
<1> DEFINE b == LineBytes(l.text)
           v == take(t, l)
           u == Lining(t, k, l)
           ls == Append(v.lines[k], l)
           w == Lined(v, k, ls, v.held)
<1>1. /\ v \in Streamer(def) /\ Rest(t, v) /\ v.subs = t.subs /\ v.out = t.out /\ v.sent = t.sent
      /\ v.held = t.held + b
      /\ v.err = IF v.held > def.limit THEN "large" ELSE t.err
  BY TakeIs
<1>2. b \in Nat
  BY LineNat
<1>3. u = IF Ok(v) THEN w ELSE v
  BY <1>1 DEF Lining, Then, Lined, Streamer
<1> HIDE DEF v, b
<1>4. v.lines[k] \in Lines /\ v.held \in Int
  BY <1>1, LoadNat, GroupedNat
<1>5. ls \in Lines /\ LinesBytes(ls) = LinesBytes(v.lines[k]) + b
  BY <1>4, LinesBytesAppend DEF Lines, b
<1> HIDE DEF ls, u
<1>6. /\ w \in Streamer(def) /\ SameFront(v, w) /\ w.subs = v.subs /\ w.out = v.out
      /\ w.lines[k] = ls /\ \A j \in DOMAIN def.parts : j # k => w.lines[j] = v.lines[j]
      /\ w.fates = v.fates /\ w.sent = v.sent /\ w.held = v.held /\ w.err = v.err
  BY <1>1, <1>4, <1>5, LinedIs
<1> HIDE DEF w
<1>7. v.lines = t.lines /\ v.fates = t.fates /\ SameFront(t, v)
  BY <1>1 DEF Rest, SameFront
<1>8. Load(t, k) \in Nat /\ t.held \in Int /\ def.limit \in Nat
  BY LoadNat, GroupedNat, PartsAre
<1>9. CASE Ok(v)
  <2>1. u = w
    BY <1>3, <1>9
  <2>2. w.held <= def.limit
    BY <1>1, <1>4, <1>6, <1>8, <1>9 DEF Ok
  <2>3. Load(w, k) = Load(t, k) + b
    <3>1. LinesBytes(t.subs[k].group) \in Nat /\ LinesBytes(t.lines[k]) \in Nat
      BY LoadNat, GroupedNat DEF Grouped
    <3> QED BY <1>1, <1>2, <1>5, <1>6, <1>7, <3>1 DEF Load
  <2>4. \A j \in DOMAIN def.parts : j # k => Load(w, j) = Load(t, j) /\ w.lines[j] = t.lines[j] /\ w.out[j] = t.out[j]
    BY <1>1, <1>6, <1>7 DEF Load
  <2>5. SameFront(t, w) /\ w.fates = t.fates /\ w.sent - Len(w.out[k]) = t.sent - Len(t.out[k])
    BY <1>1, <1>6, <1>7 DEF SameFront
  <2>6. w.held - Load(w, k) = t.held - Load(t, k) /\ Load(w, k) <= Load(t, k) + b /\ w.err # "large"
    BY <1>1, <1>2, <1>6, <1>8, <1>9, <2>3 DEF Ok
  <2>7. Step(t, w, k, b)
    BY <2>2, <2>4, <2>5, <2>6 DEF Step
  <2>8. w.lines[k] = Append(t.lines[k], l)
    BY <1>6, <1>7 DEF ls
  <2> QED BY <1>6, <2>1, <2>5, <2>7, <2>8 DEF u, b
<1>10. CASE ~Ok(v)
  <2>1. u = v
    BY <1>3, <1>10
  <2>2. v.held > def.limit
    BY <1>1, <1>10 DEF Ok
  <2>3. \A j \in DOMAIN def.parts : j # k => Load(v, j) = Load(t, j) /\ v.lines[j] = t.lines[j] /\ v.out[j] = t.out[j]
    BY <1>1, <1>7 DEF Load
  <2>4. Step(t, v, k, b)
    BY <1>1, <1>7, <1>10, <2>2, <2>3 DEF Step
  <2> QED BY <1>1, <1>7, <1>10, <2>1, <2>4 DEF u, b
<1> QED BY <1>9, <1>10

Emptied(t, k) == give([t EXCEPT !.read[k] = TRUE, !.lines[k] = <<>>], t.lines[k])

Marked(t, k) == [t EXCEPT !.read[k] = TRUE]

\* A part that is marked as read.
LEMMA MarkedIs ==
  ASSUME def \in Definitions, NEW t \in Streamer(def), NEW k \in DOMAIN def.parts
  PROVE  LET u == Marked(t, k)
         IN /\ u \in Streamer(def) /\ SameFront(t, u) /\ u.subs = t.subs /\ u.out = t.out /\ u.lines = t.lines
            /\ u.fates = t.fates /\ u.sent = t.sent /\ u.held = t.held /\ u.err = t.err
<1> DEFINE u == Marked(t, k)
           read == [t.read EXCEPT ![k] = TRUE]
<1>1. read \in [DOMAIN def.parts -> BOOLEAN]
  BY DEF Streamer
<1>2. u = [t EXCEPT !.read = read]
  BY DEF Marked, Streamer
<1> HIDE DEF read, u
<1>3. u \in Streamer(def)
  BY <1>1, <1>2 DEF Streamer
<1>4. /\ SameFront(t, u) /\ u.subs = t.subs /\ u.out = t.out /\ u.lines = t.lines
      /\ u.fates = t.fates /\ u.sent = t.sent /\ u.held = t.held /\ u.err = t.err
  BY <1>2 DEF Streamer, SameFront
<1> QED BY <1>3, <1>4 DEF u

\* A part that gives up its lines gives back what they cost (readSingle).
LEMMA EmptiedIs ==
  ASSUME def \in Definitions, NEW t \in Streamer(def), Ok(t), NEW k \in DOMAIN def.parts
  PROVE  LET u == Emptied(t, k)
         IN /\ u \in Streamer(def) /\ Step(t, u, k, 0) /\ u.fates = t.fates /\ u.err = t.err /\ u.lines[k] = <<>>
<1> DEFINE m == Marked(t, k)
           x == LinesBytes(t.lines[k])
           h == t.held - x
           none == <<>>
           u == Lined(m, k, none, h)
<1>1. Emptied(t, k) = u
  BY DEF Emptied, give, Marked, Lined, Streamer
<1>2. /\ m \in Streamer(def) /\ SameFront(t, m) /\ m.subs = t.subs /\ m.out = t.out /\ m.lines = t.lines
      /\ m.fates = t.fates /\ m.sent = t.sent /\ m.held = t.held /\ m.err = t.err
  BY MarkedIs
<1>3. /\ x \in Nat /\ t.held \in Int /\ <<>> \in Lines /\ Load(t, k) = Grouped(t, k) + x /\ Grouped(t, k) \in Nat
      /\ Load(t, k) \in Nat /\ def.limit \in Nat
  BY LoadNat, GroupedNat, LinesBytesNone, PartsAre DEF Lines
<1>4. h \in Int
  BY <1>3
<1> HIDE DEF m, h, x
<1>5. /\ u \in Streamer(def) /\ SameFront(m, u) /\ u.subs = m.subs /\ u.out = m.out
      /\ u.lines[k] = <<>> /\ \A j \in DOMAIN def.parts : j # k => u.lines[j] = m.lines[j]
      /\ u.fates = m.fates /\ u.sent = m.sent /\ u.held = h /\ u.err = m.err
  <2>1. none \in Lines /\ none = <<>>
    BY <1>3
  <2> HIDE DEF none
  <2>2. m \in Streamer(def)
    BY <1>2
  <2>3. /\ u \in Streamer(def) /\ SameFront(m, u) /\ u.subs = m.subs /\ u.out = m.out
        /\ u.lines[k] = none /\ \A j \in DOMAIN def.parts : j # k => u.lines[j] = m.lines[j]
        /\ u.fates = m.fates /\ u.sent = m.sent /\ u.held = h /\ u.err = m.err
    BY <1>4, <2>1, <2>2, LinedIs
  <2> QED BY <2>1, <2>3
<1> HIDE DEF u
<1>6. SameFront(t, u) /\ u.fates = t.fates /\ u.err = t.err /\ u.sent - Len(u.out[k]) = t.sent - Len(t.out[k])
  BY <1>2, <1>5 DEF SameFront
<1>7. \A j \in DOMAIN def.parts : j # k => Load(u, j) = Load(t, j) /\ u.lines[j] = t.lines[j] /\ u.out[j] = t.out[j]
  BY <1>2, <1>5 DEF Load
<1>8. Load(u, k) = Grouped(t, k)
  <2>1. Load(u, k) = Grouped(t, k) + 0
    BY <1>2, <1>5, LinesBytesNone DEF Load, Grouped
  <2> QED BY <1>3, <2>1
<1>9. u.held = t.held - x
  BY <1>5 DEF h
<1>10. /\ u.held - Load(u, k) = t.held - Load(t, k)
       /\ Load(u, k) <= Load(t, k) + 0
       /\ t.held <= def.limit => u.held <= def.limit
  BY <1>3, <1>8, <1>9
<1>11. Step(t, u, k, 0)
  BY <1>6, <1>7, <1>10 DEF Step, Ok
<1> QED BY <1>1, <1>5, <1>6, <1>11 DEF u

\* What is left of the fates once a part has said what it read.
Pending(t, ls, n) == IF n \in Nums(ls) THEN t.fates[n].pending - 1 ELSE t.fates[n].pending

LeftOver(t, ls) == {n \in DOMAIN t.fates : Pending(t, ls, n) > 0}

\* A table of fates is about numbers of lines.
LEMMA FatesAre ==
  ASSUME def \in Definitions, NEW t \in Streamer(def)
  PROVE  /\ DOMAIN t.fates \in SUBSET Nat
         /\ \A n \in DOMAIN t.fates : t.fates[n] \in [pending : Int, read : BOOLEAN]
<1>1. t.fates \in Fates
  BY DEF Streamer
<1>2. PICK D \in SUBSET Nat : t.fates \in [D -> [pending : Int, read : BOOLEAN]]
  BY <1>1 DEF Fates
<1> QED BY <1>2

\* And any such table is one.
LEMMA FatesIn ==
  ASSUME NEW D \in SUBSET Nat, NEW f \in [D -> [pending : Int, read : BOOLEAN]]
  PROVE  f \in Fates
BY DEF Fates

Fated(t, f) == [t EXCEPT !.fates = f]

\* Another table of fates.
LEMMA FatedIs ==
  ASSUME def \in Definitions, NEW t \in Streamer(def), NEW f \in Fates
  PROVE  LET u == Fated(t, f)
         IN /\ u \in Streamer(def) /\ SameFront(t, u) /\ u.subs = t.subs /\ u.out = t.out /\ u.lines = t.lines
            /\ u.fates = f /\ u.sent = t.sent /\ u.held = t.held /\ u.err = t.err
<1>1. Fated(t, f) \in Streamer(def)
  BY DEF Streamer, Fated
<1> QED BY <1>1 DEF Streamer, Fated, SameFront

\* A part that said what it read leaves the fates of lines that others may still read
\* (fate, readSingle).
LEMMA SettledIs ==
  ASSUME def \in Definitions, NEW t \in Streamer(def), NEW ls, NEW r
  PROVE  LET u == Settled(t, ls, r)
         IN /\ u \in Streamer(def) /\ SameFront(t, u) /\ u.subs = t.subs /\ u.out = t.out /\ u.lines = t.lines
            /\ u.sent = t.sent /\ u.held = t.held /\ (u.err = t.err \/ u.err = "unread")
            /\ DOMAIN u.fates = LeftOver(t, ls)
            /\ \A n \in LeftOver(t, ls) : u.fates[n].pending = Pending(t, ls, n)
<1> DEFINE said(n) == IF n \in Nums(ls) THEN [pending |-> t.fates[n].pending - 1, read |-> t.fates[n].read \/ n \in r.read] ELSE t.fates[n]
           left == {n \in DOMAIN t.fates : said(n).pending > 0}
           unread == {i \in DOMAIN ls : /\ ls[i].num \in DOMAIN t.fates \ left
                                        /\ ~said(ls[i].num).read /\ ~Blank(ls[i])}
           f == [n \in left |-> said(n)]
           v == Fated(t, f)
           u == Settled(t, ls, r)
<1>1. u = IF unread # {} THEN Fail(v, "unread") ELSE v
  BY Zenon DEF Settled, Fated
<1>2. \A n \in DOMAIN t.fates : said(n).pending = Pending(t, ls, n)
  BY DEF Pending
<1>3. left = LeftOver(t, ls)
  BY <1>2 DEF LeftOver
<1>4. \A n \in DOMAIN t.fates : said(n) \in [pending : Int, read : BOOLEAN]
  BY FatesAre
<1> HIDE DEF said, u, unread
<1>5. left \in SUBSET Nat /\ left \subseteq DOMAIN t.fates
  BY FatesAre
<1> HIDE DEF left
<1>6. f \in [left -> [pending : Int, read : BOOLEAN]]
  BY <1>4, <1>5
<1>7. DOMAIN f = LeftOver(t, ls) /\ \A n \in LeftOver(t, ls) : f[n].pending = Pending(t, ls, n)
  BY <1>2, <1>3, <1>5
<1> HIDE DEF f, v
<1>8. /\ v \in Streamer(def) /\ SameFront(t, v) /\ v.subs = t.subs /\ v.out = t.out /\ v.lines = t.lines
      /\ v.fates = f /\ v.sent = t.sent /\ v.held = t.held /\ v.err = t.err
  BY <1>5, <1>6, FatesIn, FatedIs DEF v
<1>9. CASE unread = {}
  BY <1>1, <1>7, <1>8, <1>9 DEF u
<1>10. CASE unread # {}
  <2>1. /\ Fail(v, "unread") \in Streamer(def) /\ Fail(v, "unread").err = "unread"
        /\ Rest(v, Fail(v, "unread")) /\ Fail(v, "unread").subs = v.subs /\ Fail(v, "unread").out = v.out
        /\ Fail(v, "unread").held = v.held /\ Fail(v, "unread").sent = v.sent
    BY <1>8, Failed
  <2> QED BY <1>1, <1>7, <1>8, <1>10, <2>1 DEF u, Rest, SameFront
<1> QED BY <1>9, <1>10

\* Either no fate is touched, or the part gave up all its lines.
Settles(t, u, k) ==
  \/ u.lines[k] = t.lines[k] /\ u.fates = t.fates
  \/ /\ u.lines[k] = <<>>
     /\ DOMAIN u.fates = LeftOver(t, t.lines[k])
     /\ \A n \in LeftOver(t, t.lines[k]) : u.fates[n].pending = Pending(t, t.lines[k], n)

\* Whatever else happens to what a step does not count, it is that step.
LEMMA StepAgain ==
  ASSUME NEW t, NEW e, NEW u, NEW k, NEW b, Step(t, e, k, b), Ok(e), SameFront(e, u), u.subs = e.subs, u.lines = e.lines,
         u.out = e.out, u.sent = e.sent, u.held = e.held, u.err # "large"
  PROVE  Step(t, u, k, b)
<1>1. \A j : Load(u, j) = Load(e, j)
  BY DEF Load
<1> QED BY <1>1 DEF Step, SameFront, Ok

\* A part of one value is read: it gives back its lines, and settles their fates or
\* leaves everything (readSingle).
LEMMA SingleRead ==
  ASSUME def \in Definitions, NEW t \in Streamer(def), Ok(t), NEW k \in DOMAIN def.parts
  PROVE  LET u == readSingle(t, k)
         IN u \in Streamer(def) /\ Step(t, u, k, 0) /\ (Ok(u) => Settles(t, u, k))
<1> DEFINE ls == t.lines[k]
           r == Parse(def.parts[k].parse, ls, FALSE)
           e == Emptied(t, k)
           v == EmitIf(e, k, r.ok, Record(<<>>, ls))
           u == readSingle(t, k)
<1>1. u = IF Ok(v) THEN Settled(v, ls, r) ELSE v
  BY Zenon DEF readSingle, readAs, Then, Emptied
<1> HIDE DEF r, u
<1>2. e \in Streamer(def) /\ Step(t, e, k, 0) /\ e.fates = t.fates /\ Ok(e) /\ e.lines[k] = <<>>
  BY EmptiedIs DEF Ok
<1>3. Record(<<>>, ls) \in Rec
  <2>1. <<>> \in Lines /\ ls \in Lines
    BY LoadNat, LinesBytesNone DEF Lines
  <2> QED BY <2>1, RecordIs
<1> HIDE DEF e, ls
<1>4. Passes(e, v, k)
  BY <1>2, <1>3, EmitPasses
<1> HIDE DEF v
<1>5. v \in Streamer(def) /\ Others(e, v, k) /\ v.subs[k].group = e.subs[k].group /\ v.held = e.held /\ v.err # "large"
  BY <1>2, <1>4 DEF Passes
<1>6. v.fates = t.fates /\ v.lines = e.lines /\ SameFront(e, v)
  BY <1>2, <1>5 DEF Others, Rest, SameFront
<1>7. \A j \in DOMAIN def.parts : Load(v, j) = Load(e, j)
  BY <1>5, <1>6 DEF Load, Others
<1>8. Step(t, v, k, 0)
  BY <1>2, <1>5, <1>6, <1>7 DEF Step, Others, SameFront
<1>9. CASE ~Ok(v)
  BY <1>1, <1>5, <1>8, <1>9 DEF u
<1>10. CASE Ok(v)
  <2>1. /\ u \in Streamer(def) /\ SameFront(v, u) /\ u.subs = v.subs /\ u.out = v.out /\ u.lines = v.lines
        /\ u.sent = v.sent /\ u.held = v.held /\ (u.err = v.err \/ u.err = "unread")
        /\ DOMAIN u.fates = LeftOver(v, ls)
        /\ \A n \in LeftOver(v, ls) : u.fates[n].pending = Pending(v, ls, n)
    BY <1>1, <1>5, <1>10, SettledIs
  <2>2. Step(t, u, k, 0)
    BY <1>5, <1>8, <1>10, <2>1, StepAgain
  <2>3. LeftOver(v, ls) = LeftOver(t, ls) /\ \A n : Pending(v, ls, n) = Pending(t, ls, n)
    BY <1>6 DEF LeftOver, Pending
  <2>4. u.lines[k] = <<>>
    BY <1>2, <1>6, <2>1
  <2>5. Settles(t, u, k)
    BY <2>1, <2>3, <2>4 DEF Settles, ls
  <2> QED BY <2>1, <2>2, <2>5 DEF u
<1> QED BY <1>9, <1>10

\* The same of a part of any kind (finishComposite).
LEMMA PartClosed ==
  ASSUME def \in Definitions, NEW t \in Streamer(def), Ok(t), NEW k \in DOMAIN def.parts
  PROVE  LET u == closePart(t, k)
         IN u \in Streamer(def) /\ Step(t, u, k, 0) /\ (Ok(u) => Settles(t, u, k))
<1> DEFINE p == def.parts[k].parse
           m == Marked(t, k)
           u == closePart(t, k)
<1>1. CASE ~YieldsArray(p)
  BY <1>1, SingleRead DEF closePart
<1>2. CASE YieldsArray(p)
  <2>1. u = finishPart(m, k, p)
    BY <1>2 DEF closePart, Marked
  <2>2. /\ m \in Streamer(def) /\ SameFront(t, m) /\ m.subs = t.subs /\ m.out = t.out /\ m.lines = t.lines
        /\ m.fates = t.fates /\ m.sent = t.sent /\ m.held = t.held /\ m.err = t.err
    BY MarkedIs
  <2>3. \A j : Load(m, j) = Load(t, j)
    BY <2>2 DEF Load
  <2> HIDE DEF m, p
  <2>4. u \in Streamer(def) /\ Fed(m, u, k, 0)
    BY <2>1, <2>2, PartFinished DEF Ok
  <2> HIDE DEF u
  <2>5. Step(m, u, k, 0) /\ u.lines = m.lines /\ u.fates = m.fates
    BY <2>2, <2>4, FedStep
  <2>6. Step(t, u, k, 0) /\ Settles(t, u, k)
    BY <2>2, <2>3, <2>5 DEF Step, SameFront, Settles
  <2> QED BY <2>4, <2>6 DEF u
<1> QED BY <1>1, <1>2

\* The parts of one value that hold a line.
Holders(d, t, n) == {k \in DOMAIN d.parts : n \in Nums(t.lines[k])}

\* A fate is open for each line held, with the number of parts that hold it.
FatesOpen(d, t) ==
  /\ DOMAIN t.fates = UNION {Nums(t.lines[k]) : k \in DOMAIN d.parts}
  /\ \A n \in DOMAIN t.fates : t.fates[n].pending = Cardinality(Holders(d, t, n))

\* Parts that hold a line are counted.
LEMMA HoldersAre ==
  ASSUME def \in Definitions, NEW t, NEW n
  PROVE  /\ IsFiniteSet(Holders(def, t, n)) /\ Cardinality(Holders(def, t, n)) \in Nat
         /\ Cardinality(Holders(def, t, n)) > 0 <=> \E k \in DOMAIN def.parts : n \in Nums(t.lines[k])
<1>1. IsFiniteSet(Holders(def, t, n))
  <2>1. Holders(def, t, n) \subseteq DOMAIN def.parts /\ IsFiniteSet(DOMAIN def.parts)
    BY PartsAre DEF Holders
  <2> QED BY <2>1, FS_Subset
<1>2. Cardinality(Holders(def, t, n)) \in Nat /\ (Cardinality(Holders(def, t, n)) = 0 <=> Holders(def, t, n) = {})
  BY <1>1, FS_CardinalityType, FS_EmptySet
<1> QED BY <1>1, <1>2 DEF Holders

\* No lines have no numbers.
LEMMA NumsNone == Nums(<<>>) = {}
BY DEF Nums

\* When one part settles the fates of its lines, the fates that stay open are those of
\* lines still held, each with its count.
LEMMA FatesClosed ==
  ASSUME def \in Definitions, NEW t \in Streamer(def), NEW u \in Streamer(def), NEW k \in DOMAIN def.parts,
         FatesOpen(def, t), Settles(t, u, k), \A j \in DOMAIN def.parts : j # k => u.lines[j] = t.lines[j]
  PROVE  FatesOpen(def, u) /\ DOMAIN u.fates \subseteq DOMAIN t.fates
<1>1. CASE u.lines[k] = t.lines[k] /\ u.fates = t.fates
  <2>1. \A j \in DOMAIN def.parts : u.lines[j] = t.lines[j]
    BY <1>1
  <2>2. \A n : Holders(def, u, n) = Holders(def, t, n)
    BY <2>1 DEF Holders
  <2>3. UNION {Nums(u.lines[j]) : j \in DOMAIN def.parts} = UNION {Nums(t.lines[j]) : j \in DOMAIN def.parts}
    BY <2>1
  <2> QED BY <1>1, <2>2, <2>3 DEF FatesOpen
<1>2. CASE /\ u.lines[k] = <<>>
           /\ DOMAIN u.fates = LeftOver(t, t.lines[k])
           /\ \A n \in LeftOver(t, t.lines[k]) : u.fates[n].pending = Pending(t, t.lines[k], n)
  <2> DEFINE ls == t.lines[k]
  <2>0. Nums(u.lines[k]) = {}
    BY <1>2, NumsNone
  <2>1. ASSUME NEW n \in DOMAIN t.fates PROVE Pending(t, ls, n) = Cardinality(Holders(def, u, n))
    <3>1. t.fates[n].pending = Cardinality(Holders(def, t, n))
      BY DEF FatesOpen
    <3>2. CASE n \in Nums(ls)
      <4>1. k \in Holders(def, t, n) /\ Holders(def, u, n) = Holders(def, t, n) \ {k}
        BY <2>0, <3>2 DEF Holders
      <4>2. Cardinality(Holders(def, u, n)) = Cardinality(Holders(def, t, n)) - 1
        <5> DEFINE S == Holders(def, t, n)
        <5>1. IsFiniteSet(S) /\ k \in S
          BY <4>1, HoldersAre
        <5>2. Holders(def, u, n) = S \ {k}
          BY <4>1
        <5> HIDE DEF S
        <5>3. Cardinality(S \ {k}) = Cardinality(S) - 1
          BY <5>1, FS_RemoveElement
        <5> QED BY <5>2, <5>3 DEF S
      <4> QED BY <3>1, <3>2, <4>2 DEF Pending
    <3>3. CASE n \notin Nums(ls)
      <4>1. Holders(def, u, n) = Holders(def, t, n)
        BY <2>0, <3>3 DEF Holders
      <4> QED BY <3>1, <3>3, <4>1 DEF Pending
    <3> QED BY <3>2, <3>3
  <2>2. DOMAIN u.fates = {n \in DOMAIN t.fates : Cardinality(Holders(def, u, n)) > 0}
    BY <1>2, <2>1 DEF LeftOver
  <2>3. DOMAIN u.fates = {n \in DOMAIN t.fates : \E j \in DOMAIN def.parts : n \in Nums(u.lines[j])}
    BY <2>2, HoldersAre
  <2>4. \A j \in DOMAIN def.parts : Nums(u.lines[j]) \subseteq DOMAIN t.fates
    <3> SUFFICES ASSUME NEW j \in DOMAIN def.parts PROVE Nums(u.lines[j]) \subseteq DOMAIN t.fates
      OBVIOUS
    <3>1. Nums(t.lines[j]) \subseteq DOMAIN t.fates
      BY DEF FatesOpen
    <3> QED BY <2>0, <3>1
  <2>5. DOMAIN u.fates = UNION {Nums(u.lines[j]) : j \in DOMAIN def.parts}
    BY <2>3, <2>4
  <2>6. \A n \in DOMAIN u.fates : u.fates[n].pending = Cardinality(Holders(def, u, n))
    BY <1>2, <2>1, <2>3
  <2> QED BY <2>3, <2>5, <2>6 DEF FatesOpen
<1> QED BY <1>1, <1>2 DEF Settles

\* The books and, before any trouble, the fates.
Kept(d, t, B) == Books(d, t, B) /\ (Ok(t) => FatesOpen(d, t))

\* A step of what reads the parts that are closed: no fate opens.
Closing(t, u, B) ==
  /\ Kept(def, u, B) /\ SameFront(t, u)
  /\ Ok(u) => Ok(t) /\ DOMAIN u.fates \subseteq DOMAIN t.fates

\* A part that is closed keeps the books (closePart).
LEMMA CloseKeeps ==
  ASSUME def \in Definitions, NEW t, NEW B \in Nat, Kept(def, t, B), Ok(t), NEW k \in DOMAIN def.parts
  PROVE  Closing(t, closePart(t, k), B)
<1> DEFINE u == closePart(t, k)
<1>1. t \in Streamer(def) /\ Books(def, t, B) /\ FatesOpen(def, t) /\ Fits(def, t, B)
  BY DEF Kept, Books
<1>2. u \in Streamer(def) /\ Step(t, u, k, 0) /\ (Ok(u) => Settles(t, u, k))
  BY <1>1, PartClosed
<1> HIDE DEF u
<1>3. FrontBytes(t) + Load(t, k) + 0 <= B
  <2>1. FrontBytes(t) \in Nat /\ Load(t, k) \in Nat
    BY <1>1, LoadNat
  <2>2. FrontBytes(t) + Load(t, k) <= B
    BY <1>1 DEF Fits
  <2> QED BY <2>1, <2>2
<1>4. Books(def, u, B)
  BY <1>1, <1>2, <1>3, StepBooks, 0 \in Nat
<1>5. SameFront(t, u) /\ \A j \in DOMAIN def.parts : j # k => u.lines[j] = t.lines[j]
  BY <1>2 DEF Step
<1>6. Ok(u) => FatesOpen(def, u) /\ DOMAIN u.fates \subseteq DOMAIN t.fates
  BY <1>1, <1>2, <1>5, FatesClosed
<1> QED BY <1>4, <1>5, <1>6 DEF Closing, Kept, u

\* A part that closes leaves a streamer.
LEMMA ClosesTyped ==
  ASSUME def \in Definitions, NEW t \in Streamer(def), NEW k \in DOMAIN def.parts
  PROVE  closes(t, k) \in Streamer(def)
BY PartClosed DEF closes

\* The parts close one after the other.
LEMMA ClosesFold ==
  ASSUME def \in Definitions, NEW t \in Streamer(def)
  PROVE  \E g : /\ g[0] = t /\ g[Len(def.parts)] = FoldLeftDomain(closes, t, def.parts)
                /\ \A i \in 0..(Len(def.parts) - 1) : g[i + 1] = closes(g[i], i + 1)
<1> DEFINE n == Len(def.parts)
           at == [i \in DOMAIN def.parts |-> i]
           S == DOMAIN at
           A == Streamer(def)
           F == [p \in A \X (1..n) |-> closes(p[1], p[2])]
<1>1. n \in Nat /\ DOMAIN def.parts = 1..n
  BY PartsAre
<1>2. S = 1..n /\ \A i \in 1..n : at[i] = i
  BY <1>1
<1>3. F \in [A \X (1..n) -> A]
  <2>1. \A p \in A \X (1..n) : closes(p[1], p[2]) \in A
    BY <1>1, ClosesTyped
  <2> HIDE DEF A
  <2> QED BY <2>1
<1>4. PICK h \in [SUBSET (1..n) -> A] : IsTable(h, n, t, F)
  <2>1. t \in A
    OBVIOUS
  <2> HIDE DEF F, n, A
  <2> QED BY <1>1, <1>3, <2>1, TableExists, Zenon
<1> HIDE DEF at
<1>5. ASSUME NEW T \in SUBSET S PROVE h[T] = IF T = {} THEN t ELSE closes(h[T \ {Max(T)}], at[Max(T)])
  <2>1. CASE T = {}
    BY <1>2, <1>4, <2>1 DEF IsTable
  <2>2. CASE T # {}
    <3>1. Max(T) \in 1..n /\ T \ {Max(T)} \in SUBSET (1..n)
      BY <1>1, <1>2, <2>2, MaxIsLast
    <3>2. h[T] = F[<<h[T \ {Max(T)}], Max(T)>>]
      BY <1>2, <1>4, <2>2 DEF IsTable
    <3>3. h[T \ {Max(T)}] \in A
      BY <1>4, <3>1
    <3>4. <<h[T \ {Max(T)}], Max(T)>> \in A \X (1..n)
      BY <3>1, <3>3
    <3> HIDE DEF A
    <3> QED BY <1>2, <2>2, <3>1, <3>2, <3>4
  <2> QED BY <2>1, <2>2
<1>6. h = [T \in SUBSET S |-> IF T = {} THEN t ELSE closes(h[T \ {Max(T)}], at[Max(T)])]
  <2> HIDE DEF S, A
  <2> QED BY <1>2, <1>4, <1>5
<1>a. FoldLeftDomain(closes, t, def.parts) = FoldLeft(closes, t, at)
  BY Zenon DEF FoldLeftDomain, at
<1>7. PICK f : /\ f = [T \in SUBSET S |-> IF T = {} THEN t ELSE closes(f[T \ {Max(T)}], at[Max(T)])]
               /\ FoldLeftDomain(closes, t, def.parts) = f[S]
  BY <1>a, <1>6, Zenon DEF FoldLeft, MapThenFoldSet
<1> DEFINE g == [i \in 0..n |-> f[1..i]]
<1>8. g[0] = t
  BY <1>1, <1>2, <1>7
<1>9. ASSUME NEW i \in 0..(n - 1) PROVE g[i + 1] = closes(g[i], i + 1)
  <2> DEFINE j == i + 1
  <2>1. j \in 1..n /\ j - 1 = i /\ i \in 0..n /\ j \in 0..n
    BY <1>1
  <2> HIDE DEF j
  <2>2. 1..j \in SUBSET S /\ 1..j # {} /\ Max(1..j) = j /\ (1..j) \ {Max(1..j)} = 1..i
    BY <1>1, <1>2, <2>1, PrefixIs
  <2>3. f[1..j] = closes(f[(1..j) \ {Max(1..j)}], at[Max(1..j)])
    BY <1>7, <2>2
  <2>4. f[1..j] = closes(f[1..i], j)
    BY <1>2, <2>1, <2>2, <2>3, Zenon
  <2> QED BY <2>1, <2>4, Zenon DEF j
<1>10. g[n] = FoldLeftDomain(closes, t, def.parts)
  BY <1>1, <1>2, <1>7
<1> HIDE DEF g
<1> QED BY <1>8, <1>9, <1>10

\* A part that ends leaves a streamer.
LEMMA EndsTyped ==
  ASSUME def \in Definitions, NEW t \in Streamer(def), NEW k \in DOMAIN def.parts
  PROVE  finishes(t, k) \in Streamer(def)
BY PartClosed DEF finishes

\* The parts end one after the other.
LEMMA EndsFold ==
  ASSUME def \in Definitions, NEW t \in Streamer(def)
  PROVE  \E g : /\ g[0] = t /\ g[Len(def.parts)] = FoldLeftDomain(finishes, t, def.parts)
                /\ \A i \in 0..(Len(def.parts) - 1) : g[i + 1] = finishes(g[i], i + 1)
<1> DEFINE n == Len(def.parts)
           at == [i \in DOMAIN def.parts |-> i]
           S == DOMAIN at
           A == Streamer(def)
           F == [p \in A \X (1..n) |-> finishes(p[1], p[2])]
<1>1. n \in Nat /\ DOMAIN def.parts = 1..n
  BY PartsAre
<1>2. S = 1..n /\ \A i \in 1..n : at[i] = i
  BY <1>1
<1>3. F \in [A \X (1..n) -> A]
  <2>1. \A p \in A \X (1..n) : finishes(p[1], p[2]) \in A
    BY <1>1, EndsTyped
  <2> HIDE DEF A
  <2> QED BY <2>1
<1>4. PICK h \in [SUBSET (1..n) -> A] : IsTable(h, n, t, F)
  <2>1. t \in A
    OBVIOUS
  <2> HIDE DEF F, n, A
  <2> QED BY <1>1, <1>3, <2>1, TableExists, Zenon
<1> HIDE DEF at
<1>5. ASSUME NEW T \in SUBSET S PROVE h[T] = IF T = {} THEN t ELSE finishes(h[T \ {Max(T)}], at[Max(T)])
  <2>1. CASE T = {}
    BY <1>2, <1>4, <2>1 DEF IsTable
  <2>2. CASE T # {}
    <3>1. Max(T) \in 1..n /\ T \ {Max(T)} \in SUBSET (1..n)
      BY <1>1, <1>2, <2>2, MaxIsLast
    <3>2. h[T] = F[<<h[T \ {Max(T)}], Max(T)>>]
      BY <1>2, <1>4, <2>2 DEF IsTable
    <3>3. h[T \ {Max(T)}] \in A
      BY <1>4, <3>1
    <3>4. <<h[T \ {Max(T)}], Max(T)>> \in A \X (1..n)
      BY <3>1, <3>3
    <3> HIDE DEF A
    <3> QED BY <1>2, <2>2, <3>1, <3>2, <3>4
  <2> QED BY <2>1, <2>2
<1>6. h = [T \in SUBSET S |-> IF T = {} THEN t ELSE finishes(h[T \ {Max(T)}], at[Max(T)])]
  <2> HIDE DEF S, A
  <2> QED BY <1>2, <1>4, <1>5
<1>a. FoldLeftDomain(finishes, t, def.parts) = FoldLeft(finishes, t, at)
  BY Zenon DEF FoldLeftDomain, at
<1>7. PICK f : /\ f = [T \in SUBSET S |-> IF T = {} THEN t ELSE finishes(f[T \ {Max(T)}], at[Max(T)])]
               /\ FoldLeftDomain(finishes, t, def.parts) = f[S]
  BY <1>a, <1>6, Zenon DEF FoldLeft, MapThenFoldSet
<1> DEFINE g == [i \in 0..n |-> f[1..i]]
<1>8. g[0] = t
  BY <1>1, <1>2, <1>7
<1>9. ASSUME NEW i \in 0..(n - 1) PROVE g[i + 1] = finishes(g[i], i + 1)
  <2> DEFINE j == i + 1
  <2>1. j \in 1..n /\ j - 1 = i /\ i \in 0..n /\ j \in 0..n
    BY <1>1
  <2> HIDE DEF j
  <2>2. 1..j \in SUBSET S /\ 1..j # {} /\ Max(1..j) = j /\ (1..j) \ {Max(1..j)} = 1..i
    BY <1>1, <1>2, <2>1, PrefixIs
  <2>3. f[1..j] = finishes(f[(1..j) \ {Max(1..j)}], at[Max(1..j)])
    BY <1>7, <2>2
  <2>4. f[1..j] = finishes(f[1..i], j)
    BY <1>2, <2>1, <2>2, <2>3, Zenon
  <2> QED BY <2>1, <2>4, Zenon DEF j
<1>10. g[n] = FoldLeftDomain(finishes, t, def.parts)
  BY <1>1, <1>2, <1>7
<1> HIDE DEF g
<1> QED BY <1>8, <1>9, <1>10

\* Two steps of what reads closed parts.
LEMMA ClosingTrans ==
  ASSUME NEW B, NEW t, NEW u, NEW v, Closing(t, u, B), Closing(u, v, B)
  PROVE  Closing(t, v, B)
BY DEF Closing, SameFront

\* The parts whose region closed on a line are read, and the books are kept
\* (feedComposite).
LEMMA ClosesKeep ==
  ASSUME def \in Definitions, NEW t, NEW B \in Nat, Kept(def, t, B)
  PROVE  Closing(t, FoldLeftDomain(closes, t, def.parts), B)
<1> DEFINE n == Len(def.parts)
<1>1. t \in Streamer(def) /\ n \in Nat /\ DOMAIN def.parts = 1..n
  BY PartsAre DEF Kept, Books
<1>2. PICK g : /\ g[0] = t /\ g[n] = FoldLeftDomain(closes, t, def.parts)
               /\ \A i \in 0..(n - 1) : g[i + 1] = closes(g[i], i + 1)
  BY <1>1, ClosesFold
<1> DEFINE T == {i \in 0..n : Closing(t, g[i], B)}
<1>3. 0 \in T
  BY <1>1, <1>2 DEF Closing, SameFront
<1>4. ASSUME NEW i \in 0..(n - 1), i \in T PROVE i + 1 \in T
  <2>1. i + 1 \in DOMAIN def.parts /\ i + 1 \in 0..n
    BY <1>1
  <2>2. Closing(t, g[i], B)
    BY <1>4
  <2>3. g[i + 1] = closes(g[i], i + 1)
    BY <1>2
  <2>4. CASE Ok(g[i]) /\ ~g[i].read[i + 1] /\ g[i].regions[i + 1].done
    <3>1. g[i + 1] = closePart(g[i], i + 1)
      BY <2>3, <2>4 DEF closes
    <3>2. Closing(g[i], g[i + 1], B)
      <4>1. Kept(def, g[i], B)
        BY <2>2 DEF Closing
      <4> QED BY <2>1, <2>4, <3>1, <4>1, CloseKeeps
    <3>3. Closing(t, g[i + 1], B)
      BY <2>2, <3>2, ClosingTrans
    <3> QED BY <2>1, <3>3
  <2>5. CASE ~(Ok(g[i]) /\ ~g[i].read[i + 1] /\ g[i].regions[i + 1].done)
    <3>1. g[i + 1] = g[i]
      BY <2>3, <2>5 DEF closes
    <3>2. Closing(t, g[i + 1], B)
      BY <2>2, <3>1
    <3> QED BY <2>1, <3>2
  <2> QED BY <2>4, <2>5
<1>5. n \in T
  <2>1. n \in 0..n
    BY <1>1
  <2> HIDE DEF T, n
  <2>2. \A i \in 0..n : i \in T
    BY <1>1, <1>3, <1>4, Reaches
  <2> QED BY <2>1, <2>2
<1> QED BY <1>2, <1>5

\* The parts that end with the text are read, and the books are kept (finishComposite).
LEMMA EndsKeep ==
  ASSUME def \in Definitions, NEW t, NEW B \in Nat, Kept(def, t, B)
  PROVE  Closing(t, finishComposite(t), B)
<1> DEFINE n == Len(def.parts)
<1>1. t \in Streamer(def) /\ n \in Nat /\ DOMAIN def.parts = 1..n
  BY PartsAre DEF Kept, Books
<1>2. PICK g : /\ g[0] = t /\ g[n] = FoldLeftDomain(finishes, t, def.parts)
               /\ \A i \in 0..(n - 1) : g[i + 1] = finishes(g[i], i + 1)
  BY <1>1, EndsFold
<1> DEFINE T == {i \in 0..n : Closing(t, g[i], B)}
<1>3. 0 \in T
  BY <1>1, <1>2 DEF Closing, SameFront
<1>4. ASSUME NEW i \in 0..(n - 1), i \in T PROVE i + 1 \in T
  <2>1. i + 1 \in DOMAIN def.parts /\ i + 1 \in 0..n
    BY <1>1
  <2>2. Closing(t, g[i], B)
    BY <1>4
  <2>3. g[i + 1] = finishes(g[i], i + 1)
    BY <1>2
  <2>4. CASE Ok(g[i]) /\ ~g[i].read[i + 1]
    <3>1. g[i + 1] = closePart(g[i], i + 1)
      BY <2>3, <2>4 DEF finishes
    <3>2. Closing(g[i], g[i + 1], B)
      <4>1. Kept(def, g[i], B)
        BY <2>2 DEF Closing
      <4> QED BY <2>1, <2>4, <3>1, <4>1, CloseKeeps
    <3>3. Closing(t, g[i + 1], B)
      BY <2>2, <3>2, ClosingTrans
    <3> QED BY <2>1, <3>3
  <2>5. CASE ~(Ok(g[i]) /\ ~g[i].read[i + 1])
    <3>1. g[i + 1] = g[i]
      BY <2>3, <2>5 DEF finishes
    <3>2. Closing(t, g[i + 1], B)
      BY <2>2, <3>1
    <3> QED BY <2>1, <3>2
  <2> QED BY <2>4, <2>5
<1>5. n \in T
  <2>1. n \in 0..n
    BY <1>1
  <2> HIDE DEF T, n
  <2>2. \A i \in 0..n : i \in T
    BY <1>1, <1>3, <1>4, Reaches
  <2> QED BY <2>1, <2>2
<1>6. Closing(t, g[n], B)
  BY <1>5
<1> QED BY <1>2, <1>6, Zenon DEF finishComposite

\* What is known of a line that goes from part to part.
Offer(d) == [t : Streamer(d), claimed : BOOLEAN, accounted : BOOLEAN, single : Nat]

\* What one part makes of one line.
Takes(t, u, k, l) ==
  /\ u \in Streamer(def) /\ Step(t, u, k, LineBytes(l.text)) /\ u.fates = t.fates
  /\ Ok(u) => Ok(t)

\* Nothing is a step of any part.
LEMMA SelfStep ==
  ASSUME def \in Definitions, NEW t \in Streamer(def), Ok(t), NEW k \in DOMAIN def.parts, NEW b \in Nat
  PROVE  Step(t, t, k, b)
<1>1. Load(t, k) \in Nat
  BY LoadNat
<1>2. Load(t, k) <= Load(t, k) + b
  BY <1>1
<1> QED BY <1>2 DEF Step, SameFront, Ok

\* A step after a change of what no book is about.
LEMMA StepAfter ==
  ASSUME NEW t, NEW r, NEW u, NEW k, NEW b, Step(r, u, k, b), SameFront(t, r), r.subs = t.subs, r.lines = t.lines,
         r.out = t.out, r.sent = t.sent, r.held = t.held
  PROVE  Step(t, u, k, b)
<1>1. \A j : Load(r, j) = Load(t, j)
  BY DEF Load
<1> QED BY <1>1 DEF Step, SameFront

\* One part is offered a line: it takes it to its group, or to its lines, where it is
\* counted, or leaves it (feedComposite).
LEMMA OfferedIs ==
  ASSUME def \in Definitions, NEW a \in Offer(def), Ok(a.t), NEW k \in DOMAIN def.parts, NEW l \in Line
  PROVE  LET c == Offered(a, k, l)
         IN /\ c \in Offer(def) /\ Takes(a.t, c.t, k, l)
            /\ Ok(c.t) => \/ c.t.lines[k] = a.t.lines[k] /\ c.single = a.single
                          \/ c.t.lines[k] = Append(a.t.lines[k], l) /\ c.single = a.single + 1
<1> DEFINE t == a.t
           b == LineBytes(l.text)
           ad == admit(def.parts[k].sel, t.regions[k], l)
           p == def.parts[k].parse
           u == Regioned(t, k, ad.region)
           mine == ad.inside /\ ~Opens(l, def.parts[k].ignore)
           single == mine /\ ~YieldsArray(p)
           v == CASE single -> Lining(u, k, l)
                  [] mine /\ ~single -> feedOne(u, k, p, l)
                  [] OTHER -> u
           c == Offered(a, k, l)
<1>1. /\ t \in Streamer(def) /\ a.claimed \in BOOLEAN /\ a.accounted \in BOOLEAN /\ a.single \in Nat
      /\ a = [t |-> a.t, claimed |-> a.claimed, accounted |-> a.accounted, single |-> a.single]
  BY DEF Offer
<1>2. b \in Nat
  BY LineNat
<1>3. CASE t.read[k]
  <2>1. c = a
    BY <1>3 DEF Offered
  <2>2. Step(t, t, k, b)
    BY <1>1, <1>2, SelfStep
  <2> QED BY <1>1, <2>1, <2>2 DEF Takes
<1>4. CASE ~t.read[k]
  <2>1. c = Admitted(a, k, l, ad)
    BY <1>4 DEF Offered
  <2>2. Admitted(a, k, l, ad) = OfferedAs(a, k, l, ad, u)
    BY DEF Admitted, Regioned
  <2>3. OfferedAs(a, k, l, ad, u) = [t |-> v, claimed |-> a.claimed \/ ad.heading \/ mine,
                                     accounted |-> a.accounted \/ ad.heading \/ (mine /\ ~single),
                                     single |-> a.single + IF single THEN 1 ELSE 0]
    BY Zenon DEF OfferedAs, Lining
  <2>4. /\ c.t = v /\ c.single = a.single + (IF single THEN 1 ELSE 0)
        /\ c = [t |-> c.t, claimed |-> c.claimed, accounted |-> c.accounted, single |-> c.single]
        /\ c.claimed \in BOOLEAN /\ c.accounted \in BOOLEAN
    <3> HIDE DEF v, mine, single, ad, c
    <3>1. c = [t |-> v, claimed |-> a.claimed \/ ad.heading \/ mine,
               accounted |-> a.accounted \/ ad.heading \/ (mine /\ ~single),
               single |-> a.single + IF single THEN 1 ELSE 0]
      BY <2>1, <2>2, <2>3
    <3> QED BY <3>1
  <2>5. ad.region \in Region
    <3>1. t.regions[k] \in Region
      BY <1>1 DEF Streamer
    <3> QED BY <3>1, AdmitIs
  <2> HIDE DEF ad, c
  <2>6. /\ u \in Streamer(def) /\ SameFront(t, u) /\ u.subs = t.subs /\ u.lines = t.lines /\ u.out = t.out
        /\ u.fates = t.fates /\ u.sent = t.sent /\ u.held = t.held /\ u.err = t.err
    <3> DEFINE r == ad.region
    <3>1. r \in Region
      BY <2>5
    <3> HIDE DEF r
    <3> SUFFICES /\ Regioned(t, k, r) \in Streamer(def) /\ SameFront(t, Regioned(t, k, r))
                 /\ Regioned(t, k, r).subs = t.subs /\ Regioned(t, k, r).lines = t.lines /\ Regioned(t, k, r).out = t.out
                 /\ Regioned(t, k, r).fates = t.fates /\ Regioned(t, k, r).sent = t.sent
                 /\ Regioned(t, k, r).held = t.held /\ Regioned(t, k, r).err = t.err
      BY DEF r
    <3> HIDE DEF t
    <3> QED BY <1>1, <3>1, RegionedIs
  <2>7. Ok(u)
    BY <2>6 DEF Ok
  <2> HIDE DEF u, mine, t
  <2>8. CASE single
    <3>1. v = Lining(u, k, l) /\ c.single = a.single + 1
      BY <2>4, <2>8
    <3>2. /\ v \in Streamer(def) /\ Step(u, v, k, b) /\ v.fates = u.fates
          /\ Ok(v) => v.lines[k] = Append(u.lines[k], l)
      BY <2>6, <2>7, <3>1, LiningIs
    <3>3. Step(t, v, k, b)
      BY <2>6, <3>2, StepAfter
    <3>4. c.single \in Nat
      BY <1>1, <3>1
    <3> HIDE DEF v, b, single
    <3>5. c \in Offer(def)
      BY <2>4, <3>2, <3>4 DEF Offer
    <3> QED BY <2>4, <2>6, <3>1, <3>2, <3>3, <3>5 DEF Takes, c, t, b
  <2>9. CASE ~single
    <3>1. c.single = a.single
      BY <1>1, <2>4, <2>9
    <3>2. v \in Streamer(def) /\ Step(u, v, k, b) /\ v.lines = u.lines /\ v.fates = u.fates
      <4>1. CASE mine
        <5>1. v = feedOne(u, k, p, l)
          BY <2>9, <4>1
        <5>2. p.type \in Types \ {"single"}
          <6>1. YieldsArray(p)
            BY <2>9, <4>1
          <6>2. p.type # "single"
            BY <6>1 DEF YieldsArray
          <6> QED BY <6>2, DefinitionsAssumption
        <5>3. v \in Streamer(def) /\ Fed(u, v, k, b)
          BY <2>6, <2>7, <5>1, <5>2, OneFed
        <5> HIDE DEF v, b
        <5> QED BY <1>2, <2>6, <5>3, FedStep
      <4>2. CASE ~mine
        <5>1. v = u
          BY <4>2
        <5> HIDE DEF v
        <5> QED BY <1>2, <2>6, <2>7, <5>1, SelfStep
      <4> QED BY <4>1, <4>2
    <3> HIDE DEF v, b, single
    <3>3. Step(t, v, k, b)
      BY <2>6, <3>2, StepAfter
    <3>4. c \in Offer(def)
      BY <1>1, <2>4, <3>1, <3>2 DEF Offer
    <3> QED BY <2>4, <2>6, <3>1, <3>2, <3>3, <3>4 DEF Takes, c, t, b
  <2> QED BY <2>8, <2>9
<1> QED BY <1>3, <1>4

\* A part that is offered a line leaves a streamer.
LEMMA OffersTyped ==
  ASSUME def \in Definitions, NEW l \in Line, NEW a \in Offer(def), NEW k \in DOMAIN def.parts
  PROVE  Offered(a, k, l) \in Offer(def)
<1>1. CASE Ok(a.t)
  BY <1>1, OfferedIs
<1>2. CASE ~Ok(a.t)
  BY <1>2 DEF Offered
<1> QED BY <1>1, <1>2

\* offerTo, over the positions of the parts.
OfferOver(b, l, at) == FoldLeft(LAMBDA a, k : Offered(a, k, l), b, at)

\* The parts are offered a line one after the other.
LEMMA OffersFold ==
  ASSUME def \in Definitions, NEW l \in Line, NEW b \in Offer(def)
  PROVE  \E g : /\ g[0] = b /\ g[Len(def.parts)] = offerTo(b, l)
                /\ \A i \in 0..(Len(def.parts) - 1) : g[i + 1] = Offered(g[i], i + 1, l)
<1> DEFINE n == Len(def.parts)
           at == [i \in DOMAIN def.parts |-> i]
           S == DOMAIN at
           A == Offer(def)
           F == [p \in A \X (1..n) |-> Offered(p[1], p[2], l)]
<1>1. n \in Nat /\ DOMAIN def.parts = 1..n
  BY PartsAre
<1>2. S = 1..n /\ \A i \in 1..n : at[i] = i
  BY <1>1
<1>3. F \in [A \X (1..n) -> A]
  <2>1. \A p \in A \X (1..n) : Offered(p[1], p[2], l) \in A
    BY <1>1, OffersTyped
  <2> HIDE DEF A
  <2> QED BY <2>1
<1>4. PICK h \in [SUBSET (1..n) -> A] : IsTable(h, n, b, F)
  <2>1. b \in A
    OBVIOUS
  <2> HIDE DEF F, n, A
  <2> QED BY <1>1, <1>3, <2>1, TableExists, Zenon
<1> HIDE DEF at
<1>5. ASSUME NEW T \in SUBSET S PROVE h[T] = IF T = {} THEN b ELSE Offered(h[T \ {Max(T)}], at[Max(T)], l)
  <2>1. CASE T = {}
    BY <1>2, <1>4, <2>1 DEF IsTable
  <2>2. CASE T # {}
    <3>1. Max(T) \in 1..n /\ T \ {Max(T)} \in SUBSET (1..n)
      BY <1>1, <1>2, <2>2, MaxIsLast
    <3>2. h[T] = F[<<h[T \ {Max(T)}], Max(T)>>]
      BY <1>2, <1>4, <2>2 DEF IsTable
    <3>3. h[T \ {Max(T)}] \in A
      BY <1>4, <3>1
    <3>4. <<h[T \ {Max(T)}], Max(T)>> \in A \X (1..n)
      BY <3>1, <3>3
    <3> HIDE DEF A
    <3> QED BY <1>2, <2>2, <3>1, <3>2, <3>4
  <2> QED BY <2>1, <2>2
<1>6. h = [T \in SUBSET S |-> IF T = {} THEN b ELSE Offered(h[T \ {Max(T)}], at[Max(T)], l)]
  <2> HIDE DEF S, A
  <2> QED BY <1>2, <1>4, <1>5
<1>a. offerTo(b, l) = OfferOver(b, l, at)
  BY Zenon DEF offerTo, OfferOver, FoldLeftDomain, FoldLeft, MapThenFoldSet, at
<1>7. PICK f : /\ f = [T \in SUBSET S |-> IF T = {} THEN b ELSE Offered(f[T \ {Max(T)}], at[Max(T)], l)]
               /\ offerTo(b, l) = f[S]
  BY <1>a, <1>6, Zenon DEF OfferOver, FoldLeft, MapThenFoldSet
<1> DEFINE g == [i \in 0..n |-> f[1..i]]
<1>8. g[0] = b
  BY <1>1, <1>2, <1>7
<1>9. ASSUME NEW i \in 0..(n - 1) PROVE g[i + 1] = Offered(g[i], i + 1, l)
  <2> DEFINE j == i + 1
  <2>1. j \in 1..n /\ j - 1 = i /\ i \in 0..n /\ j \in 0..n
    BY <1>1
  <2> HIDE DEF j
  <2>2. 1..j \in SUBSET S /\ 1..j # {} /\ Max(1..j) = j /\ (1..j) \ {Max(1..j)} = 1..i
    BY <1>1, <1>2, <2>1, PrefixIs
  <2>3. f[1..j] = Offered(f[(1..j) \ {Max(1..j)}], at[Max(1..j)], l)
    BY <1>7, <2>2
  <2>4. f[1..j] = Offered(f[1..i], j, l)
    BY <1>2, <2>1, <2>2, <2>3, Zenon
  <2> QED BY <2>1, <2>4, Zenon DEF j
<1>10. g[n] = offerTo(b, l)
  BY <1>1, <1>2, <1>7
<1> HIDE DEF g
<1> QED BY <1>8, <1>9, <1>10

\* The numbers of the lines with one more.
LEMMA NumsAppend ==
  ASSUME NEW ls \in Lines, NEW l \in Line
  PROVE  Nums(Append(ls, l)) = Nums(ls) \union {l.num}
<1> DEFINE more == Append(ls, l)
           n == Len(ls)
<1>1. /\ n \in Nat /\ DOMAIN ls = 1..n /\ DOMAIN more = 1..(n + 1) /\ more[n + 1] = l
      /\ \A i \in 1..n : more[i] = ls[i]
  BY DEF Lines
<1> HIDE DEF more, n
<1>2. Nums(more) \subseteq Nums(ls) \union {l.num}
  <2> SUFFICES ASSUME NEW i \in 1..(n + 1) PROVE more[i].num \in Nums(ls) \union {l.num}
    BY <1>1 DEF Nums
  <2>1. i \in 1..n \/ i = n + 1
    BY <1>1
  <2> QED BY <1>1, <2>1 DEF Nums
<1>3. l.num \in Nums(more)
  <2>1. n + 1 \in DOMAIN more
    BY <1>1
  <2> QED BY <1>1, <2>1 DEF Nums
<1>4. Nums(ls) \subseteq Nums(more)
  <2> SUFFICES ASSUME NEW i \in 1..n PROVE ls[i].num \in Nums(more)
    BY <1>1 DEF Nums
  <2>1. i \in DOMAIN more
    BY <1>1
  <2> QED BY <1>1, <2>1 DEF Nums
<1> QED BY <1>2, <1>3, <1>4 DEF more

\* There is room for b more bytes in every part.
Room(t, b, B) == \A k \in DOMAIN def.parts : FrontBytes(t) + Load(t, k) + b <= B

\* The first i parts were offered the line.
Offering(t, l, a, i, B) ==
  /\ a \in Offer(def) /\ Books(def, a.t, B) /\ SameFront(t, a.t) /\ a.t.fates = t.fates
  /\ Ok(a.t) =>
       /\ Ok(t)
       /\ \A j \in DOMAIN def.parts : j > i => Load(a.t, j) = Load(t, j) /\ a.t.lines[j] = t.lines[j]
       /\ \A j \in DOMAIN def.parts : a.t.lines[j] = t.lines[j] \/ a.t.lines[j] = Append(t.lines[j], l)
       /\ a.single = Cardinality({j \in 1..i : l.num \in Nums(a.t.lines[j])})

\* A line whose fate is not open is held by no part of one value.
LEMMA NewLine ==
  ASSUME def \in Definitions, NEW t \in Streamer(def), FatesOpen(def, t), NEW num, num \notin DOMAIN t.fates
  PROVE  \A k \in DOMAIN def.parts : num \notin Nums(t.lines[k])
BY DEF FatesOpen

\* One more part is offered the line, and what was said of the first ones is said of
\* it.
LEMMA OfferingOne ==
  ASSUME def \in Definitions, NEW t \in Streamer(def), NEW l \in Line, NEW B \in Nat, Room(t, LineBytes(l.text), B),
         \A k \in DOMAIN def.parts : l.num \notin Nums(t.lines[k]),
         NEW i \in 0..(Len(def.parts) - 1), NEW a, Offering(t, l, a, i, B)
  PROVE  Offering(t, l, Offered(a, i + 1, l), i + 1, B)
<1> DEFINE k == i + 1
           c == Offered(a, k, l)
           b == LineBytes(l.text)
<1>1. /\ k \in DOMAIN def.parts /\ k \in Nat /\ i \in Nat /\ b \in Nat /\ 1..k = 1..i \union {k} /\ k \notin 1..i
      /\ 1..i \subseteq DOMAIN def.parts /\ IsFiniteSet(1..i)
  <2>1. Len(def.parts) \in Nat /\ DOMAIN def.parts = 1..Len(def.parts)
    BY PartsAre
  <2>2. IsFiniteSet(1..i)
    BY FS_Interval, 1 \in Int, i \in Int
  <2> QED BY <2>1, <2>2, LineNat
<1>2. a \in Offer(def) /\ Books(def, a.t, B) /\ SameFront(t, a.t) /\ a.t.fates = t.fates
  BY DEF Offering
<1>3. CASE ~Ok(a.t)
  <2>1. c = a
    BY <1>3 DEF Offered
  <2> QED BY <1>3, <2>1 DEF Offering
<1>4. CASE Ok(a.t)
  <2>1. /\ \A j \in DOMAIN def.parts : j > i => Load(a.t, j) = Load(t, j) /\ a.t.lines[j] = t.lines[j]
        /\ \A j \in DOMAIN def.parts : a.t.lines[j] = t.lines[j] \/ a.t.lines[j] = Append(t.lines[j], l)
        /\ a.single = Cardinality({j \in 1..i : l.num \in Nums(a.t.lines[j])}) /\ Ok(t)
    BY <1>4 DEF Offering
  <2>2. /\ c \in Offer(def) /\ Takes(a.t, c.t, k, l)
        /\ Ok(c.t) => \/ c.t.lines[k] = a.t.lines[k] /\ c.single = a.single
                      \/ c.t.lines[k] = Append(a.t.lines[k], l) /\ c.single = a.single + 1
    BY <1>1, <1>2, <1>4, OfferedIs
  <2> HIDE DEF c, k
  <2>3. /\ c.t \in Streamer(def) /\ Step(a.t, c.t, k, b) /\ c.t.fates = a.t.fates
    BY <2>2 DEF Takes
  <2> HIDE DEF b
  <2>4. Load(a.t, k) = Load(t, k) /\ a.t.lines[k] = t.lines[k] /\ FrontBytes(a.t) = FrontBytes(t)
    BY <1>1, <1>2, <2>1 DEF k, SameFront, FrontBytes
  <2>5. FrontBytes(a.t) + Load(a.t, k) + b <= B
    BY <1>1, <2>4 DEF Room, b
  <2>6. Books(def, c.t, B)
    BY <1>1, <1>2, <1>4, <2>3, <2>5, StepBooks
  <2>7. SameFront(t, c.t) /\ c.t.fates = t.fates
    BY <1>2, <2>3 DEF Step, SameFront
  <2>8. \A j \in DOMAIN def.parts : j # k => Load(c.t, j) = Load(a.t, j) /\ c.t.lines[j] = a.t.lines[j]
    BY <2>3 DEF Step
  <2>9. \A j \in DOMAIN def.parts : j > k => Load(c.t, j) = Load(t, j) /\ c.t.lines[j] = t.lines[j]
    <3> SUFFICES ASSUME NEW j \in DOMAIN def.parts, j > k PROVE Load(c.t, j) = Load(t, j) /\ c.t.lines[j] = t.lines[j]
      OBVIOUS
    <3>1. j > i /\ j # k
      <4>1. j \in Nat
        BY PartsAre
      <4> QED BY <1>1, <4>1 DEF k
    <3> QED BY <2>1, <2>8, <3>1
  <2>10. ASSUME Ok(c.t)
         PROVE  /\ \A j \in DOMAIN def.parts : c.t.lines[j] = t.lines[j] \/ c.t.lines[j] = Append(t.lines[j], l)
                /\ c.single = Cardinality({j \in 1..k : l.num \in Nums(c.t.lines[j])})
    <3> DEFINE S == {j \in 1..i : l.num \in Nums(a.t.lines[j])}
               U == {j \in 1..k : l.num \in Nums(c.t.lines[j])}
    <3>1. IsFiniteSet(S) /\ k \notin S
      BY <1>1, FS_Subset
    <3>2. \A j \in 1..i : c.t.lines[j] = a.t.lines[j]
      BY <1>1, <2>8
    <3>3. CASE c.t.lines[k] = a.t.lines[k] /\ c.single = a.single
      <4>1. l.num \notin Nums(c.t.lines[k])
        BY <1>1, <2>4, <3>3
      <4>2. U = S
        BY <1>1, <3>2, <4>1
      <4>3. \A j \in DOMAIN def.parts : c.t.lines[j] = a.t.lines[j]
        BY <2>8, <3>3
      <4> QED BY <2>1, <3>3, <4>2, <4>3
    <3>4. CASE c.t.lines[k] = Append(a.t.lines[k], l) /\ c.single = a.single + 1
      <4>0. a.t.lines[k] \in Lines
        <5>1. a.t \in Streamer(def)
          BY <1>2 DEF Books
        <5> QED BY <1>1, <5>1, LoadNat
      <4>1. l.num \in Nums(c.t.lines[k])
        BY <3>4, <4>0, NumsAppend
      <4>2. U = S \union {k}
        BY <1>1, <3>2, <4>1
      <4> HIDE DEF S, U
      <4>3. Cardinality(U) = Cardinality(S) + 1
        BY <3>1, <4>2, FS_AddElement
      <4>4. c.single = Cardinality(U)
        BY <2>1, <3>4, <4>3 DEF S
      <4>5. \A j \in DOMAIN def.parts : c.t.lines[j] = t.lines[j] \/ c.t.lines[j] = Append(t.lines[j], l)
        <5> SUFFICES ASSUME NEW j \in DOMAIN def.parts PROVE c.t.lines[j] = t.lines[j] \/ c.t.lines[j] = Append(t.lines[j], l)
          OBVIOUS
        <5>1. CASE j = k
          BY <2>4, <3>4, <5>1
        <5>2. CASE j # k
          BY <2>1, <2>8, <5>2
        <5> QED BY <5>1, <5>2
      <4> QED BY <4>4, <4>5 DEF U
    <3> QED BY <2>2, <2>10, <3>3, <3>4
  <2> QED BY <2>1, <2>2, <2>6, <2>7, <2>9, <2>10 DEF Offering, c, k
<1> QED BY <1>3, <1>4

\* A line that was not offered yet.
Begun(t) == [t |-> t, claimed |-> FALSE, accounted |-> FALSE, single |-> 0]

\* All the parts were offered the line: the books are kept, and it is counted as often
\* as it is held.
LEMMA OfferingAll ==
  ASSUME def \in Definitions, NEW t \in Streamer(def), NEW l \in Line, NEW B \in Nat, Room(t, LineBytes(l.text), B),
         Books(def, t, B), Ok(t), \A k \in DOMAIN def.parts : l.num \notin Nums(t.lines[k])
  PROVE  Offering(t, l, offerTo(Begun(t), l), Len(def.parts), B)
<1> DEFINE n == Len(def.parts)
           e == Begun(t)
<1>1. n \in Nat /\ DOMAIN def.parts = 1..n
  BY PartsAre
<1>2. e \in Offer(def) /\ e.t = t /\ e.single = 0
  BY DEF Begun, Offer
<1>3. Offering(t, l, e, 0, B)
  <2>1. {j \in 1..0 : l.num \in Nums(t.lines[j])} = {}
    OBVIOUS
  <2>2. Cardinality({j \in 1..0 : l.num \in Nums(t.lines[j])}) = 0
    BY <2>1, FS_EmptySet
  <2> HIDE DEF e
  <2> QED BY <1>2, <2>2 DEF Offering, SameFront
<1> HIDE DEF e
<1>4. PICK g : /\ g[0] = e /\ g[n] = offerTo(e, l)
               /\ \A i \in 0..(n - 1) : g[i + 1] = Offered(g[i], i + 1, l)
  BY <1>1, <1>2, OffersFold
<1> DEFINE T == {i \in 0..n : Offering(t, l, g[i], i, B)}
<1>5. 0 \in T
  BY <1>1, <1>3, <1>4
<1>6. ASSUME NEW i \in 0..(n - 1), i \in T PROVE i + 1 \in T
  <2>1. Offering(t, l, Offered(g[i], i + 1, l), i + 1, B)
    BY <1>6, OfferingOne
  <2>2. i + 1 \in 0..n
    BY <1>1
  <2> QED BY <1>4, <2>1, <2>2
<1>7. n \in T
  <2>1. n \in 0..n
    BY <1>1
  <2> HIDE DEF T, n
  <2>2. \A i \in 0..n : i \in T
    BY <1>1, <1>5, <1>6, Reaches
  <2> QED BY <2>1, <2>2
<1>8. Offering(t, l, g[n], n, B)
  BY <1>7
<1> QED BY <1>4, <1>8 DEF e

\* A line went to the parsers: only its own fate may open.
Handed(t, u, num, B) ==
  /\ Kept(def, u, B) /\ SameFront(t, u)
  /\ Ok(u) => Ok(t) /\ DOMAIN u.fates \subseteq DOMAIN t.fates \union {num}

\* A failure that is not about the size keeps the books.
LEMMA FailKeeps ==
  ASSUME def \in Definitions, NEW t, NEW B, Books(def, t, B), NEW why \in {"refused", "unread", "emit"}
  PROVE  /\ Kept(def, Fail(t, why), B) /\ SameFront(t, Fail(t, why)) /\ Fail(t, why).err = why
         /\ ~Ok(Fail(t, why))
<1> DEFINE u == Fail(t, why)
<1>1. t \in Streamer(def) /\ t.sent = Total(Sents(def, t))
  BY DEF Books
<1>2. /\ u \in Streamer(def) /\ u.err = why /\ Rest(t, u) /\ u.subs = t.subs /\ u.out = t.out
      /\ u.held = t.held /\ u.sent = t.sent
  BY <1>1, Failed
<1> HIDE DEF u
<1>3. Sents(def, u) = Sents(def, t)
  BY <1>2 DEF Sents
<1>4. Books(def, u, B) /\ ~Ok(u)
  BY <1>1, <1>2, <1>3 DEF Books, Ok
<1> QED BY <1>2, <1>4 DEF Kept, u, Rest, SameFront

\* Another table of fates, if it is the right one, and the books are kept.
LEMMA FatedKeeps ==
  ASSUME def \in Definitions, NEW t, NEW B, Books(def, t, B), Ok(t), NEW f \in Fates, FatesOpen(def, Fated(t, f))
  PROVE  /\ Kept(def, Fated(t, f), B) /\ SameFront(t, Fated(t, f)) /\ Fated(t, f).fates = f /\ Ok(Fated(t, f))
<1> DEFINE u == Fated(t, f)
<1>1. t \in Streamer(def) /\ t.sent = Total(Sents(def, t)) /\ Charged(def, t) /\ Fits(def, t, B)
  BY DEF Books
<1>2. /\ u \in Streamer(def) /\ SameFront(t, u) /\ u.subs = t.subs /\ u.out = t.out /\ u.lines = t.lines
      /\ u.fates = f /\ u.sent = t.sent /\ u.held = t.held /\ u.err = t.err
  BY <1>1, FatedIs
<1>3. FatesOpen(def, u)
  OBVIOUS
<1> HIDE DEF u
<1>4. Sents(def, u) = Sents(def, t) /\ Loads(def, u) = Loads(def, t) /\ FrontBytes(u) = FrontBytes(t) /\ \A k : Load(u, k) = Load(t, k)
  BY <1>2 DEF Sents, Loads, Load, FrontBytes, SameFront
<1>5. Books(def, u, B)
  BY <1>1, <1>2, <1>4 DEF Books, Charged, Fits, Ok
<1> QED BY <1>2, <1>3, <1>5 DEF Kept, u, Ok

\* The fate of a line opens with the number of parts that hold it (fate).
LEMMA FateKeeps ==
  ASSUME def \in Definitions, NEW t, NEW l \in Line, NEW B \in Nat, NEW a, Offering(t, l, a, Len(def.parts), B), Ok(a.t),
         t \in Streamer(def), FatesOpen(def, t), l.num \notin DOMAIN t.fates
  PROVE  LET u == fate(a.t, a, l)
         IN /\ Kept(def, u, B) /\ SameFront(t, u) /\ Ok(u) /\ Ok(t)
            /\ DOMAIN u.fates \subseteq DOMAIN t.fates \union {l.num}
<1> DEFINE v == a.t
           u == fate(v, a, l)
           S == Holders(def, v, l.num)
           m == l.num
           more == [n \in DOMAIN t.fates \union {m} |-> IF n = m THEN [pending |-> a.single, read |-> a.accounted] ELSE t.fates[n]]
<1>1. /\ a \in Offer(def) /\ Books(def, v, B) /\ SameFront(t, v) /\ v.fates = t.fates /\ Ok(t) /\ v \in Streamer(def)
      /\ \A j \in DOMAIN def.parts : v.lines[j] = t.lines[j] \/ v.lines[j] = Append(t.lines[j], l)
      /\ a.single = Cardinality(S)
  <2>1. DOMAIN def.parts = 1..Len(def.parts)
    BY PartsAre
  <2>2. a \in Offer(def) /\ Books(def, v, B) /\ SameFront(t, v) /\ v.fates = t.fates
    BY DEF Offering
  <2>3. v \in Streamer(def)
    BY <2>2 DEF Books
  <2> QED BY <2>1, <2>2, <2>3 DEF Offering, Holders
<1>2. \A j \in DOMAIN def.parts : m \notin Nums(t.lines[j])
  BY NewLine
<1>3. ASSUME NEW j \in DOMAIN def.parts
      PROVE  /\ m \notin Nums(v.lines[j]) => v.lines[j] = t.lines[j]
             /\ Nums(v.lines[j]) \ {m} = Nums(t.lines[j])
  <2>1. t.lines[j] \in Lines
    BY LoadNat
  <2>2. Nums(Append(t.lines[j], l)) = Nums(t.lines[j]) \union {m}
    BY <2>1, NumsAppend
  <2> QED BY <1>1, <1>2, <2>2
<1>4. ASSUME NEW n, n # m PROVE Holders(def, v, n) = Holders(def, t, n)
  BY <1>3, <1>4 DEF Holders
<1>5. /\ DOMAIN t.fates = UNION {Nums(t.lines[k]) : k \in DOMAIN def.parts}
      /\ \A n \in DOMAIN t.fates : t.fates[n].pending = Cardinality(Holders(def, t, n))
  BY DEF FatesOpen
<1>6. a.single \in Nat /\ (a.single > 0 <=> \E j \in DOMAIN def.parts : m \in Nums(v.lines[j]))
  BY <1>1, HoldersAre
<1> HIDE DEF v, S, u
<1>7. CASE a.single = 0
  <2>1. u = v
    BY <1>7 DEF u, fate
  <2>2. \A j \in DOMAIN def.parts : v.lines[j] = t.lines[j]
    BY <1>3, <1>6, <1>7
  <2>3. \A n : Holders(def, v, n) = Holders(def, t, n)
    BY <2>2 DEF Holders
  <2>4. UNION {Nums(v.lines[k]) : k \in DOMAIN def.parts} = UNION {Nums(t.lines[k]) : k \in DOMAIN def.parts}
    BY <2>2
  <2>5. FatesOpen(def, v)
    BY <1>1, <1>5, <2>3, <2>4 DEF FatesOpen
  <2>6. Ok(v)
    BY DEF v
  <2> QED BY <1>1, <2>1, <2>5, <2>6 DEF Kept, u, v
<1>8. CASE a.single # 0
  <2>1. u = Fated(v, more)
    BY <1>1, <1>8, Zenon DEF u, fate, Fated
  <2>2. DOMAIN t.fates \in SUBSET Nat /\ m \in Nat /\ a.single \in Int /\ a.accounted \in BOOLEAN
        /\ \A n \in DOMAIN t.fates : t.fates[n] \in [pending : Int, read : BOOLEAN]
    BY <1>1, <1>6, LineNat, FatesAre DEF Offer
  <2>3. more \in Fates
    <3> DEFINE D == DOMAIN t.fates \union {m}
    <3>1. more \in [D -> [pending : Int, read : BOOLEAN]]
      BY <2>2
    <3>2. D \in SUBSET Nat
      BY <2>2
    <3> HIDE DEF more, D
    <3> QED BY <3>1, <3>2, FatesIn
  <2>4. /\ DOMAIN more = DOMAIN t.fates \union {m} /\ more[m].pending = a.single
        /\ \A n \in DOMAIN t.fates : more[n] = t.fates[n]
    OBVIOUS
  <2> HIDE DEF more
  <2>5. FatesOpen(def, u)
    <3>1. u.fates = more /\ u.lines = v.lines
      BY <1>1, <2>1, <2>3, FatedIs
    <3>2. DOMAIN more = UNION {Nums(v.lines[k]) : k \in DOMAIN def.parts}
      <4>1. m \in UNION {Nums(v.lines[k]) : k \in DOMAIN def.parts}
        BY <1>6, <1>8
      <4>2. DOMAIN t.fates = UNION {Nums(v.lines[k]) \ {m} : k \in DOMAIN def.parts}
        BY <1>3, <1>5
      <4> HIDE DEF m
      <4> QED BY <2>4, <4>1, <4>2
    <3>3. \A n \in DOMAIN more : more[n].pending = Cardinality(Holders(def, v, n))
      <4> SUFFICES ASSUME NEW n \in DOMAIN more PROVE more[n].pending = Cardinality(Holders(def, v, n))
        OBVIOUS
      <4>1. CASE n = m
        BY <1>1, <2>4, <4>1 DEF S
      <4>2. CASE n # m
        BY <1>4, <1>5, <2>4, <4>2
      <4> QED BY <4>1, <4>2
    <3>4. \A n : Holders(def, u, n) = Holders(def, v, n)
      BY <3>1 DEF Holders
    <3> QED BY <3>1, <3>2, <3>3, <3>4 DEF FatesOpen
  <2>6. Kept(def, u, B) /\ SameFront(v, u) /\ u.fates = more /\ Ok(u)
    <3>1. Ok(v)
      BY DEF v
    <3> QED BY <1>1, <2>1, <2>3, <2>5, <3>1, FatedKeeps
  <2> QED BY <1>1, <2>4, <2>6 DEF SameFront, u, v
<1> QED BY <1>7, <1>8

\* A line handed to a composite keeps the books, if there is room for it
\* (feedComposite).
LEMMA CompositeHanded ==
  ASSUME def \in Definitions, NEW t, NEW l \in Line, NEW B \in Nat, Kept(def, t, B), Ok(t), Room(t, LineBytes(l.text), B),
         l.num \notin DOMAIN t.fates
  PROVE  Handed(t, feedComposite(t, l), l.num, B)
<1> DEFINE a == offerTo(Begun(t), l)
           v == fate(a.t, a, l)
           u == feedComposite(t, l)
<1>1. t \in Streamer(def) /\ Books(def, t, B) /\ FatesOpen(def, t)
  BY DEF Kept, Books
<1>2. Offering(t, l, a, Len(def.parts), B)
  BY <1>1, NewLine, OfferingAll
<1>3. u = HandedRound(a, l)
  BY DEF feedComposite, Begun
<1> HIDE DEF a, u
<1>4. Books(def, a.t, B) /\ SameFront(t, a.t)
  BY <1>2 DEF Offering
<1>5. CASE ~Ok(a.t)
  <2>1. u = a.t
    BY <1>3, <1>5 DEF HandedRound
  <2> QED BY <1>4, <1>5, <2>1 DEF Handed, Kept, u
<1>6. CASE Ok(a.t) /\ ~a.claimed /\ ~Blank(l)
  <2>1. u = Fail(a.t, "unread")
    BY <1>3, <1>6 DEF HandedRound
  <2>2. Kept(def, u, B) /\ SameFront(a.t, u) /\ ~Ok(u)
    BY <1>4, <2>1, FailKeeps
  <2> QED BY <1>4, <2>2 DEF Handed, SameFront, u
<1>7. CASE Ok(a.t) /\ ~(~a.claimed /\ ~Blank(l))
  <2>1. u = FoldLeftDomain(closes, v, def.parts)
    BY <1>3, <1>7 DEF HandedRound
  <2>2. /\ Kept(def, v, B) /\ SameFront(t, v) /\ Ok(v) /\ Ok(t)
        /\ DOMAIN v.fates \subseteq DOMAIN t.fates \union {l.num}
    BY <1>1, <1>2, <1>7, FateKeeps
  <2> HIDE DEF v
  <2>3. Closing(v, u, B)
    BY <2>1, <2>2, ClosesKeep
  <2> QED BY <2>2, <2>3 DEF Handed, Closing, SameFront, u
<1> QED BY <1>5, <1>6, <1>7

\* A line handed to the parsers keeps the books, if there is room for it (feedRecord).
LEMMA RecordHanded ==
  ASSUME def \in Definitions, NEW t, NEW l \in Line, NEW B \in Nat, Kept(def, t, B), Ok(t), Room(t, LineBytes(l.text), B),
         l.num \notin DOMAIN t.fates
  PROVE  Handed(t, feedRecord(t, l), l.num, B)
<1> DEFINE b == LineBytes(l.text)
           p == def.parts[1].parse
           u == feedOne(t, 1, p, l)
<1>1. CASE def.composite
  BY <1>1, CompositeHanded DEF feedRecord
<1>2. CASE ~def.composite
  <2>1. t \in Streamer(def) /\ Books(def, t, B) /\ FatesOpen(def, t) /\ 1 \in DOMAIN def.parts /\ b \in Nat
    BY PartsAre, LineNat DEF Kept, Books
  <2>2. p.type \in Types \ {"single"}
    BY <1>2, <2>1, DefinitionsAssumption
  <2>3. u \in Streamer(def) /\ Fed(t, u, 1, b)
    BY <2>1, <2>2, OneFed
  <2>4. feedRecord(t, l) = u
    BY <1>2 DEF feedRecord
  <2> HIDE DEF u
  <2>5. FrontBytes(t) + Load(t, 1) + b <= B
    BY <2>1 DEF Room
  <2> HIDE DEF b
  <2>6. Step(t, u, 1, b) /\ u.lines = t.lines /\ u.fates = t.fates
    BY <2>1, <2>3, FedStep
  <2>7. Books(def, u, B)
    BY <2>1, <2>3, <2>5, <2>6, StepBooks
  <2>8. FatesOpen(def, u)
    <3>1. \A n : Holders(def, u, n) = Holders(def, t, n)
      BY <2>6 DEF Holders
    <3> QED BY <2>1, <2>6, <3>1 DEF FatesOpen
  <2> QED BY <2>4, <2>6, <2>7, <2>8 DEF Handed, Kept, Step
<1> QED BY <1>1, <1>2

-----------------------------------------------------------------------------
(* The selection.                                                         *)

\* Parts that close, in trouble or not, leave a streamer.
LEMMA ClosesStay ==
  ASSUME def \in Definitions, NEW t \in Streamer(def)
  PROVE  FoldLeftDomain(closes, t, def.parts) \in Streamer(def)
<1> DEFINE n == Len(def.parts)
<1>1. n \in Nat /\ DOMAIN def.parts = 1..n
  BY PartsAre
<1>2. PICK g : /\ g[0] = t /\ g[n] = FoldLeftDomain(closes, t, def.parts)
               /\ \A i \in 0..(n - 1) : g[i + 1] = closes(g[i], i + 1)
  BY ClosesFold
<1> DEFINE T == {i \in 0..n : g[i] \in Streamer(def)}
<1>3. 0 \in T
  BY <1>1, <1>2
<1>4. ASSUME NEW i \in 0..(n - 1), i \in T PROVE i + 1 \in T
  <2>1. i + 1 \in DOMAIN def.parts /\ i + 1 \in 0..n
    BY <1>1
  <2>2. closes(g[i], i + 1) \in Streamer(def)
    BY <1>4, <2>1, ClosesTyped
  <2> QED BY <1>2, <2>1, <2>2
<1>5. n \in T
  <2>1. n \in 0..n
    BY <1>1
  <2> HIDE DEF T, n
  <2>2. \A i \in 0..n : i \in T
    BY <1>1, <1>3, <1>4, Reaches
  <2> QED BY <2>1, <2>2
<1> QED BY <1>2, <1>5

\* Parts that are offered a line, in trouble or not, leave a streamer.
LEMMA OffersStay ==
  ASSUME def \in Definitions, NEW t \in Streamer(def), NEW l \in Line
  PROVE  offerTo(Begun(t), l) \in Offer(def)
<1> DEFINE n == Len(def.parts)
           e == Begun(t)
<1>1. n \in Nat /\ DOMAIN def.parts = 1..n
  BY PartsAre
<1>2. e \in Offer(def)
  BY DEF Begun, Offer
<1> HIDE DEF e
<1>3. PICK g : /\ g[0] = e /\ g[n] = offerTo(e, l)
               /\ \A i \in 0..(n - 1) : g[i + 1] = Offered(g[i], i + 1, l)
  BY <1>1, <1>2, OffersFold
<1> DEFINE T == {i \in 0..n : g[i] \in Offer(def)}
<1>4. 0 \in T
  BY <1>1, <1>2, <1>3
<1>5. ASSUME NEW i \in 0..(n - 1), i \in T PROVE i + 1 \in T
  <2>1. i + 1 \in DOMAIN def.parts /\ i + 1 \in 0..n
    BY <1>1
  <2>2. Offered(g[i], i + 1, l) \in Offer(def)
    BY <1>5, <2>1, OffersTyped
  <2> QED BY <1>3, <2>1, <2>2
<1>6. n \in T
  <2>1. n \in 0..n
    BY <1>1
  <2> HIDE DEF T, n
  <2>2. \A i \in 0..n : i \in T
    BY <1>1, <1>4, <1>5, Reaches
  <2> QED BY <2>1, <2>2
<1>7. g[n] \in Offer(def)
  BY <1>6
<1> QED BY <1>3, <1>7 DEF e

\* And so does the fate of the line.
LEMMA FateTyped ==
  ASSUME def \in Definitions, NEW a \in Offer(def), NEW l \in Line
  PROVE  fate(a.t, a, l) \in Streamer(def)
<1> DEFINE v == a.t
           m == l.num
           more == [n \in DOMAIN v.fates \union {m} |-> IF n = m THEN [pending |-> a.single, read |-> a.accounted] ELSE v.fates[n]]
<1>1. v \in Streamer(def)
  BY DEF Offer
<1>2. CASE a.single = 0
  BY <1>1, <1>2 DEF fate
<1>3. CASE a.single # 0
  <2>1. DOMAIN v.fates \in SUBSET Nat /\ m \in Nat /\ a.single \in Int /\ a.accounted \in BOOLEAN
        /\ \A n \in DOMAIN v.fates : v.fates[n] \in [pending : Int, read : BOOLEAN]
    BY <1>1, LineNat, FatesAre DEF Offer
  <2>2. more \in Fates
    <3> DEFINE D == DOMAIN v.fates \union {m}
    <3>1. more \in [D -> [pending : Int, read : BOOLEAN]]
      BY <2>1
    <3>2. D \in SUBSET Nat
      BY <2>1
    <3> HIDE DEF more, D
    <3> QED BY <3>1, <3>2, FatesIn
  <2>3. fate(v, a, l) = Fated(v, more)
    BY <1>3, Zenon DEF fate, Fated
  <2> HIDE DEF more, v
  <2>4. Fated(v, more) \in Streamer(def)
    BY <1>1, <2>2, FatedIs
  <2> QED BY <2>3, <2>4 DEF v
<1> QED BY <1>2, <1>3

\* A line handed to the parsers leaves a streamer, room or not.
LEMMA RecordTyped ==
  ASSUME def \in Definitions, NEW t \in Streamer(def), Ok(t), NEW l \in Line
  PROVE  feedRecord(t, l) \in Streamer(def)
<1>1. CASE def.composite
  <2> DEFINE a == offerTo(Begun(t), l)
             v == fate(a.t, a, l)
             u == feedRecord(t, l)
  <2>1. u = HandedRound(a, l)
    BY <1>1 DEF feedRecord, feedComposite, Begun
  <2>2. a \in Offer(def)
    BY OffersStay
  <2> HIDE DEF a, u
  <2>3. a.t \in Streamer(def) /\ v \in Streamer(def)
    BY <2>2, FateTyped DEF Offer
  <2>4. \/ u = a.t \/ u = Fail(a.t, "unread") \/ u = FoldLeftDomain(closes, v, def.parts)
    BY <2>1 DEF HandedRound
  <2> HIDE DEF v
  <2>5. FoldLeftDomain(closes, v, def.parts) \in Streamer(def)
    BY <2>3, ClosesStay
  <2>6. Fail(a.t, "unread") \in Streamer(def)
    BY <2>3, Failed
  <2> QED BY <2>3, <2>4, <2>5, <2>6 DEF u
<1>2. CASE ~def.composite
  <2>1. 1 \in DOMAIN def.parts
    BY PartsAre
  <2>2. def.parts[1].parse.type \in Types \ {"single"}
    BY <1>2, <2>1, DefinitionsAssumption
  <2>3. feedOne(t, 1, def.parts[1].parse, l) \in Streamer(def)
    BY <2>1, <2>2, OneFed
  <2> QED BY <1>2, <2>3 DEF feedRecord
<1> QED BY <1>1, <1>2

-----------------------------------------------------------------------------
\* Before the parsers.

Selected(t, g) == [t EXCEPT !.sel = g]

\* How far a selection has got, which no book is kept of.
LEMMA SelectedIs ==
  ASSUME def \in Definitions, NEW t \in Streamer(def), NEW g \in Region
  PROVE  LET u == Selected(t, g)
         IN /\ u \in Streamer(def) /\ SameFront(t, u) /\ u.subs = t.subs /\ u.out = t.out /\ u.lines = t.lines
            /\ u.fates = t.fates /\ u.sent = t.sent /\ u.held = t.held /\ u.err = t.err
<1>1. Selected(t, g) \in Streamer(def)
  BY DEF Streamer, Selected
<1> QED BY <1>1 DEF Streamer, Selected, SameFront

\* Nothing the books are about is another.
Alike(t, u) ==
  /\ SameFront(t, u) /\ u.subs = t.subs /\ u.out = t.out /\ u.lines = t.lines
  /\ u.fates = t.fates /\ u.sent = t.sent /\ u.held = t.held /\ u.err = t.err

\* The books are about nothing else.
LEMMA AlikeKeeps ==
  ASSUME NEW t, NEW u \in Streamer(def), NEW B, Kept(def, t, B), Alike(t, u)
  PROVE  Kept(def, u, B) /\ \A b : Room(t, b, B) => Room(u, b, B)
<1>1. Sents(def, u) = Sents(def, t) /\ Loads(def, u) = Loads(def, t) /\ FrontBytes(u) = FrontBytes(t) /\ \A k : Load(u, k) = Load(t, k)
  BY DEF Alike, Sents, Loads, Load, FrontBytes, SameFront
<1>2. Books(def, u, B)
  BY <1>1 DEF Kept, Books, Charged, Fits, Ok, Alike
<1>3. Ok(u) => FatesOpen(def, u)
  <2>1. \A n : Holders(def, u, n) = Holders(def, t, n)
    BY DEF Holders, Alike
  <2> QED BY <2>1 DEF Kept, Ok, Alike, FatesOpen
<1> QED BY <1>1, <1>2, <1>3 DEF Kept, Room

\* A line that a selection leaves out (leftOut).
LEMMA LeftOutHanded ==
  ASSUME def \in Definitions, NEW t, NEW l \in Line, NEW whole, NEW B \in Nat, Kept(def, t, B), Ok(t)
  PROVE  Handed(t, leftOut(t, l, whole), l.num, B)
<1>1. CASE Opens(l, whole) \/ Blank(l)
  <2>1. leftOut(t, l, whole) = t
    BY <1>1 DEF leftOut
  <2> QED BY <2>1 DEF Handed, SameFront
<1>2. CASE ~(Opens(l, whole) \/ Blank(l))
  <2>1. leftOut(t, l, whole) = Fail(t, "unread")
    BY <1>2 DEF leftOut
  <2>2. Books(def, t, B)
    BY DEF Kept
  <2> QED BY <2>1, <2>2, FailKeeps DEF Handed
<1> QED BY <1>1, <1>2

\* A selection leaves a line out or hands it on (feedSelected).
LEMMA SelectedCases ==
  ASSUME def \in Definitions, NEW t \in Streamer(def), NEW l
  PROVE  \E g \in Region : \/ \E whole : feedSelected(t, l) = leftOut(Selected(t, g), l, whole)
                          \/ feedSelected(t, l) = feedRecord(Selected(t, g), l)
<1> DEFINE u == feedSelected(t, l)
<1>1. t.sel \in Region
  BY DEF Streamer
<1>2. \E g \in Region : \/ \E whole : u = leftOut(Selected(t, g), l, whole)
                        \/ u = feedRecord(Selected(t, g), l)
  <2> DEFINE sel == def.sel
             begins == sel.after # {} /\ ~t.sel.started
             open == ~t.sel.done /\ ~begins
             stop == open /\ Opens(l, sel.until)
             past == sel.limit > 0 /\ t.sel.taken >= sel.limit
  <2>1. t = Selected(t, t.sel)
    BY <1>1 DEF Selected, Streamer
  <2>2. CASE t.sel.done
    <3>1. u = leftOut(Selected(t, t.sel), l, {})
      BY <2>1, <2>2 DEF feedSelected
    <3> QED BY <1>1, <3>1
  <2>3. CASE ~t.sel.done /\ begins /\ Opens(l, sel.after)
    <3> DEFINE g == [t.sel EXCEPT !.started = TRUE]
    <3>1. g \in Region
      BY <1>1 DEF Region
    <3>2. u = leftOut(Selected(t, g), l, sel.heading)
      BY <2>3 DEF feedSelected, Selected
    <3> QED BY <3>1, <3>2
  <2>4. CASE ~t.sel.done /\ begins /\ ~Opens(l, sel.after)
    <3>1. u = leftOut(Selected(t, t.sel), l, {})
      BY <2>1, <2>4 DEF feedSelected
    <3> QED BY <1>1, <3>1
  <2>5. CASE stop
    <3> DEFINE g == [t.sel EXCEPT !.done = TRUE]
    <3>1. g \in Region
      BY <1>1 DEF Region
    <3>2. u = leftOut(Selected(t, g), l, sel.end)
      BY <2>5 DEF feedSelected, Selected
    <3> QED BY <3>1, <3>2
  <2>6. CASE open /\ ~stop /\ t.sel.skipped < sel.skip
    <3> DEFINE g == [t.sel EXCEPT !.skipped = t.sel.skipped + 1]
    <3>1. g \in Region
      BY <1>1 DEF Region
    <3>2. t.sel.skipped \in Nat /\ sel.skip \in Nat /\ ~(t.sel.skipped >= sel.skip)
      <4>1. t.sel.skipped \in Nat /\ sel.skip \in Nat
        BY <1>1, DefinitionsAssumption DEF Region
      <4>2. t.sel.skipped < sel.skip
        BY <2>6
      <4> QED BY <4>1, <4>2
    <3>3. u = leftOut(Selected(t, g), l, {})
      BY <2>6, <3>2 DEF feedSelected, Selected
    <3> QED BY <3>1, <3>3
  <2>7. CASE open /\ ~stop /\ ~(t.sel.skipped < sel.skip) /\ t.sel.skipped >= sel.skip /\ past
    <3>1. u = leftOut(Selected(t, t.sel), l, {})
      BY <2>1, <2>7 DEF feedSelected
    <3> QED BY <1>1, <3>1
  <2>8. CASE open /\ ~stop /\ ~(t.sel.skipped < sel.skip) /\ ~(t.sel.skipped >= sel.skip /\ past)
    <3> DEFINE g == [t.sel EXCEPT !.taken = t.sel.taken + 1]
    <3>1. g \in Region
      BY <1>1 DEF Region
    <3>2. u = feedRecord(Selected(t, g), l)
      BY <2>8 DEF feedSelected, Selected
    <3> QED BY <3>1, <3>2
  <2> QED BY <2>2, <2>3, <2>4, <2>5, <2>6, <2>7, <2>8
<1> QED BY <1>2

\* A line before the selection leaves a streamer, room or not.
LEMMA SelectedTyped ==
  ASSUME def \in Definitions, NEW t \in Streamer(def), Ok(t), NEW l \in Line
  PROVE  feedSelected(t, l) \in Streamer(def)
<1> DEFINE u == feedSelected(t, l)
<1>1. PICK g \in Region : \/ \E whole : u = leftOut(Selected(t, g), l, whole)
                          \/ u = feedRecord(Selected(t, g), l)
  BY SelectedCases
<1> DEFINE v == Selected(t, g)
<1>2. v \in Streamer(def) /\ v.err = t.err
  BY SelectedIs
<1> HIDE DEF v, u
<1>3. u = v \/ u = Fail(v, "unread") \/ u = feedRecord(v, l)
  BY <1>1 DEF leftOut, v
<1>4. Fail(v, "unread") \in Streamer(def) /\ feedRecord(v, l) \in Streamer(def)
  BY <1>2, Failed, RecordTyped DEF Ok
<1> QED BY <1>2, <1>3, <1>4 DEF u

\* A line before the selection keeps the books, if there is room for it (feedSelected).
LEMMA SelectedHanded ==
  ASSUME def \in Definitions, NEW t, NEW l \in Line, NEW B \in Nat, Kept(def, t, B), Ok(t), Room(t, LineBytes(l.text), B),
         l.num \notin DOMAIN t.fates
  PROVE  Handed(t, feedSelected(t, l), l.num, B)
<1> DEFINE u == feedSelected(t, l)
<1>1. t \in Streamer(def) /\ t.sel \in Region
  BY DEF Kept, Books, Streamer
<1>3. PICK g \in Region : \/ \E whole : u = leftOut(Selected(t, g), l, whole)
                          \/ u = feedRecord(Selected(t, g), l)
  BY <1>1, SelectedCases
<1> DEFINE v == Selected(t, g)
<1>4. v \in Streamer(def) /\ Alike(t, v)
  BY <1>1, SelectedIs DEF Alike
<1> HIDE DEF v, u
<1>5. Kept(def, v, B) /\ Room(v, LineBytes(l.text), B) /\ Ok(v) /\ v.fates = t.fates /\ SameFront(t, v)
  BY <1>4, AlikeKeeps DEF Alike, Ok
<1>6. Handed(v, u, l.num, B)
  BY <1>3, <1>5, LeftOutHanded, RecordHanded DEF v
<1> QED BY <1>5, <1>6 DEF Handed, SameFront, u

-----------------------------------------------------------------------------
(* The lines before the parsers.                                          *)

\* The same streamer, with other lines before its parsers.
Fronted(t, c, f, e, h) == [t EXCEPT !.csvRec = c, !.folding = f, !.empty = e, !.held = h]

\* The same streamer, with other lines before its parsers.
LEMMA FrontedIs ==
  ASSUME def \in Definitions, NEW t \in Streamer(def), NEW c \in Lines, NEW f \in Lines, NEW e \in Lines, NEW h \in Int
  PROVE  LET u == Fronted(t, c, f, e, h)
         IN /\ u \in Streamer(def) /\ u.csvRec = c /\ u.folding = f /\ u.empty = e /\ u.held = h
            /\ u.subs = t.subs /\ u.out = t.out /\ u.lines = t.lines /\ u.fates = t.fates /\ u.sent = t.sent /\ u.err = t.err
<1>1. Fronted(t, c, f, e, h) \in Streamer(def)
  BY DEF Streamer, Fronted
<1> QED BY <1>1 DEF Streamer, Fronted

\* Books that are kept for some bytes are kept for more.
LEMMA KeptMore ==
  ASSUME def \in Definitions, NEW t, NEW B \in Nat, NEW C \in Nat, B <= C, Kept(def, t, B)
  PROVE  Kept(def, t, C)
<1>1. t \in Streamer(def)
  BY DEF Kept, Books
<1>2. Fits(def, t, B) => Fits(def, t, C)
  <2> SUFFICES ASSUME Fits(def, t, B), NEW k \in DOMAIN def.parts PROVE FrontBytes(t) + Load(t, k) <= C
    BY DEF Fits
  <2>1. FrontBytes(t) + Load(t, k) <= B /\ FrontBytes(t) \in Nat /\ Load(t, k) \in Nat
    BY <1>1, LoadNat DEF Fits
  <2> QED BY <2>1
<1>3. Overrun(def, B) => Overrun(def, C)
  <2> DEFINE n == Cardinality(DOMAIN def.parts)
  <2>1. n \in Nat /\ def.limit \in Nat
    BY PartsAre
  <2> HIDE DEF n
  <2>2. n * B <= n * C
    <3>1. n * C = n * B + n * (C - B) /\ n * (C - B) \in Nat /\ n * B \in Nat
      BY <2>1
    <3> QED BY <3>1
  <2>3. n * B \in Nat /\ n * C \in Nat
    BY <2>1
  <2>4. n * B > def.limit => n * C > def.limit
    BY <2>1, <2>2, <2>3
  <2> QED BY <2>4 DEF Overrun, n
<1> QED BY <1>2, <1>3 DEF Kept, Books

\* Lines before the parsers that change by as much as is charged keep the books.
LEMMA FrontedKeeps ==
  ASSUME def \in Definitions, NEW t, NEW B \in Nat, NEW C \in Nat, Kept(def, t, B), Ok(t),
         NEW c \in Lines, NEW f \in Lines, NEW e \in Lines, NEW h \in Int, h <= def.limit,
         LinesBytes(c) + LinesBytes(f) + LinesBytes(e) - FrontBytes(t) = h - t.held, h - t.held <= C - B
  PROVE  Kept(def, Fronted(t, c, f, e, h), C) /\ Ok(Fronted(t, c, f, e, h))
<1> DEFINE u == Fronted(t, c, f, e, h)
<1>1. t \in Streamer(def) /\ t.sent = Total(Sents(def, t)) /\ Charged(def, t) /\ Fits(def, t, B) /\ FatesOpen(def, t)
  BY DEF Kept, Books
<1>2. /\ u \in Streamer(def) /\ u.csvRec = c /\ u.folding = f /\ u.empty = e /\ u.held = h
      /\ u.subs = t.subs /\ u.out = t.out /\ u.lines = t.lines /\ u.fates = t.fates /\ u.sent = t.sent /\ u.err = t.err
  <2>1. t \in Streamer(def)
    BY <1>1
  <2> HIDE <1>1
  <2> SUFFICES LET v == Fronted(t, c, f, e, h)
               IN /\ v \in Streamer(def) /\ v.csvRec = c /\ v.folding = f /\ v.empty = e /\ v.held = h
                  /\ v.subs = t.subs /\ v.out = t.out /\ v.lines = t.lines /\ v.fates = t.fates /\ v.sent = t.sent /\ v.err = t.err
    OBVIOUS
  <2> QED BY <2>1, FrontedIs, Z3
<1> HIDE DEF u
<1>3. Sents(def, u) = Sents(def, t) /\ Loads(def, u) = Loads(def, t) /\ \A k : Load(u, k) = Load(t, k) /\ Holders(def, u, k) = Holders(def, t, k)
  BY <1>2 DEF Sents, Loads, Load, Holders
<1>4. FrontBytes(u) = LinesBytes(c) + LinesBytes(f) + LinesBytes(e)
  BY <1>2 DEF FrontBytes
<1>5. FrontBytes(t) \in Nat /\ FrontBytes(u) \in Nat /\ t.held \in Int /\ Total(Loads(def, t)) \in Nat
  BY <1>1, <1>2, LoadsAre
<1>6. FrontBytes(u) - FrontBytes(t) = h - t.held
  <2>1. LinesBytes(c) \in Nat /\ LinesBytes(f) \in Nat /\ LinesBytes(e) \in Nat
    BY LinesBytesNat DEF Lines
  <2> QED BY <1>4, <1>5, <2>1
<1>7. Ok(u)
  BY <1>2 DEF Ok
<1>8. Charged(def, u)
  <2>1. t.held = FrontBytes(t) + Total(Loads(def, t))
    BY <1>1 DEF Charged
  <2>2. h = FrontBytes(u) + Total(Loads(def, t))
    BY <1>5, <1>6, <2>1
  <2> QED BY <1>2, <1>3, <2>2 DEF Charged
<1>9. Fits(def, u, C)
  <2> SUFFICES ASSUME NEW k \in DOMAIN def.parts PROVE FrontBytes(u) + Load(u, k) <= C
    BY DEF Fits
  <2>1. FrontBytes(t) + Load(t, k) <= B /\ Load(t, k) \in Nat /\ Load(u, k) = Load(t, k)
    BY <1>1, <1>3, LoadNat DEF Fits
  <2> QED BY <1>5, <1>6, <2>1
<1>10. FatesOpen(def, u)
  BY <1>1, <1>2, <1>3 DEF FatesOpen
<1> QED BY <1>1, <1>2, <1>3, <1>7, <1>8, <1>9, <1>10 DEF Kept, Books, u, Ok

\* Of a streamer that failed only the records are counted.
LEMMA FailedKeeps ==
  ASSUME def \in Definitions, NEW t, NEW B, Kept(def, t, B), NEW u \in Streamer(def), ~Ok(u),
         u.err = "large" => Overrun(def, B), u.out = t.out, u.sent = t.sent
  PROVE  Kept(def, u, B)
<1>1. t.sent = Total(Sents(def, t))
  BY DEF Kept, Books
<1>2. Sents(def, u) = Sents(def, t)
  BY DEF Sents
<1> QED BY <1>1, <1>2 DEF Kept, Books

\* A line there is room for is charged, and one there is not is too much for the text.
LEMMA TakeFront ==
  ASSUME def \in Definitions, NEW t, NEW B \in Nat, Kept(def, t, B), Ok(t), NEW l \in Line
  PROVE  LET u == take(t, l)
             b == LineBytes(l.text)
         IN /\ u \in Streamer(def) /\ b \in Nat
            /\ ~Ok(u) => Kept(def, u, B + b)
            /\ Ok(u) => u = [t EXCEPT !.held = t.held + b] /\ t.held + b <= def.limit
            /\ u.csvRec = t.csvRec /\ u.folding = t.folding /\ u.empty = t.empty /\ u.fates = t.fates
<1> DEFINE u == take(t, l)
           b == LineBytes(l.text)
<1>1. t \in Streamer(def) /\ Charged(def, t) /\ Fits(def, t, B) /\ b \in Nat /\ 1 \in DOMAIN def.parts
  BY PartsAre, LineNat DEF Kept, Books
<1>2. /\ u \in Streamer(def) /\ Rest(t, u) /\ u.subs = t.subs /\ u.out = t.out /\ u.sent = t.sent
      /\ u.held = t.held + b
      /\ u.err = IF u.held > def.limit THEN "large" ELSE t.err
  BY <1>1, TakeIs
<1>3. FrontBytes(t) \in Nat /\ Load(t, 1) \in Nat /\ def.limit \in Nat /\ t.held \in Int
  BY <1>1, LoadNat, GroupedNat, PartsAre
<1>4. Ok(u) => u = [t EXCEPT !.held = t.held + b] /\ t.held + b <= def.limit
  <2>1. u = IF t.held + b > def.limit THEN Fail([t EXCEPT !.held = t.held + b], "large") ELSE [t EXCEPT !.held = t.held + b]
    BY <1>1 DEF take, Streamer
  <2>2. Ok(u) => ~(t.held + b > def.limit)
    BY <1>2 DEF Ok
  <2> HIDE DEF u, b
  <2> QED BY <1>1, <1>3, <2>1, <2>2
<1>5. ASSUME ~Ok(u) PROVE Kept(def, u, B + b)
  <2> HIDE DEF u, b
  <2>1. t.held + b > def.limit /\ u.err = "large"
    BY <1>2, <1>5 DEF Ok
  <2>2. B + b \in Nat /\ FrontBytes(t) + Load(t, 1) + b <= B + b
    <3>1. FrontBytes(t) + Load(t, 1) <= B
      BY <1>1 DEF Fits
    <3> QED BY <1>1, <1>3, <3>1
  <2>3. Kept(def, t, B + b)
    <3>1. B <= B + b
      BY <1>1
    <3> QED BY <2>2, <3>1, KeptMore
  <2>4. Fits(def, t, B + b) /\ t.held = FrontBytes(t) + Total(Loads(def, t))
    BY <1>1, <2>3 DEF Kept, Books, Charged
  <2>5. Overrun(def, B + b)
    BY <1>1, <2>1, <2>2, <2>4, TooMuch
  <2> QED BY <1>2, <1>5, <2>3, <2>5, FailedKeeps
<1> QED BY <1>1, <1>2, <1>4, <1>5 DEF Rest

\* A new line keeps the books of a text that is longer by it.
LEMMA SelectedFed ==
  ASSUME def \in Definitions, NEW t, NEW l \in Line, NEW B \in Nat, Kept(def, t, B), Ok(t), l.num \notin DOMAIN t.fates
  PROVE  Handed(t, feedSelected(t, l), l.num, B + LineBytes(l.text))
<1> DEFINE b == LineBytes(l.text)
           C == B + b
<1>1. b \in Nat /\ C \in Nat /\ B <= C
  BY LineNat
<1>2. Kept(def, t, C)
  BY <1>1, KeptMore
<1>3. Room(t, b, C)
  <2> SUFFICES ASSUME NEW k \in DOMAIN def.parts PROVE FrontBytes(t) + Load(t, k) + b <= C
    BY DEF Room
  <2>1. FrontBytes(t) + Load(t, k) <= B
    BY DEF Kept, Books, Fits
  <2>2. FrontBytes(t) \in Nat /\ Load(t, k) \in Nat
    BY LoadNat DEF Kept, Books
  <2> QED BY <1>1, <2>1, <2>2
<1> HIDE DEF C
<1>4. Handed(t, feedSelected(t, l), l.num, C)
  BY <1>1, <1>2, <1>3, SelectedHanded
<1> QED BY <1>4 DEF C

Unheld(t, e) == Fronted(t, t.csvRec, t.folding, Tail(t.empty), t.held - LineBytes(e.text))

\* release, step by step: give back, then hand on.
LEMMA ReleaseIs ==
  ASSUME NEW t \in Streamer(def), NEW e
  PROVE  release(t, e) = LET v == IF t.empty = <<>> THEN t ELSE Unheld(t, e)
                         IN IF Ok(v) /\ ~Opens(e, def.ignore) THEN feedSelected(v, e) ELSE v
<1>1. [t EXCEPT !.empty = Tail(@), !.held = @ - LineBytes(e.text)] = Unheld(t, e)
  BY DEF Unheld, Fronted, Streamer
<1> QED BY <1>1, Zenon DEF release, Then

\* The oldest of the empty lines is given back.
LEMMA UnheldIs ==
  ASSUME def \in Definitions, NEW t \in Streamer(def), t.empty # <<>>, NEW e \in Line
  PROVE  LET v == Unheld(t, e)
         IN /\ v \in Streamer(def) /\ v.csvRec = t.csvRec /\ v.folding = t.folding /\ v.empty = Tail(t.empty)
            /\ v.held = t.held - LineBytes(e.text)
            /\ v.subs = t.subs /\ v.out = t.out /\ v.lines = t.lines /\ v.fates = t.fates /\ v.sent = t.sent /\ v.err = t.err
<1> DEFINE h == t.held - LineBytes(e.text)
           rest == Tail(t.empty)
<1>1. t.csvRec \in Lines /\ t.folding \in Lines /\ t.empty \in Lines /\ t.held \in Int
  BY DEF Streamer
<1>2. rest \in Lines
  BY <1>1, LinesBytesTail DEF Lines
<1>3. h \in Int
  BY <1>1, LineNat
<1> HIDE DEF h, rest
<1> DEFINE c == t.csvRec
           f == t.folding
<1>4. c \in Lines /\ f \in Lines
  BY <1>1
<1> HIDE DEF c, f
<1>5. LET v == Fronted(t, c, f, rest, h)
      IN /\ v \in Streamer(def) /\ v.csvRec = c /\ v.folding = f /\ v.empty = rest /\ v.held = h
         /\ v.subs = t.subs /\ v.out = t.out /\ v.lines = t.lines /\ v.fates = t.fates /\ v.sent = t.sent /\ v.err = t.err
  BY <1>2, <1>3, <1>4, FrontedIs, Z3
<1> QED BY <1>5 DEF Unheld, h, rest, c, f

\* A line that is released leaves a streamer.
LEMMA ReleaseTyped ==
  ASSUME def \in Definitions, NEW t \in Streamer(def), NEW e \in Line
  PROVE  release(t, e) \in Streamer(def)
<1> DEFINE v == IF t.empty = <<>> THEN t ELSE Unheld(t, e)
<1>1. v \in Streamer(def)
  BY UnheldIs
<1>2. release(t, e) = IF Ok(v) /\ ~Opens(e, def.ignore) THEN feedSelected(v, e) ELSE v
  BY ReleaseIs
<1> HIDE DEF v
<1> QED BY <1>1, <1>2, SelectedTyped

\* An empty line that waited is given back before it is handed on: the text is as long
\* as before.
LEMMA ReleaseHead ==
  ASSUME def \in Definitions, NEW t, NEW B \in Nat, Kept(def, t, B), Ok(t), t.empty # <<>>, NEW e \in Line, e = Head(t.empty),
         e.num \notin DOMAIN t.fates
  PROVE  LET u == release(t, e)
         IN /\ Kept(def, u, B) /\ u.csvRec = t.csvRec /\ u.folding = t.folding
            /\ Ok(u) => u.empty = Tail(t.empty) /\ DOMAIN u.fates \subseteq DOMAIN t.fates \union {e.num}
<1> DEFINE b == LineBytes(e.text)
           v == Unheld(t, e)
           u == release(t, e)
           C == B - b
<1>1. t \in Streamer(def) /\ Charged(def, t) /\ Fits(def, t, B) /\ 1 \in DOMAIN def.parts
  BY PartsAre DEF Kept, Books
<1>2. /\ v \in Streamer(def) /\ v.csvRec = t.csvRec /\ v.folding = t.folding /\ v.empty = Tail(t.empty)
      /\ v.held = t.held - b
      /\ v.subs = t.subs /\ v.out = t.out /\ v.lines = t.lines /\ v.fates = t.fates /\ v.sent = t.sent /\ v.err = t.err
  BY <1>1, UnheldIs
<1>3. /\ b \in Nat /\ t.empty \in Lines /\ LinesBytes(t.empty) = b + LinesBytes(Tail(t.empty))
      /\ Tail(t.empty) \in Lines /\ t.csvRec \in Lines /\ t.folding \in Lines
      /\ LinesBytes(t.csvRec) \in Nat /\ LinesBytes(t.folding) \in Nat /\ LinesBytes(Tail(t.empty)) \in Nat
      /\ FrontBytes(t) = LinesBytes(t.csvRec) + LinesBytes(t.folding) + LinesBytes(t.empty)
      /\ t.held \in Int /\ t.held <= def.limit /\ def.limit \in Nat /\ FrontBytes(t) + Load(t, 1) <= B /\ Load(t, 1) \in Nat
  <2>1. t.csvRec \in Lines /\ t.folding \in Lines /\ t.empty \in Lines /\ t.held \in Int
    BY <1>1 DEF Streamer
  <2>2. LinesBytes(t.empty) = b + LinesBytes(Tail(t.empty)) /\ Tail(t.empty) \in Lines
    BY <2>1, LinesBytesTail DEF Lines
  <2>3. LinesBytes(t.csvRec) \in Nat /\ LinesBytes(t.folding) \in Nat /\ LinesBytes(Tail(t.empty)) \in Nat
    BY <2>1, <2>2, LinesBytesNat DEF Lines
  <2>4. t.held <= def.limit /\ def.limit \in Nat /\ FrontBytes(t) + Load(t, 1) <= B /\ Load(t, 1) \in Nat /\ b \in Nat
    BY <1>1, LoadNat, PartsAre, LineNat DEF Charged, Fits
  <2> QED BY <2>1, <2>2, <2>3, <2>4 DEF FrontBytes
<1> DEFINE rest == Tail(t.empty)
           h == t.held - b
<1>4. /\ C \in Nat /\ h \in Int /\ h <= def.limit /\ h - t.held <= C - B
      /\ LinesBytes(t.csvRec) + LinesBytes(t.folding) + LinesBytes(rest) - FrontBytes(t) = h - t.held
  <2> DEFINE x == LinesBytes(t.csvRec)
             y == LinesBytes(t.folding)
             z == LinesBytes(rest)
             w == LinesBytes(t.empty)
             f == FrontBytes(t)
             o == Load(t, 1)
  <2>1. /\ b \in Nat /\ x \in Nat /\ y \in Nat /\ z \in Nat /\ o \in Nat /\ w = b + z /\ f = x + y + w /\ f + o <= B
        /\ t.held \in Int /\ t.held <= def.limit /\ def.limit \in Nat
    BY <1>3
  <2> HIDE DEF b, x, y, z, w, f, o, rest
  <2>2. C \in Nat
    BY <2>1
  <2>3. h \in Int /\ h <= def.limit /\ h - t.held <= C - B
    BY <2>1
  <2>4. x + y + z - f = h - t.held
    BY <2>1
  <2> QED BY <2>2, <2>3, <2>4 DEF x, y, z, f
<1>5. Kept(def, v, C) /\ Ok(v)
  <2>1. v = Fronted(t, t.csvRec, t.folding, rest, h)
    BY DEF Unheld
  <2> HIDE DEF v, h, rest, C, b
  <2>2. Kept(def, Fronted(t, t.csvRec, t.folding, rest, h), C) /\ Ok(Fronted(t, t.csvRec, t.folding, rest, h))
    <3>1. rest \in Lines /\ t.csvRec \in Lines /\ t.folding \in Lines
      BY <1>3 DEF rest
    <3> QED BY <1>4, <3>1, FrontedKeeps
  <2> QED BY <2>1, <2>2
<1>6. u = IF ~Opens(e, def.ignore) THEN feedSelected(v, e) ELSE v
  BY <1>1, <1>5, ReleaseIs
<1>7. C + b = B /\ C <= B
  BY <1>3
<1> HIDE DEF v, u, C
<1>8. CASE Opens(e, def.ignore)
  <2>1. Kept(def, v, B)
    BY <1>4, <1>5, <1>7, KeptMore
  <2> QED BY <1>2, <1>6, <1>8, <2>1 DEF u
<1>9. CASE ~Opens(e, def.ignore)
  <2>1. Handed(v, feedSelected(v, e), e.num, C + b)
    BY <1>2, <1>4, <1>5, SelectedFed
  <2>2. Handed(v, u, e.num, B)
    BY <1>6, <1>7, <1>9, <2>1
  <2> QED BY <1>2, <2>2 DEF u, Handed, SameFront
<1> QED BY <1>8, <1>9

\* The line that ends the wait was never held: the text is longer by it.
LEMMA ReleaseLast ==
  ASSUME def \in Definitions, NEW t, NEW B \in Nat, Kept(def, t, B), Ok(t), t.empty = <<>>, NEW e \in Line,
         e.num \notin DOMAIN t.fates
  PROVE  LET u == release(t, e)
         IN /\ Kept(def, u, B + LineBytes(e.text)) /\ u.csvRec = t.csvRec /\ u.folding = t.folding
            /\ Ok(u) => u.empty = <<>> /\ DOMAIN u.fates \subseteq DOMAIN t.fates \union {e.num}
<1> DEFINE b == LineBytes(e.text)
           u == release(t, e)
<1>1. t \in Streamer(def) /\ b \in Nat
  BY LineNat DEF Kept, Books
<1>2. u = IF ~Opens(e, def.ignore) THEN feedSelected(t, e) ELSE t
  BY <1>1, ReleaseIs
<1> HIDE DEF u
<1>3. CASE Opens(e, def.ignore)
  <2>1. Kept(def, t, B + b)
    <3>1. B + b \in Nat /\ B <= B + b
      BY <1>1
    <3> QED BY <3>1, KeptMore
  <2> QED BY <1>2, <1>3, <2>1 DEF u
<1>4. CASE ~Opens(e, def.ignore)
  <2>1. Handed(t, u, e.num, B + b)
    BY <1>2, <1>4, SelectedFed
  <2> QED BY <2>1 DEF u, Handed, SameFront
<1> QED BY <1>3, <1>4

\* What failed stays failed, and the rest of the lines is dropped.
LEMMA ReleaseFailed ==
  ASSUME def \in Definitions, NEW t, NEW B, Kept(def, t, B), ~Ok(t), NEW e \in Line
  PROVE  LET u == release(t, e)
         IN Kept(def, u, B) /\ ~Ok(u) /\ u.csvRec = t.csvRec /\ u.folding = t.folding
<1> DEFINE v == IF t.empty = <<>> THEN t ELSE Unheld(t, e)
<1>1. t \in Streamer(def) /\ (t.err = "large" => Overrun(def, B))
  BY DEF Kept, Books
<1>2. release(t, e) = IF Ok(v) /\ ~Opens(e, def.ignore) THEN feedSelected(v, e) ELSE v
  BY <1>1, ReleaseIs
<1>3. v \in Streamer(def) /\ v.err = t.err /\ v.out = t.out /\ v.sent = t.sent /\ v.csvRec = t.csvRec /\ v.folding = t.folding
  BY <1>1, UnheldIs
<1> HIDE DEF v
<1>4. ~Ok(v)
  BY <1>3 DEF Ok
<1>5. Kept(def, v, B)
  BY <1>1, <1>3, <1>4, FailedKeeps
<1> QED BY <1>2, <1>3, <1>4, <1>5

\* Lines are released one after the other.
LEMMA ReleasesFold ==
  ASSUME def \in Definitions, NEW t \in Streamer(def), NEW ls \in Lines
  PROVE  \E g : /\ g[0] = t /\ g[Len(ls)] = FoldLeft(release, t, ls)
                /\ \A i \in 0..(Len(ls) - 1) : g[i + 1] = release(g[i], ls[i + 1])
<1> DEFINE n == Len(ls)
           S == DOMAIN ls
           A == Streamer(def)
           F == [p \in A \X (1..n) |-> release(p[1], ls[p[2]])]
<1>1. n \in Nat /\ DOMAIN ls = 1..n /\ \A i \in 1..n : ls[i] \in Line
  BY DEF Lines
<1>2. S = 1..n
  BY <1>1
<1>3. F \in [A \X (1..n) -> A]
  <2>1. \A p \in A \X (1..n) : release(p[1], ls[p[2]]) \in A
    BY <1>1, ReleaseTyped
  <2> HIDE DEF A
  <2> QED BY <2>1
<1>4. PICK h \in [SUBSET (1..n) -> A] : IsTable(h, n, t, F)
  <2>1. t \in A
    OBVIOUS
  <2> HIDE DEF F, n, A
  <2> QED BY <1>1, <1>3, <2>1, TableExists, Zenon
<1>5. ASSUME NEW T \in SUBSET S PROVE h[T] = IF T = {} THEN t ELSE release(h[T \ {Max(T)}], ls[Max(T)])
  <2>1. CASE T = {}
    BY <1>2, <1>4, <2>1 DEF IsTable
  <2>2. CASE T # {}
    <3>1. Max(T) \in 1..n /\ T \ {Max(T)} \in SUBSET (1..n)
      BY <1>1, <1>2, <2>2, MaxIsLast
    <3>2. h[T] = F[<<h[T \ {Max(T)}], Max(T)>>]
      BY <1>2, <1>4, <2>2 DEF IsTable
    <3>3. h[T \ {Max(T)}] \in A
      BY <1>4, <3>1
    <3>4. <<h[T \ {Max(T)}], Max(T)>> \in A \X (1..n)
      BY <3>1, <3>3
    <3> HIDE DEF A
    <3> QED BY <1>2, <2>2, <3>1, <3>2, <3>4
  <2> QED BY <2>1, <2>2
<1>6. h = [T \in SUBSET S |-> IF T = {} THEN t ELSE release(h[T \ {Max(T)}], ls[Max(T)])]
  <2> HIDE DEF S, A
  <2> QED BY <1>2, <1>4, <1>5
<1>7. PICK f : /\ f = [T \in SUBSET S |-> IF T = {} THEN t ELSE release(f[T \ {Max(T)}], ls[Max(T)])]
               /\ FoldLeft(release, t, ls) = f[S]
  BY <1>6, Zenon DEF FoldLeft, MapThenFoldSet
<1> DEFINE g == [i \in 0..n |-> f[1..i]]
<1>8. g[0] = t
  BY <1>1, <1>2, <1>7
<1>9. ASSUME NEW i \in 0..(n - 1) PROVE g[i + 1] = release(g[i], ls[i + 1])
  <2> DEFINE j == i + 1
  <2>1. j \in 1..n /\ j - 1 = i /\ i \in 0..n /\ j \in 0..n
    BY <1>1
  <2> HIDE DEF j
  <2>2. 1..j \in SUBSET S /\ 1..j # {} /\ Max(1..j) = j /\ (1..j) \ {Max(1..j)} = 1..i
    BY <1>1, <1>2, <2>1, PrefixIs
  <2>3. f[1..j] = release(f[(1..j) \ {Max(1..j)}], ls[Max(1..j)])
    BY <1>7, <2>2
  <2>4. f[1..j] = release(f[1..i], ls[j])
    BY <1>2, <2>1, <2>2, <2>3, Zenon
  <2> QED BY <2>1, <2>4, Zenon DEF j
<1>10. g[n] = FoldLeft(release, t, ls)
  BY <1>1, <1>2, <1>7
<1> HIDE DEF g
<1> QED BY <1>8, <1>9, <1>10

\* The empty lines that wait come one after the other, after the lines whose fate is open and before m.
Ordered(t, m) ==
  /\ \A n \in DOMAIN t.fates : n < m /\ \A i \in DOMAIN t.empty : n < t.empty[i].num
  /\ \A i \in DOMAIN t.empty : t.empty[i].num < m /\ \A j \in DOMAIN t.empty : i < j => t.empty[i].num < t.empty[j].num

\* What comes before m comes before what is later.
LEMMA OrderedMore ==
  ASSUME def \in Definitions, NEW t \in Streamer(def), NEW m \in Nat, NEW n \in Nat, m <= n, Ordered(t, m)
  PROVE  Ordered(t, n)
<1>1. /\ \A x \in DOMAIN t.fates : x \in Nat
      /\ \A i \in DOMAIN t.empty : t.empty[i].num \in Nat
  <2>1. t.empty \in Lines /\ DOMAIN t.fates \in SUBSET Nat
    BY FatesAre DEF Streamer
  <2>2. \A i \in DOMAIN t.empty : t.empty[i] \in Line
    BY <2>1 DEF Lines
  <2> QED BY <2>1, <2>2, LineNat
<1>2. \A x \in Nat : x < m => x < n
  OBVIOUS
<1> QED BY <1>1, <1>2 DEF Ordered

\* The first i of the lines ls, which were those of t and one more, are released.
Released(t, ls, a, i, B, C) ==
  /\ Kept(def, a, IF i < Len(ls) THEN B ELSE C) /\ a.csvRec = t.csvRec /\ a.folding = t.folding
  /\ Ok(a) =>
       /\ a.empty \in Lines /\ Len(a.empty) = IF i < Len(ls) THEN Len(ls) - (i + 1) ELSE 0
       /\ \A j \in 1..Len(a.empty) : a.empty[j] = ls[i + j]
       /\ \A x \in DOMAIN a.fates : /\ x <= ls[Len(ls)].num
                                    /\ \A j \in (i + 1)..Len(ls) : x < ls[j].num

\* The first of some lines, and the others.
LEMMA HeadIs ==
  ASSUME NEW ls \in Lines, Len(ls) > 0
  PROVE  /\ ls # <<>> /\ Head(ls) = ls[1] /\ Tail(ls) \in Lines /\ Len(Tail(ls)) = Len(ls) - 1
         /\ \A j \in 1..(Len(ls) - 1) : Tail(ls)[j] = ls[j + 1]
BY DEF Lines

\* One more line is released.
LEMMA ReleasedOne ==
  ASSUME def \in Definitions, NEW t, NEW ls \in Lines, NEW B \in Nat, NEW C \in Nat,
         \A i, j \in 1..Len(ls) : i < j => ls[i].num < ls[j].num,
         C = B + LineBytes(ls[Len(ls)].text),
         NEW i \in 0..(Len(ls) - 1), NEW a, Released(t, ls, a, i, B, C)
  PROVE  Released(t, ls, release(a, ls[i + 1]), i + 1, B, C)
<1> DEFINE n == Len(ls)
           k == i + 1
           e == ls[k]
           u == release(a, e)
<1>1. /\ n \in Nat /\ k \in 1..n /\ i < n /\ i \in Nat /\ \A j \in 1..n : ls[j] \in Line /\ ls[j].num \in Nat
      /\ e \in Line /\ B <= C
  <2>1. \A j \in 1..n : ls[j] \in Line
    BY DEF Lines
  <2>2. n \in Nat /\ k \in 1..n /\ i < n /\ i \in Nat
    BY DEF Lines
  <2>3. n \in 1..n
    BY <2>2
  <2> QED BY <2>1, <2>2, <2>3, LineNat
<1>2. Kept(def, a, B) /\ a.csvRec = t.csvRec /\ a.folding = t.folding /\ a \in Streamer(def)
  BY <1>1 DEF Released, Kept, Books
<1>3. CASE ~Ok(a)
  <2>1. Kept(def, u, B) /\ ~Ok(u) /\ u.csvRec = a.csvRec /\ u.folding = a.folding
    BY <1>1, <1>2, <1>3, ReleaseFailed
  <2>2. Kept(def, u, C)
    BY <1>1, <2>1, KeptMore
  <2> QED BY <1>2, <2>1, <2>2 DEF Released
<1>4. CASE Ok(a)
  <2>1. /\ a.empty \in Lines /\ Len(a.empty) = n - k
        /\ \A j \in 1..Len(a.empty) : a.empty[j] = ls[i + j]
        /\ \A x \in DOMAIN a.fates : x <= ls[n].num /\ \A j \in k..n : x < ls[j].num
    BY <1>1, <1>4 DEF Released
  <2>2. e.num \notin DOMAIN a.fates /\ DOMAIN a.fates \in SUBSET Nat
    <3>1. k \in k..n /\ e.num \in Nat
      BY <1>1
    <3> QED BY <1>2, <2>1, <3>1, FatesAre
  <2> HIDE DEF u
  <2>3. ASSUME \A x \in DOMAIN u.fates : x \in DOMAIN a.fates \/ x = e.num
        PROVE  \A x \in DOMAIN u.fates : x <= ls[n].num /\ \A j \in (k + 1)..n : x < ls[j].num
    <3> SUFFICES ASSUME NEW x \in DOMAIN u.fates
                 PROVE  x <= ls[n].num /\ \A j \in (k + 1)..n : x < ls[j].num
      OBVIOUS
    <3>1. CASE x \in DOMAIN a.fates
      <4>1. \A j \in (k + 1)..n : j \in k..n
        BY <1>1
      <4> QED BY <2>1, <3>1, <4>1
    <3>2. CASE x = e.num
      <4>1. \A j \in (k + 1)..n : j \in 1..n /\ k < j
        BY <1>1
      <4>2. k = n \/ k < n
        BY <1>1
      <4>3. n \in 1..n /\ ls[n].num \in Nat
        BY <1>1
      <4>4. x <= ls[n].num
        <5>1. CASE k = n
          BY <3>2, <4>3, <5>1
        <5>2. CASE k < n
          <6>1. e.num < ls[n].num
            BY <1>1, <4>3, <5>2
          <6> QED BY <1>1, <3>2, <4>3, <6>1
        <5> QED BY <4>2, <5>1, <5>2
      <4> QED BY <1>1, <3>2, <4>1, <4>4
    <3> QED BY <2>3, <3>1, <3>2
  <2>4. CASE k < n
    <3>1. Len(a.empty) > 0
      BY <1>1, <2>1, <2>4
    <3>2. /\ a.empty # <<>> /\ Head(a.empty) = e /\ Tail(a.empty) \in Lines /\ Len(Tail(a.empty)) = n - (k + 1)
          /\ \A j \in 1..Len(Tail(a.empty)) : Tail(a.empty)[j] = ls[k + j]
      <4>1. /\ a.empty # <<>> /\ Head(a.empty) = a.empty[1] /\ Tail(a.empty) \in Lines /\ Len(Tail(a.empty)) = Len(a.empty) - 1
            /\ \A j \in 1..(Len(a.empty) - 1) : Tail(a.empty)[j] = a.empty[j + 1]
        BY <2>1, <3>1, HeadIs
      <4>2. 1 \in 1..Len(a.empty) /\ Len(Tail(a.empty)) = n - (k + 1)
        BY <1>1, <2>1, <2>4, <4>1
      <4>3. \A j \in 1..Len(Tail(a.empty)) : j \in 1..(Len(a.empty) - 1) /\ j + 1 \in 1..Len(a.empty) /\ i + (j + 1) = k + j
        BY <1>1, <2>1, <4>2
      <4> QED BY <2>1, <4>1, <4>2, <4>3
    <3>3. /\ Kept(def, u, B) /\ u.csvRec = a.csvRec /\ u.folding = a.folding
          /\ Ok(u) => u.empty = Tail(a.empty) /\ DOMAIN u.fates \subseteq DOMAIN a.fates \union {e.num}
      BY <1>1, <1>2, <1>4, <2>2, <3>2, ReleaseHead DEF u
    <3> HIDE DEF n, e
    <3>4. Ok(u) => /\ u.empty \in Lines /\ Len(u.empty) = n - (k + 1)
                   /\ \A j \in 1..Len(u.empty) : u.empty[j] = ls[k + j]
                   /\ \A x \in DOMAIN u.fates : x <= ls[n].num /\ \A j \in (k + 1)..n : x < ls[j].num
      BY <2>3, <3>2, <3>3
    <3> QED BY <1>2, <2>4, <3>3, <3>4 DEF Released, u, n, e
  <2>5. CASE k = n
    <3>1. a.empty = <<>>
      <4>1. Len(a.empty) = 0
        BY <1>1, <2>1, <2>5
      <4> QED BY <2>1, <4>1 DEF Lines
    <3>2. /\ Kept(def, u, B + LineBytes(e.text)) /\ u.csvRec = a.csvRec /\ u.folding = a.folding
          /\ Ok(u) => u.empty = <<>> /\ DOMAIN u.fates \subseteq DOMAIN a.fates \union {e.num}
      BY <1>1, <1>2, <1>4, <2>2, <3>1, ReleaseLast DEF u
    <3>3. Kept(def, u, C)
      BY <2>5, <3>2
    <3>4. ~(k < n)
      BY <1>1, <2>5
    <3> HIDE DEF n, e
    <3>5. Ok(u) => /\ u.empty \in Lines /\ Len(u.empty) = 0
                   /\ \A j \in 1..Len(u.empty) : u.empty[j] = ls[k + j]
                   /\ \A x \in DOMAIN u.fates : x <= ls[n].num /\ \A j \in (k + 1)..n : x < ls[j].num
      <4>1. Ok(u) => \A x \in DOMAIN u.fates : x <= ls[n].num /\ \A j \in (k + 1)..n : x < ls[j].num
        BY <2>3, <3>2
      <4>2. <<>> \in Lines /\ Len(<<>>) = 0
        BY LinesBytesNone DEF Lines
      <4>3. Ok(u) => u.empty \in Lines /\ Len(u.empty) = 0
        BY <3>2, <4>2
      <4>4. Ok(u) => \A j \in 1..Len(u.empty) : u.empty[j] = ls[k + j]
        BY <4>3
      <4> QED BY <4>1, <4>3, <4>4
    <3> QED BY <1>2, <3>2, <3>3, <3>4, <3>5 DEF Released, u, n, e
  <2> QED BY <1>1, <2>4, <2>5
<1> QED BY <1>3, <1>4

\* What a line becomes before the parsers: it is in the books, and what waits waits in order.
Folded(t, u, l, C) ==
  /\ Kept(def, u, C) /\ u.csvRec = t.csvRec /\ u.folding = t.folding
  /\ Ok(u) => Ordered(u, l.num + 1)

Texted(t) == [t EXCEPT !.text = TRUE]

\* That there was text, which no book is kept of.
LEMMA TextedIs ==
  ASSUME def \in Definitions, NEW t \in Streamer(def)
  PROVE  Texted(t) \in Streamer(def) /\ Alike(t, Texted(t))
<1>1. Texted(t) \in Streamer(def)
  BY DEF Streamer, Texted
<1> QED BY <1>1 DEF Streamer, Texted, Alike, SameFront

\* Lines with one more.
LEMMA AppendedIs ==
  ASSUME NEW ls \in Lines, NEW l \in Line
  PROVE  /\ Append(ls, l) \in Lines /\ Len(Append(ls, l)) = Len(ls) + 1 /\ Len(ls) \in Nat
         /\ Append(ls, l)[Len(ls) + 1] = l /\ \A i \in 1..Len(ls) : Append(ls, l)[i] = ls[i]
         /\ DOMAIN ls = 1..Len(ls) /\ DOMAIN Append(ls, l) = 1..(Len(ls) + 1)
BY DEF Lines

\* The empty lines and the one that ends the wait, all released (feedFolded).
LEMMA ReleasedAll ==
  ASSUME def \in Definitions, NEW t, NEW B \in Nat, Kept(def, t, B), Ok(t), NEW l \in Line, Ordered(t, l.num)
  PROVE  Folded(t, FoldLeft(release, Texted(t), Append(t.empty, l)), l, B + LineBytes(l.text))
<1> DEFINE v == Texted(t)
           ls == Append(t.empty, l)
           n == Len(t.empty) + 1
           C == B + LineBytes(l.text)
<1>1. t \in Streamer(def) /\ t.empty \in Lines /\ C \in Nat /\ B <= C
  <2>1. LineBytes(l.text) \in Nat
    BY LineNat
  <2> QED BY <2>1 DEF Kept, Books, Streamer
<1>2. v \in Streamer(def) /\ Kept(def, v, B) /\ Ok(v) /\ v.empty = t.empty /\ v.csvRec = t.csvRec /\ v.folding = t.folding /\ v.fates = t.fates
  <2>1. v \in Streamer(def) /\ Alike(t, v)
    BY <1>1, TextedIs
  <2> HIDE DEF v
  <2> QED BY <2>1, AlikeKeeps DEF Alike, SameFront, Ok
<1>3. /\ ls \in Lines /\ Len(ls) = n /\ Len(t.empty) \in Nat /\ n \in Nat /\ n >= 1
      /\ ls[n] = l /\ (\A i \in 1..(n - 1) : ls[i] = t.empty[i]) /\ DOMAIN t.empty = 1..(n - 1)
      /\ l.num \in Nat
  BY <1>1, AppendedIs, LineNat
<1> HIDE DEF v, ls, n, C
<1>4. \A i, j \in 1..n : i < j => ls[i].num < ls[j].num
  <2> SUFFICES ASSUME NEW i \in 1..n, NEW j \in 1..n, i < j PROVE ls[i].num < ls[j].num
    OBVIOUS
  <2>1. i \in 1..(n - 1)
    BY <1>3
  <2>2. CASE j = n
    BY <1>3, <2>1, <2>2 DEF Ordered
  <2>3. CASE j # n
    <3>1. j \in 1..(n - 1)
      BY <1>3, <2>3
    <3> QED BY <1>3, <2>1, <3>1 DEF Ordered
  <2> QED BY <2>2, <2>3
<1>5. \A x \in DOMAIN t.fates : x < l.num /\ x \in Nat /\ \A j \in 1..n : x < ls[j].num
  <2> SUFFICES ASSUME NEW x \in DOMAIN t.fates, NEW j \in 1..n PROVE x < l.num /\ x \in Nat /\ x < ls[j].num
    BY <1>3
  <2>1. x < l.num /\ x \in Nat
    BY <1>1, FatesAre DEF Ordered
  <2>2. CASE j = n
    BY <1>3, <2>1, <2>2
  <2>3. CASE j # n
    <3>1. j \in 1..(n - 1)
      BY <1>3, <2>3
    <3> QED BY <1>3, <2>1, <3>1 DEF Ordered
  <2> QED BY <2>2, <2>3
<1>6. Released(v, ls, v, 0, B, C)
  <2>1. 0 < Len(ls) /\ Len(t.empty) = n - (0 + 1)
    BY <1>3 DEF n
  <2>2. \A j \in 1..Len(t.empty) : t.empty[j] = ls[0 + j]
    <3>1. \A j \in 1..Len(t.empty) : j \in 1..(n - 1) /\ 0 + j = j
      BY <1>3, <2>1
    <3> QED BY <1>3, <3>1
  <2>3. \A x \in DOMAIN t.fates : x <= ls[n].num
    BY <1>3, <1>5
  <2>4. \A j \in (0 + 1)..n : j \in 1..n
    BY <1>3
  <2> QED BY <1>1, <1>2, <1>3, <1>5, <2>1, <2>2, <2>3, <2>4 DEF Released
<1>a. PICK g : /\ g[0] = v /\ g[Len(ls)] = FoldLeft(release, v, ls)
               /\ \A i \in 0..(Len(ls) - 1) : g[i + 1] = release(g[i], ls[i + 1])
  BY <1>2, <1>3, ReleasesFold
<1>7. /\ g[0] = v /\ g[n] = FoldLeft(release, v, ls)
      /\ \A i \in 0..(n - 1) : g[i + 1] = release(g[i], ls[i + 1])
  BY <1>3, <1>a
<1> DEFINE T == {i \in 0..n : Released(v, ls, g[i], i, B, C)}
<1>8. 0 \in T
  BY <1>3, <1>6, <1>7
<1>9. ASSUME NEW i \in 0..(n - 1), i \in T PROVE i + 1 \in T
  <2>1. Released(v, ls, release(g[i], ls[i + 1]), i + 1, B, C)
    <3>1. i \in 0..(Len(ls) - 1) /\ \A j, k \in 1..Len(ls) : j < k => ls[j].num < ls[k].num
      BY <1>3, <1>4
    <3>2. Released(v, ls, g[i], i, B, C)
      BY <1>9
    <3>3. C = B + LineBytes(ls[Len(ls)].text)
      BY <1>3 DEF C
    <3> HIDE DEF T
    <3> QED BY <1>1, <1>3, <3>1, <3>2, <3>3, ReleasedOne
  <2>2. i + 1 \in 0..n
    BY <1>3
  <2> QED BY <1>7, <2>1, <2>2
<1>10. n \in T
  <2>1. n \in 0..n
    BY <1>3
  <2> HIDE DEF T
  <2>2. \A i \in 0..n : i \in T
    BY <1>3, <1>8, <1>9, Reaches
  <2> QED BY <2>1, <2>2
<1> DEFINE u == g[n]
<1>11. /\ Kept(def, u, C) /\ u.csvRec = v.csvRec /\ u.folding = v.folding
       /\ Ok(u) => u.empty \in Lines /\ Len(u.empty) = 0 /\ \A x \in DOMAIN u.fates : x <= l.num
  <2>1. Released(v, ls, u, n, B, C) /\ ~(n < Len(ls))
    BY <1>3, <1>10
  <2> QED BY <1>3, <2>1 DEF Released
<1> HIDE DEF u
<1>12. Ok(u) => Ordered(u, l.num + 1)
  <2> SUFFICES ASSUME Ok(u) PROVE Ordered(u, l.num + 1)
    OBVIOUS
  <2>1. DOMAIN u.empty = {}
    BY <1>11 DEF Lines
  <2>2. \A x \in DOMAIN u.fates : x < l.num + 1
    <3>1. DOMAIN u.fates \in SUBSET Nat
      BY <1>11, FatesAre DEF Kept, Books
    <3> QED BY <1>3, <1>11, <3>1
  <2> QED BY <2>1, <2>2 DEF Ordered
<1>13. Folded(t, u, l, C)
  BY <1>2, <1>11, <1>12 DEF Folded
<1> QED BY <1>7, <1>13 DEF u, v, ls, C

Waiting(t, e, h) == Fronted(t, t.csvRec, t.folding, e, h)

\* A folded line is dropped, waits, or releases what waits; the books are kept and the
\* order is (feedFolded).
LEMMA FoldedFed ==
  ASSUME def \in Definitions, NEW t, NEW B \in Nat, Kept(def, t, B), Ok(t), NEW l \in Line, Ordered(t, l.num)
  PROVE  Folded(t, feedFolded(t, l), l, B + LineBytes(l.text))
<1> DEFINE b == LineBytes(l.text)
           u == feedFolded(t, l)
           edge == EdgeBlank(l, def.skipBlank)
<1>1. /\ t \in Streamer(def) /\ b \in Nat /\ B + b \in Nat /\ B <= B + b /\ l.num \in Nat /\ Charged(def, t)
      /\ t.csvRec \in Lines /\ t.folding \in Lines /\ t.empty \in Lines /\ t.held \in Int
  BY LineNat DEF Kept, Books, Streamer
<1>2. CASE edge /\ (def.skipBlank \/ ~t.text)
  <2>1. u = t
    BY <1>2 DEF feedFolded
  <2>2. Kept(def, t, B + b)
    BY <1>1, KeptMore
  <2>3. Ordered(t, l.num + 1)
    BY <1>1, OrderedMore
  <2> QED BY <2>1, <2>2, <2>3 DEF Folded
<1>3. CASE edge /\ ~def.skipBlank /\ t.text
  <2> DEFINE w == take(t, l)
             e == Append(t.empty, l)
             h == t.held + b
             v == Waiting(t, e, h)
  <2>1. u = IF Ok(w) THEN [w EXCEPT !.empty = Append(@, l)] ELSE w
    BY <1>3 DEF feedFolded, Then
  <2>2. /\ w \in Streamer(def)
        /\ ~Ok(w) => Kept(def, w, B + b)
        /\ Ok(w) => w = [t EXCEPT !.held = h] /\ h <= def.limit
        /\ w.csvRec = t.csvRec /\ w.folding = t.folding /\ w.empty = t.empty /\ w.fates = t.fates
    BY TakeFront
  <2> HIDE DEF w, u
  <2>3. CASE ~Ok(w)
    BY <2>1, <2>2, <2>3 DEF Folded, u
  <2>4. CASE Ok(w)
    <3>1. u = v
      BY <1>1, <2>1, <2>2, <2>4 DEF Waiting, Fronted, Streamer
    <3>2. e \in Lines /\ LinesBytes(e) = LinesBytes(t.empty) + b /\ h \in Int
      BY <1>1, LinesBytesAppend DEF Lines
    <3>3. LinesBytes(t.csvRec) + LinesBytes(t.folding) + LinesBytes(e) - FrontBytes(t) = h - t.held /\ h - t.held <= (B + b) - B
      <4>1. LinesBytes(t.csvRec) \in Nat /\ LinesBytes(t.folding) \in Nat /\ LinesBytes(t.empty) \in Nat
        BY <1>1, LinesBytesNat DEF Lines
      <4> QED BY <1>1, <3>2, <4>1 DEF FrontBytes
    <3> DEFINE c == t.csvRec
               f == t.folding
    <3>4. c \in Lines /\ f \in Lines /\ h <= def.limit /\ LinesBytes(c) + LinesBytes(f) + LinesBytes(e) - FrontBytes(t) = h - t.held
      BY <1>1, <2>2, <2>4, <3>3
    <3>5. v = Fronted(t, c, f, e, h)
      BY DEF Waiting
    <3>6. /\ DOMAIN e = 1..(Len(t.empty) + 1) /\ DOMAIN t.empty = 1..Len(t.empty) /\ Len(t.empty) \in Nat
          /\ e[Len(t.empty) + 1] = l /\ \A i \in DOMAIN t.empty : e[i] = t.empty[i]
      <4>1. /\ e[Len(t.empty) + 1] = l /\ (\A i \in 1..Len(t.empty) : e[i] = t.empty[i]) /\ Len(t.empty) \in Nat
            /\ DOMAIN t.empty = 1..Len(t.empty) /\ DOMAIN e = 1..(Len(t.empty) + 1)
        BY <1>1, AppendedIs
      <4> HIDE DEF e
      <4> QED BY <4>1
    <3>a. c \in Lines /\ f \in Lines /\ e \in Lines /\ h \in Int
      BY <3>2, <3>4
    <3> HIDE DEF v, c, f, e, h
    <3>7. Kept(def, v, B + b) /\ Ok(v)
      BY <1>1, <3>2, <3>3, <3>4, <3>5, FrontedKeeps
    <3>8. v.csvRec = c /\ v.folding = f /\ v.empty = e /\ v.fates = t.fates
      <4>1. t \in Streamer(def)
        BY <1>1
      <4>2. LET x == Fronted(t, c, f, e, h)
            IN /\ x \in Streamer(def) /\ x.csvRec = c /\ x.folding = f /\ x.empty = e /\ x.held = h
               /\ x.subs = t.subs /\ x.out = t.out /\ x.lines = t.lines /\ x.fates = t.fates /\ x.sent = t.sent /\ x.err = t.err
        BY <3>a, <4>1, FrontedIs, Z3
      <4> QED BY <3>5, <4>2
    <3>9. Ordered(v, l.num + 1)
      <4> DEFINE n == Len(t.empty)
      <4>1. \A x \in DOMAIN t.fates : x \in Nat /\ x < l.num
        BY <1>1, FatesAre DEF Ordered
      <4>2. \A i \in 1..n : t.empty[i].num \in Nat /\ t.empty[i].num < l.num
        <5>1. \A i \in 1..n : t.empty[i] \in Line
          BY <1>1, <3>6 DEF Lines
        <5>2. \A i \in 1..n : t.empty[i].num < l.num
          BY <3>6 DEF Ordered
        <5> QED BY <5>1, <5>2, LineNat
      <4>3. /\ \A x \in DOMAIN t.fates, i \in 1..n : x < t.empty[i].num
            /\ \A i, j \in 1..n : i < j => t.empty[i].num < t.empty[j].num
        BY <3>6 DEF Ordered
      <4>4. n \in Nat /\ DOMAIN e = 1..(n + 1) /\ e[n + 1] = l /\ \A i \in 1..n : e[i] = t.empty[i]
        BY <3>6
      <4> HIDE DEF n
      <4>5. \A i \in 1..(n + 1) : i \in 1..n \/ i = n + 1
        BY <4>4
      <4>6. \A x \in DOMAIN t.fates : x < l.num + 1 /\ \A i \in DOMAIN e : x < e[i].num
        BY <1>1, <4>1, <4>3, <4>4, <4>5
      <4>7. \A i \in DOMAIN e : e[i].num < l.num + 1
        <5> SUFFICES ASSUME NEW i \in 1..(n + 1) PROVE e[i].num < l.num + 1
          BY <4>4
        <5>1. CASE i \in 1..n
          <6>1. t.empty[i].num \in Nat /\ t.empty[i].num < l.num /\ e[i] = t.empty[i]
            BY <4>2, <4>4, <5>1
          <6> QED BY <1>1, <6>1
        <5>2. CASE i = n + 1
          <6>1. e[i].num = l.num
            BY <4>4, <5>2
          <6> QED BY <1>1, <6>1
        <5> QED BY <4>5, <5>1, <5>2
      <4>8. \A i, j \in DOMAIN e : i < j => e[i].num < e[j].num
        <5> SUFFICES ASSUME NEW i \in 1..(n + 1), NEW j \in 1..(n + 1), i < j PROVE e[i].num < e[j].num
          BY <4>4
        <5>1. i \in 1..n
          BY <4>4
        <5> QED BY <4>2, <4>3, <4>4, <4>5, <5>1
      <4> QED BY <3>8, <4>6, <4>7, <4>8 DEF Ordered
    <3> QED BY <3>1, <3>7, <3>8, <3>9 DEF Folded, u, c, f
  <2> QED BY <2>3, <2>4
<1>4. CASE ~edge
  <2>1. u = FoldLeft(release, Texted(t), Append(t.empty, l))
    BY <1>4 DEF feedFolded, Texted
  <2> QED BY <2>1, ReleasedAll
<1> QED BY <1>2, <1>3, <1>4

\* What is charged changes by what is held, within the limit.
Moved(t, c, f, e, h, B, C) ==
  /\ h <= def.limit /\ h - t.held <= C - B
  /\ LinesBytes(c) + LinesBytes(f) + LinesBytes(e) - FrontBytes(t) = h - t.held

\* What is charged changes by what is held, within the limit.
LEMMA FrontChanged ==
  ASSUME def \in Definitions, NEW t, NEW B \in Nat, NEW C \in Nat, Kept(def, t, B), Ok(t),
         NEW c \in Lines, NEW f \in Lines, NEW e \in Lines, NEW h \in Int, Moved(t, c, f, e, h, B, C),
         NEW v, v = Fronted(t, c, f, e, h)
  PROVE  /\ Kept(def, v, C) /\ Ok(v) /\ v \in Streamer(def)
         /\ v.csvRec = c /\ v.folding = f /\ v.empty = e /\ v.held = h /\ v.fates = t.fates
<1>1. Kept(def, v, C) /\ Ok(v)
  BY FrontedKeeps DEF Moved
<1>2. t \in Streamer(def)
  BY DEF Kept, Books
<1>3. v \in Streamer(def)
  BY <1>1 DEF Kept, Books
<1>4. v.csvRec = c /\ v.folding = f /\ v.empty = e /\ v.held = h /\ v.fates = t.fates
  BY <1>2 DEF Fronted, Streamer
<1> QED BY <1>1, <1>3, <1>4

\* What is known of a streamer whose books are kept, before any line of it is touched.
LEMMA FrontIs ==
  ASSUME def \in Definitions, NEW t, NEW B \in Nat, Kept(def, t, B), Ok(t)
  PROVE  /\ t \in Streamer(def) /\ t.csvRec \in Lines /\ t.folding \in Lines /\ t.empty \in Lines /\ t.held \in Int
         /\ LinesBytes(t.csvRec) \in Nat /\ LinesBytes(t.folding) \in Nat /\ LinesBytes(t.empty) \in Nat
         /\ FrontBytes(t) = LinesBytes(t.csvRec) + LinesBytes(t.folding) + LinesBytes(t.empty)
         /\ FrontBytes(t) <= B /\ t.held <= def.limit /\ def.limit \in Nat
<1>1. t \in Streamer(def) /\ Charged(def, t) /\ Fits(def, t, B)
  BY DEF Kept, Books
<1>2. t.csvRec \in Lines /\ t.folding \in Lines /\ t.empty \in Lines /\ t.held \in Int
  BY <1>1 DEF Streamer
<1>3. LinesBytes(t.csvRec) \in Nat /\ LinesBytes(t.folding) \in Nat /\ LinesBytes(t.empty) \in Nat
  BY <1>2, LinesBytesNat DEF Lines
<1>4. FrontBytes(t) = LinesBytes(t.csvRec) + LinesBytes(t.folding) + LinesBytes(t.empty)
  BY DEF FrontBytes
<1>5. t.held <= def.limit /\ def.limit \in Nat
  BY <1>1, PartsAre DEF Charged
<1>6. FrontBytes(t) <= B
  <2>1. 1 \in DOMAIN def.parts
    BY PartsAre
  <2>2. Load(t, 1) \in Nat /\ FrontBytes(t) \in Nat
    BY <1>1, <2>1, LoadNat
  <2>3. FrontBytes(t) + Load(t, 1) <= B
    BY <1>1, <2>1 DEF Fits
  <2> QED BY <2>2, <2>3
<1> QED BY <1>1, <1>2, <1>3, <1>4, <1>5, <1>6

\* The line a fold may still join comes after what was handed on.
FoldOrdered(t, m) ==
  /\ def.fold = {} => t.folding = <<>>
  /\ t.folding = <<>> => Ordered(t, m)
  /\ t.folding # <<>> => Ordered(t, t.folding[1].num) /\ t.folding[1].num < m

\* The first of some lines has a number.
LEMMA FirstNum ==
  ASSUME NEW ls \in Lines, ls # <<>>
  PROVE  ls[1] \in Line /\ ls[1].num \in Nat /\ Len(ls) \in Nat /\ Len(ls) >= 1
<1>1. ls[1] \in Line /\ Len(ls) \in Nat /\ Len(ls) >= 1
  BY DEF Lines
<1> QED BY <1>1, LineNat

\* What a fold holds comes before what is later.
LEMMA FoldOrderedMore ==
  ASSUME def \in Definitions, NEW t \in Streamer(def), NEW m \in Nat, NEW n \in Nat, m <= n, FoldOrdered(t, m)
  PROVE  FoldOrdered(t, n)
<1>1. t.folding \in Lines
  BY DEF Streamer
<1>2. t.folding = <<>> => Ordered(t, n)
  BY OrderedMore DEF FoldOrdered
<1>3. t.folding # <<>> => t.folding[1].num < n
  <2> SUFFICES ASSUME t.folding # <<>> PROVE t.folding[1].num < n
    OBVIOUS
  <2>1. t.folding[1].num \in Nat /\ t.folding[1].num < m
    BY <1>1, FirstNum DEF FoldOrdered
  <2> QED BY <2>1
<1> QED BY <1>2, <1>3 DEF FoldOrdered

\* The order is of the fates and the empty lines.
LEMMA SameOrder ==
  ASSUME NEW t, NEW v, v.fates = t.fates, v.empty = t.empty, NEW m, Ordered(t, m)
  PROVE  Ordered(v, m)
BY DEF Ordered

Rawed(t, u, l, C) ==
  /\ Kept(def, u, C) /\ u.csvRec = t.csvRec
  /\ Ok(u) => FoldOrdered(u, l.num + 1)

\* The fold is let go, to be handed on: its bytes are those of the line it becomes
\* (releaseFolding).
LEMMA FoldLetGo ==
  ASSUME def \in Definitions, NEW t, NEW B \in Nat, Kept(def, t, B), Ok(t)
  PROVE  LET r == releaseFolding(t)
             C == B - LinesBytes(t.folding)
         IN /\ C \in Nat /\ C <= B /\ Kept(def, r, C) /\ Ok(r) /\ r.csvRec = t.csvRec /\ r.folding = <<>> /\ r.empty = t.empty
            /\ r.fates = t.fates
<1> DEFINE r == releaseFolding(t)
           x == LinesBytes(t.folding)
           C == B - x
           none == <<>>
           c == t.csvRec
           e == t.empty
           h == t.held - x
<1>1. /\ t \in Streamer(def) /\ c \in Lines /\ t.folding \in Lines /\ e \in Lines /\ t.held \in Int
      /\ LinesBytes(c) \in Nat /\ x \in Nat /\ LinesBytes(e) \in Nat
      /\ FrontBytes(t) = LinesBytes(c) + x + LinesBytes(e)
      /\ FrontBytes(t) <= B /\ t.held <= def.limit /\ def.limit \in Nat
  BY FrontIs
<1>2. none \in Lines /\ LinesBytes(none) = 0
  BY LinesBytesNone DEF Lines
<1>3. r = Fronted(t, c, none, e, h)
  BY <1>1 DEF releaseFolding, give, Fronted, Streamer
<1>4. /\ C \in Nat /\ C <= B /\ h \in Int /\ h <= def.limit /\ h - t.held <= C - B
      /\ LinesBytes(c) + LinesBytes(none) + LinesBytes(e) - FrontBytes(t) = h - t.held
  BY <1>1, <1>2
<1>5. none = <<>>
  OBVIOUS
<1>a. Moved(t, c, none, e, h, B, C)
  BY <1>4 DEF Moved
<1> HIDE DEF r, C, c, e, h, none, x
<1>6. /\ Kept(def, r, C) /\ Ok(r) /\ r \in Streamer(def)
      /\ r.csvRec = c /\ r.folding = none /\ r.empty = e /\ r.held = h /\ r.fates = t.fates
  BY <1>1, <1>2, <1>3, <1>4, <1>a, FrontChanged
<1> QED BY <1>4, <1>5, <1>6 DEF r, C, c, e, x

\* A line that begins what may be folded is charged.
LEMMA Begins ==
  ASSUME def \in Definitions, NEW t, NEW B \in Nat, Kept(def, t, B), Ok(t), t.folding = <<>>, NEW l \in Line
  PROVE  LET w == take(t, l)
             u == [w EXCEPT !.folding = <<l>>]
             C == B + LineBytes(l.text)
         IN /\ C \in Nat /\ B <= C
            /\ ~Ok(w) => Kept(def, w, C) /\ w.csvRec = t.csvRec
            /\ Ok(w) => /\ Kept(def, u, C) /\ Ok(u) /\ u.csvRec = t.csvRec /\ u.folding = <<l>> /\ u.empty = t.empty
                        /\ u.fates = t.fates
<1> DEFINE w == take(t, l)
           u == [w EXCEPT !.folding = <<l>>]
           b == LineBytes(l.text)
           C == B + b
           c == t.csvRec
           e == t.empty
           f == <<l>>
           h == t.held + b
<1>1. /\ t \in Streamer(def) /\ c \in Lines /\ e \in Lines /\ t.held \in Int
      /\ LinesBytes(c) \in Nat /\ LinesBytes(t.folding) = 0 /\ LinesBytes(e) \in Nat
      /\ FrontBytes(t) = LinesBytes(c) + LinesBytes(t.folding) + LinesBytes(e)
  BY FrontIs, LinesBytesNone
<1>2. f \in Lines /\ LinesBytes(f) = b
  BY LinesBytesOne DEF Lines
<1>3. /\ w \in Streamer(def) /\ b \in Nat
      /\ ~Ok(w) => Kept(def, w, C)
      /\ Ok(w) => w = [t EXCEPT !.held = h] /\ h <= def.limit
      /\ w.csvRec = t.csvRec /\ w.folding = t.folding /\ w.empty = t.empty /\ w.fates = t.fates
  BY TakeFront
<1>4. /\ C \in Nat /\ B <= C /\ h \in Int /\ h - t.held <= C - B
      /\ LinesBytes(c) + LinesBytes(f) + LinesBytes(e) - FrontBytes(t) = h - t.held
  <2> HIDE DEF f, c, e, b
  <2> QED BY <1>1, <1>2, <1>3
<1>5. ASSUME Ok(w)
      PROVE  /\ Kept(def, u, C) /\ Ok(u) /\ u \in Streamer(def)
             /\ u.csvRec = c /\ u.folding = f /\ u.empty = e /\ u.held = h /\ u.fates = t.fates
  <2>1. u = Fronted(t, c, f, e, h)
    <3> HIDE DEF w, f, h
    <3>1. w = [t EXCEPT !.held = h] /\ u = [w EXCEPT !.folding = f]
      BY <1>3, <1>5 DEF f
    <3> QED BY <1>1, <3>1 DEF Fronted, Streamer
  <2>2. Moved(t, c, f, e, h, B, C)
    BY <1>3, <1>4, <1>5 DEF Moved
  <2>3. C \in Nat /\ h \in Int /\ f \in Lines
    BY <1>2, <1>4
  <2> HIDE DEF u, C, c, e, f, h, b, w
  <2> QED BY <1>1, <2>1, <2>2, <2>3, FrontChanged
<1> HIDE DEF u, w
<1> QED BY <1>3, <1>4, <1>5 DEF u, w

\* A piece of a fold, without its spaces, costs no more than its line.
LEMMA PieceIs ==
  ASSUME NEW l \in Line
  PROVE  LET p == [l EXCEPT !.text = Trimmed(l)]
         IN p \in Line /\ LineBytes(p.text) \in Nat /\ LineBytes(p.text) <= LineBytes(l.text) /\ LineBytes(l.text) \in Nat
<1>1. Trimmed(l) \in Text /\ LineBytes(Trimmed(l)) <= LineBytes(l.text)
  BY TrimmedBytes
<1> DEFINE x == Trimmed(l)
           p == [l EXCEPT !.text = x]
<1>2. x \in Text
  BY <1>1
<1> HIDE DEF x
<1>3. p \in Line /\ p.text = x
  BY <1>2 DEF Line
<1> QED BY <1>1, <1>3, LineNat DEF x

\* A piece goes to the end of the fold, and is charged.
LEMMA Joins ==
  ASSUME def \in Definitions, NEW t, NEW B \in Nat, Kept(def, t, B), Ok(t), t.folding # <<>>, NEW l \in Line
  PROVE  LET w == take(t, l)
             u == [w EXCEPT !.folding = Append(@, l)]
             C == B + LineBytes(l.text)
         IN /\ C \in Nat /\ B <= C
            /\ ~Ok(w) => Kept(def, w, C) /\ w.csvRec = t.csvRec
            /\ Ok(w) => /\ Kept(def, u, C) /\ Ok(u) /\ u.csvRec = t.csvRec /\ u.empty = t.empty
                        /\ u.folding # <<>> /\ u.folding[1] = t.folding[1] /\ u.fates = t.fates
<1> DEFINE w == take(t, l)
           f == Append(t.folding, l)
           u == [w EXCEPT !.folding = Append(@, l)]
           b == LineBytes(l.text)
           C == B + b
           c == t.csvRec
           e == t.empty
           h == t.held + b
<1>1. /\ t \in Streamer(def) /\ c \in Lines /\ e \in Lines /\ t.held \in Int /\ t.folding \in Lines
      /\ LinesBytes(c) \in Nat /\ LinesBytes(t.folding) \in Nat /\ LinesBytes(e) \in Nat
      /\ FrontBytes(t) = LinesBytes(c) + LinesBytes(t.folding) + LinesBytes(e)
  BY FrontIs
<1>2. f \in Lines /\ LinesBytes(f) = LinesBytes(t.folding) + b /\ f # <<>> /\ f[1] = t.folding[1]
  <2>1. f \in Lines /\ LinesBytes(f) = LinesBytes(t.folding) + b
    BY <1>1, LinesBytesAppend DEF Lines
  <2>2. f # <<>> /\ f[1] = t.folding[1]
    <3>1. Len(f) = Len(t.folding) + 1 /\ Len(t.folding) \in Nat /\ \A i \in 1..Len(t.folding) : f[i] = t.folding[i]
      BY <1>1, AppendedIs
    <3>2. Len(t.folding) >= 1
      BY <1>1, FirstNum
    <3>3. f \in Seq(Line)
      BY <2>1 DEF Lines
    <3> HIDE DEF f
    <3> QED BY <3>1, <3>2, <3>3
  <2> QED BY <2>1, <2>2
<1>3. /\ w \in Streamer(def) /\ b \in Nat
      /\ ~Ok(w) => Kept(def, w, C)
      /\ Ok(w) => w = [t EXCEPT !.held = h] /\ h <= def.limit
      /\ w.csvRec = t.csvRec /\ w.folding = t.folding /\ w.empty = t.empty /\ w.fates = t.fates
  BY TakeFront
<1>4. /\ C \in Nat /\ B <= C /\ h \in Int /\ h - t.held <= C - B
      /\ LinesBytes(c) + LinesBytes(f) + LinesBytes(e) - FrontBytes(t) = h - t.held
  <2>1. LinesBytes(f) = LinesBytes(t.folding) + b /\ b \in Nat
    BY <1>2, <1>3
  <2> HIDE DEF f, c, e, b
  <2> QED BY <1>1, <2>1
<1>5. ASSUME Ok(w)
      PROVE  /\ Kept(def, u, C) /\ Ok(u) /\ u \in Streamer(def)
             /\ u.csvRec = c /\ u.folding = f /\ u.empty = e /\ u.held = h /\ u.fates = t.fates
  <2>1. u = Fronted(t, c, f, e, h)
    <3> HIDE DEF w, h
    <3>1. w = [t EXCEPT !.held = h] /\ w.folding = t.folding
      BY <1>3, <1>5
    <3>2. u = [w EXCEPT !.folding = f]
      BY <3>1
    <3> HIDE DEF f, u
    <3> QED BY <1>1, <3>1, <3>2 DEF Fronted, Streamer
  <2>2. Moved(t, c, f, e, h, B, C)
    BY <1>3, <1>4, <1>5 DEF Moved
  <2>3. C \in Nat /\ h \in Int /\ f \in Lines
    BY <1>2, <1>4
  <2> HIDE DEF u, C, c, e, f, h, b, w
  <2> QED BY <1>1, <2>1, <2>2, <2>3, FrontChanged
<1> HIDE DEF u, w, f
<1> QED BY <1>2, <1>3, <1>4, <1>5 DEF u, w

\* A line joins the fold, or ends it and begins the next; the books are kept and the
\* order is (feedRaw).
LEMMA RawFed ==
  ASSUME def \in Definitions, NEW t, NEW B \in Nat, Kept(def, t, B), Ok(t), NEW l \in Line, FoldOrdered(t, l.num)
  PROVE  Rawed(t, feedRaw(t, l), l, B + LineBytes(l.text))
<1> DEFINE b == LineBytes(l.text)
           u == feedRaw(t, l)
           C == B + b
<1>1. /\ t \in Streamer(def) /\ b \in Nat /\ C \in Nat /\ B <= C /\ l.num \in Nat /\ l.num + 1 \in Nat /\ l.num <= l.num + 1
      /\ t.folding \in Lines /\ LinesBytes(t.folding) \in Nat
  BY FrontIs, LineNat
<1>2. CASE def.fold = {}
  <2>1. u = feedFolded(t, l)
    BY <1>2 DEF feedRaw
  <2>2. t.folding = <<>> /\ Ordered(t, l.num)
    BY <1>2 DEF FoldOrdered
  <2>3. Folded(t, u, l, C)
    BY <2>1, <2>2, FoldedFed
  <2> HIDE DEF u, C
  <2> QED BY <2>2, <2>3 DEF Folded, Rawed, FoldOrdered, u, C
<1>3. CASE def.fold # {} /\ Continues(def, l)
  <2> DEFINE p == [l EXCEPT !.text = Trimmed(l)]
             w == take(t, p)
             v == [w EXCEPT !.folding = Append(@, p)]
             D == B + LineBytes(p.text)
  <2>1. CASE t.folding = <<>> \/ Blank(t.folding[1])
    <3>1. u = Fail(t, "refused")
      BY <1>3, <2>1 DEF feedRaw
    <3>2. Books(def, t, C)
      BY <1>1, KeptMore DEF Kept
    <3>3. Kept(def, u, C) /\ SameFront(t, u) /\ ~Ok(u)
      BY <3>1, <3>2, FailKeeps
    <3> QED BY <3>3 DEF Rawed, SameFront
  <2>2. CASE ~(t.folding = <<>> \/ Blank(t.folding[1]))
    <3>1. u = IF Ok(w) THEN v ELSE w
      BY <1>3, <2>2 DEF feedRaw, Then
    <3>2. p \in Line /\ LineBytes(p.text) \in Nat /\ LineBytes(p.text) <= b
      BY PieceIs
    <3> HIDE DEF p, u
    <3>3. /\ D \in Nat /\ B <= D
          /\ ~Ok(w) => Kept(def, w, D) /\ w.csvRec = t.csvRec
          /\ Ok(w) => /\ Kept(def, v, D) /\ Ok(v) /\ v.csvRec = t.csvRec /\ v.empty = t.empty
                      /\ v.folding # <<>> /\ v.folding[1] = t.folding[1] /\ v.fates = t.fates
      BY <2>2, <3>2, Joins
    <3>4. D <= C
      BY <1>1, <3>2
    <3> HIDE DEF D, w, v, C
    <3>5. Kept(def, u, C) /\ u.csvRec = t.csvRec
      BY <1>1, <3>1, <3>3, <3>4, KeptMore
    <3>6. Ok(u) => FoldOrdered(u, l.num + 1)
      <4> SUFFICES ASSUME Ok(u) PROVE FoldOrdered(u, l.num + 1)
        OBVIOUS
      <4>1. /\ u.empty = t.empty /\ u.folding # <<>> /\ u.folding[1] = t.folding[1] /\ u.fates = t.fates
        BY <3>1, <3>3
      <4>2. FoldOrdered(t, l.num + 1)
        BY <1>1, FoldOrderedMore
      <4>3. Ordered(t, t.folding[1].num) /\ t.folding[1].num < l.num + 1
        BY <2>2, <4>2 DEF FoldOrdered
      <4>4. Ordered(u, u.folding[1].num)
        BY <4>1, <4>3, SameOrder
      <4> QED BY <1>3, <4>1, <4>3, <4>4 DEF FoldOrdered
    <3> QED BY <3>5, <3>6 DEF Rawed, u, C
  <2> QED BY <2>1, <2>2
<1>4. CASE def.fold # {} /\ ~Continues(def, l)
  <2> DEFINE r == releaseFolding(t)
             x == LinesBytes(t.folding)
             A == B - x
             w == take(r, l)
             v == [w EXCEPT !.folding = <<l>>]
             D == A + b
  <2>1. u = IF Ok(w) THEN (IF t.folding = <<>> THEN v ELSE feedFolded(v, Joined(t.folding))) ELSE w
    BY <1>4, Zenon DEF feedRaw, Then
  <2>2. /\ A \in Nat /\ A <= B /\ Kept(def, r, A) /\ Ok(r) /\ r.csvRec = t.csvRec /\ r.folding = <<>> /\ r.empty = t.empty
        /\ r.fates = t.fates
    BY FoldLetGo
  <2> HIDE DEF r, A, u
  <2>3. /\ D \in Nat /\ A <= D
        /\ ~Ok(w) => Kept(def, w, D) /\ w.csvRec = r.csvRec
        /\ Ok(w) => /\ Kept(def, v, D) /\ Ok(v) /\ v.csvRec = r.csvRec /\ v.folding = <<l>> /\ v.empty = r.empty
                    /\ v.fates = r.fates
    BY <2>2, Begins
  <2>4. D <= C /\ D + x = C
    BY <1>1, <2>2 DEF A
  <2> HIDE DEF w, v, C, D
  <2>5. CASE ~Ok(w)
    <3>1. Kept(def, w, C)
      BY <1>1, <2>3, <2>4, <2>5, KeptMore
    <3> QED BY <2>1, <2>2, <2>3, <2>5, <3>1 DEF Rawed, u, C
  <2>6. <<l>> # <<>> /\ <<l>>[1] = l
    BY OneIs
  <2>7. CASE Ok(w) /\ t.folding = <<>>
    <3>1. u = v
      BY <2>1, <2>7
    <3>2. Kept(def, v, C)
      BY <1>1, <2>3, <2>4, <2>7, KeptMore
    <3>3. FoldOrdered(v, l.num + 1)
      <4>1. Ordered(t, l.num)
        BY <2>7 DEF FoldOrdered
      <4>2. v.folding # <<>> /\ v.folding[1] = l /\ Ordered(v, l.num)
        BY <2>2, <2>3, <2>6, <2>7, <4>1, SameOrder
      <4>3. l.num < l.num + 1
        BY <1>1
      <4> QED BY <1>4, <4>2, <4>3 DEF FoldOrdered
    <3> QED BY <2>2, <2>3, <2>7, <3>1, <3>2, <3>3 DEF Rawed, u, C
  <2>8. CASE Ok(w) /\ t.folding # <<>>
    <3> DEFINE j == Joined(t.folding)
               m == t.folding[1].num
    <3>1. u = feedFolded(v, j)
      BY <2>1, <2>8
    <3>2. j \in Line /\ j.num = m /\ LineBytes(j.text) = x
      BY <1>1, <2>8, JoinedBytes DEF Lines
    <3>3. m \in Nat /\ m < l.num /\ Ordered(t, m)
      BY <1>1, <2>8, FirstNum DEF FoldOrdered
    <3> HIDE DEF j
    <3>4. Ordered(v, j.num)
      BY <2>2, <2>3, <2>8, <3>2, <3>3, SameOrder
    <3>5. Kept(def, v, D) /\ Ok(v) /\ D \in Nat
      BY <2>3, <2>8
    <3>6. Folded(v, u, j, C)
      <4>1. Folded(v, u, j, D + LineBytes(j.text))
        BY <3>1, <3>2, <3>4, <3>5, FoldedFed
      <4> QED BY <2>4, <3>2, <4>1
    <3>7. Kept(def, u, C) /\ u.csvRec = t.csvRec /\ u.folding = <<l>>
      BY <2>2, <2>3, <2>8, <3>6 DEF Folded
    <3>8. Ok(u) => FoldOrdered(u, l.num + 1)
      <4> SUFFICES ASSUME Ok(u) PROVE FoldOrdered(u, l.num + 1)
        OBVIOUS
      <4>1. Ordered(u, m + 1)
        BY <3>2, <3>6 DEF Folded
      <4>2. u \in Streamer(def)
        BY <3>7 DEF Kept, Books
      <4>3. m + 1 \in Nat /\ m + 1 <= l.num /\ l.num < l.num + 1
        BY <1>1, <3>3
      <4>4. Ordered(u, l.num)
        BY <1>1, <4>1, <4>2, <4>3, OrderedMore
      <4>5. u.folding # <<>> /\ u.folding[1] = l
        BY <2>6, <3>7
      <4> QED BY <1>4, <4>3, <4>4, <4>5 DEF FoldOrdered
    <3> QED BY <3>7, <3>8 DEF Rawed, u, C
  <2> QED BY <2>5, <2>7, <2>8
<1> QED BY <1>2, <1>3, <1>4

-----------------------------------------------------------------------------
\* The records of a csv.

AllOrdered(t, m) ==
  /\ ~def.csv => t.csvRec = <<>>
  /\ t.csvRec = <<>> => FoldOrdered(t, m)
  /\ t.csvRec # <<>> => FoldOrdered(t, t.csvRec[1].num) /\ t.csvRec[1].num < m

\* What the streamer is between the records of its input, once n of them are written.
Between(t, n, B) ==
  /\ Kept(def, t, B)
  /\ Ok(t) => AllOrdered(t, n + 1)

\* The order is of the fold, the fates and the empty lines.
LEMMA SameFoldOrder ==
  ASSUME NEW t, NEW v, v.fates = t.fates, v.empty = t.empty, v.folding = t.folding, NEW m, FoldOrdered(t, m)
  PROVE  FoldOrdered(v, m)
BY SameOrder DEF FoldOrdered

\* The open record of a csv is let go, and handed on as one line (flushCSVRecord).
LEMMA CSVRecordFlushed ==
  ASSUME def \in Definitions, NEW t, NEW B \in Nat, Kept(def, t, B), Ok(t), NEW m \in Nat, AllOrdered(t, m)
  PROVE  LET u == flushCSVRecord(t)
         IN Kept(def, u, B) /\ (Ok(u) => AllOrdered(u, m) /\ u.csvRec = <<>>)
<1> DEFINE u == flushCSVRecord(t)
           r == give([t EXCEPT !.csvRec = <<>>], t.csvRec)
           x == LinesBytes(t.csvRec)
           C == B - x
           none == <<>>
           f == t.folding
           e == t.empty
           h == t.held - x
           j == Joined(t.csvRec)
<1>1. CASE t.csvRec = <<>>
  BY <1>1 DEF flushCSVRecord
<1>2. CASE t.csvRec # <<>>
  <2>1. /\ t \in Streamer(def) /\ t.csvRec \in Lines /\ f \in Lines /\ e \in Lines /\ t.held \in Int
        /\ x \in Nat /\ LinesBytes(f) \in Nat /\ LinesBytes(e) \in Nat
        /\ FrontBytes(t) = x + LinesBytes(f) + LinesBytes(e)
        /\ FrontBytes(t) <= B /\ t.held <= def.limit /\ def.limit \in Nat
    BY FrontIs
  <2>2. none \in Lines /\ LinesBytes(none) = 0 /\ none = <<>>
    BY LinesBytesNone DEF Lines
  <2>3. r = Fronted(t, none, f, e, h)
    BY <2>1 DEF give, Fronted, Streamer
  <2>4. /\ C \in Nat /\ C + x = B /\ h \in Int /\ h <= def.limit /\ h - t.held <= C - B
        /\ LinesBytes(none) + LinesBytes(f) + LinesBytes(e) - FrontBytes(t) = h - t.held
    BY <2>1, <2>2
  <2>5. Moved(t, none, f, e, h, B, C)
    BY <2>4 DEF Moved
  <2>6. u = feedRaw(r, j)
    BY <1>2 DEF flushCSVRecord
  <2> HIDE DEF u, r, C, none, f, e, h, x
  <2>7. /\ Kept(def, r, C) /\ Ok(r) /\ r \in Streamer(def)
        /\ r.csvRec = none /\ r.folding = f /\ r.empty = e /\ r.held = h /\ r.fates = t.fates
    <3>1. C \in Nat /\ h \in Int /\ none \in Lines /\ f \in Lines /\ e \in Lines
      BY <2>1, <2>2, <2>4
    <3> QED BY <2>3, <2>5, <3>1, FrontChanged
  <2>8. j \in Line /\ j.num = t.csvRec[1].num /\ LineBytes(j.text) = x
    BY <1>2, <2>1, JoinedBytes DEF Lines, x
  <2>9. FoldOrdered(t, j.num) /\ j.num < m /\ j.num \in Nat
    BY <1>2, <2>8, LineNat DEF AllOrdered
  <2> HIDE DEF j
  <2>10. FoldOrdered(r, j.num)
    BY <2>7, <2>9, SameFoldOrder DEF f, e
  <2>11. Rawed(r, u, j, B)
    <3>1. Rawed(r, u, j, C + LineBytes(j.text))
      BY <2>4, <2>6, <2>7, <2>8, <2>10, RawFed
    <3> QED BY <2>4, <2>8, <3>1
  <2>12. Ok(u) => FoldOrdered(u, m)
    <3>1. u \in Streamer(def) /\ (Ok(u) => FoldOrdered(u, j.num + 1))
      BY <2>11 DEF Rawed, Kept, Books
    <3>2. j.num + 1 \in Nat /\ j.num + 1 <= m
      BY <2>9
    <3> QED BY <3>1, <3>2, FoldOrderedMore
  <2> QED BY <2>2, <2>7, <2>11, <2>12 DEF Rawed, AllOrdered, u
<1> QED BY <1>1, <1>2

\* A record goes to the lines of the one that is open, and is charged.
LEMMA RecordJoins ==
  ASSUME def \in Definitions, NEW t, NEW B \in Nat, Kept(def, t, B), Ok(t), NEW l \in Line
  PROVE  LET w == take(t, l)
             u == [w EXCEPT !.csvRec = Append(@, l)]
             C == B + LineBytes(l.text)
         IN /\ C \in Nat /\ B <= C
            /\ ~Ok(w) => Kept(def, w, C)
            /\ Ok(w) => /\ Kept(def, u, C) /\ Ok(u) /\ u.folding = t.folding /\ u.empty = t.empty
                        /\ u.csvRec # <<>> /\ u.csvRec[1] = (IF t.csvRec = <<>> THEN l ELSE t.csvRec[1]) /\ u.fates = t.fates
<1> DEFINE w == take(t, l)
           c == Append(t.csvRec, l)
           u == [w EXCEPT !.csvRec = Append(@, l)]
           b == LineBytes(l.text)
           C == B + b
           f == t.folding
           e == t.empty
           h == t.held + b
<1>1. /\ t \in Streamer(def) /\ f \in Lines /\ e \in Lines /\ t.held \in Int /\ t.csvRec \in Lines
      /\ LinesBytes(f) \in Nat /\ LinesBytes(t.csvRec) \in Nat /\ LinesBytes(e) \in Nat
      /\ FrontBytes(t) = LinesBytes(t.csvRec) + LinesBytes(f) + LinesBytes(e)
  BY FrontIs
<1>2. c \in Lines /\ LinesBytes(c) = LinesBytes(t.csvRec) + b /\ c # <<>> /\ c[1] = IF t.csvRec = <<>> THEN l ELSE t.csvRec[1]
  <2>1. c \in Lines /\ LinesBytes(c) = LinesBytes(t.csvRec) + b
    BY <1>1, LinesBytesAppend DEF Lines
  <2>2. /\ Len(c) = Len(t.csvRec) + 1 /\ Len(t.csvRec) \in Nat /\ \A i \in 1..Len(t.csvRec) : c[i] = t.csvRec[i]
        /\ c[Len(t.csvRec) + 1] = l
    BY <1>1, AppendedIs
  <2>3. c \in Seq(Line) /\ t.csvRec \in Seq(Line)
    BY <1>1, <2>1 DEF Lines
  <2> HIDE DEF c
  <2>4. c # <<>>
    BY <2>2, <2>3
  <2>5. CASE t.csvRec = <<>>
    <3>1. Len(t.csvRec) = 0
      BY <2>3, <2>5
    <3> QED BY <2>1, <2>2, <2>4, <2>5, <3>1
  <2>6. CASE t.csvRec # <<>>
    <3>1. 1 \in 1..Len(t.csvRec)
      BY <1>1, <2>6, FirstNum
    <3> QED BY <2>1, <2>2, <2>4, <2>6, <3>1
  <2> QED BY <2>5, <2>6
<1>3. /\ w \in Streamer(def) /\ b \in Nat
      /\ ~Ok(w) => Kept(def, w, C)
      /\ Ok(w) => w = [t EXCEPT !.held = h] /\ h <= def.limit
      /\ w.csvRec = t.csvRec /\ w.folding = t.folding /\ w.empty = t.empty /\ w.fates = t.fates
  BY TakeFront
<1>4. /\ C \in Nat /\ B <= C /\ h \in Int /\ h - t.held <= C - B
      /\ LinesBytes(c) + LinesBytes(f) + LinesBytes(e) - FrontBytes(t) = h - t.held
  <2>1. LinesBytes(c) = LinesBytes(t.csvRec) + b /\ b \in Nat
    BY <1>2, <1>3
  <2> HIDE DEF f, c, e, b
  <2> QED BY <1>1, <2>1
<1>5. ASSUME Ok(w)
      PROVE  /\ Kept(def, u, C) /\ Ok(u) /\ u \in Streamer(def)
             /\ u.csvRec = c /\ u.folding = f /\ u.empty = e /\ u.held = h /\ u.fates = t.fates
  <2>1. u = Fronted(t, c, f, e, h)
    <3> HIDE DEF w, h
    <3>1. w = [t EXCEPT !.held = h] /\ w.csvRec = t.csvRec
      BY <1>3, <1>5
    <3>2. u = [w EXCEPT !.csvRec = c]
      BY <3>1
    <3> HIDE DEF c, u
    <3> QED BY <1>1, <3>1, <3>2 DEF Fronted, Streamer
  <2>2. Moved(t, c, f, e, h, B, C)
    BY <1>3, <1>4, <1>5 DEF Moved
  <2>3. C \in Nat /\ h \in Int /\ c \in Lines
    BY <1>2, <1>4
  <2> HIDE DEF u, C, c, e, f, h, b, w
  <2> QED BY <1>1, <2>1, <2>2, <2>3, FrontChanged
<1> HIDE DEF u, w, c
<1> QED BY <1>2, <1>3, <1>4, <1>5 DEF u, w

\* A line of the text keeps the books of a text that is longer by it (feedPhysical).
LEMMA PhysicalFed ==
  ASSUME def \in Definitions, NEW t, NEW B \in Nat, NEW l \in Line, l.num \in Nat, Ok(t), Kept(def, t, B), AllOrdered(t, l.num)
  PROVE  Between(feedPhysical(t, l), l.num, B + LineBytes(l.text))
<1> DEFINE b == LineBytes(l.text)
           C == B + b
           u == feedPhysical(t, l)
           m == l.num + 1
<1>1. /\ t \in Streamer(def) /\ b \in Nat /\ C \in Nat /\ B <= C /\ m \in Nat /\ l.num < m
      /\ t.csvRec \in Lines
  BY FrontIs, LineNat
<1>2. CASE ~def.csv
  <2>1. u = feedRaw(t, l)
    BY <1>2 DEF feedPhysical
  <2>2. t.csvRec = <<>> /\ FoldOrdered(t, l.num)
    BY <1>2 DEF AllOrdered
  <2>3. Rawed(t, u, l, C)
    BY <2>1, <2>2, RawFed
  <2> HIDE DEF u, C
  <2> QED BY <2>2, <2>3 DEF Rawed, Between, AllOrdered, u, C
<1>3. CASE def.csv
  <2> DEFINE w == take(t, l)
             v == [w EXCEPT !.csvRec = Append(@, l)]
  <2>1. \/ ~Ok(w) /\ u = w
        \/ Ok(w) /\ (u = v \/ u = flushCSVRecord(v))
    BY <1>3 DEF feedPhysical, Then
  <2>2. /\ C \in Nat /\ B <= C
        /\ ~Ok(w) => Kept(def, w, C)
        /\ Ok(w) => /\ Kept(def, v, C) /\ Ok(v) /\ v.folding = t.folding /\ v.empty = t.empty
                    /\ v.csvRec # <<>> /\ v.csvRec[1] = (IF t.csvRec = <<>> THEN l ELSE t.csvRec[1]) /\ v.fates = t.fates
    BY RecordJoins
  <2> HIDE DEF u, C, w, v, m
  <2>3. CASE ~Ok(w)
    BY <2>1, <2>2, <2>3 DEF Between, u, C
  <2>4. CASE Ok(w)
    <3>1. AllOrdered(v, m)
      <4>1. CASE t.csvRec = <<>>
        <5>1. FoldOrdered(t, l.num)
          BY <4>1 DEF AllOrdered
        <5>2. FoldOrdered(v, l.num)
          BY <2>2, <2>4, <5>1, SameFoldOrder
        <5> QED BY <1>1, <1>3, <2>2, <2>4, <4>1, <5>2 DEF AllOrdered
      <4>2. CASE t.csvRec # <<>>
        <5> DEFINE n == t.csvRec[1].num
        <5>1. FoldOrdered(t, n) /\ n < l.num
          BY <4>2 DEF AllOrdered
        <5>2. n \in Nat
          BY <1>1, <4>2, FirstNum
        <5>3. n < m
          BY <1>1, <5>1, <5>2 DEF m
        <5>4. FoldOrdered(v, n)
          BY <2>2, <2>4, <5>1, SameFoldOrder
        <5> QED BY <1>3, <2>2, <2>4, <4>2, <5>3, <5>4 DEF AllOrdered
      <4> QED BY <4>1, <4>2
    <3>2. LET x == flushCSVRecord(v)
          IN Kept(def, x, C) /\ (Ok(x) => AllOrdered(x, m) /\ x.csvRec = <<>>)
      BY <1>1, <2>2, <2>4, <3>1, CSVRecordFlushed
    <3>3. Kept(def, u, C) /\ (Ok(u) => AllOrdered(u, m))
      BY <2>1, <2>2, <2>4, <3>1, <3>2
    <3> QED BY <3>3 DEF Between, u, C, m
  <2> QED BY <2>3, <2>4
<1> QED BY <1>2, <1>3

\* So does a record of the text, whether it is refused or not (feedRecordText).
LEMMA RecordTextFed ==
  ASSUME def \in Definitions, NEW t, NEW B \in Nat, NEW n \in Nat, Between(t, n, B), Ok(t), NEW x \in Letters
  PROVE  LineBytes(<<x>>) \in Nat /\ Between(feedRecordText(t, x, n + 1), n + 1, B + LineBytes(<<x>>))
<1> DEFINE one == <<x>>
           l == [text |-> one, num |-> n + 1]
           u == feedRecordText(t, x, n + 1)
<1>1. one \in Text
  BY OneIs DEF Text, Glyph
<1>2. Kept(def, t, B) /\ AllOrdered(t, n + 1)
  BY DEF Between
<1>3. u = IF x \in Garbled THEN Fail(t, "refused") ELSE feedPhysical(t, l)
  BY DEF feedRecordText
<1> HIDE DEF one, u
<1>4. l \in Line /\ l.num = n + 1 /\ l.text = one /\ n + 1 \in Nat
  BY <1>1 DEF Line
<1>5. LineBytes(one) \in Nat
  BY <1>1, LineBytesNat
<1> HIDE DEF l
<1>6. CASE x \in Garbled
  <2> DEFINE C == B + LineBytes(one)
  <2>1. C \in Nat /\ B <= C
    BY <1>5
  <2> HIDE DEF C
  <2>2. Books(def, t, C)
    BY <1>2, <2>1, KeptMore DEF Kept
  <2>3. Kept(def, u, C) /\ ~Ok(u)
    BY <1>3, <1>6, <2>2, FailKeeps
  <2> QED BY <1>5, <2>3 DEF Between, C, u, one
<1>7. CASE x \notin Garbled
  <2>1. Between(feedPhysical(t, l), l.num, B + LineBytes(l.text))
    BY <1>2, <1>4, PhysicalFed
  <2>2. Between(u, n + 1, B + LineBytes(one))
    BY <1>3, <1>4, <1>7, <2>1
  <2> QED BY <1>5, <2>2 DEF u, one
<1> QED BY <1>6, <1>7

\* The text of a definition with one parser ends.
LEMMA PartEnded ==
  ASSUME def \in Definitions, NEW t, NEW B \in Nat, Kept(def, t, B), Ok(t)
  PROVE  Kept(def, finishPart(t, 1, def.parts[1].parse), B)
<1> DEFINE p == def.parts[1].parse
           u == finishPart(t, 1, p)
<1>1. t \in Streamer(def) /\ Books(def, t, B) /\ FatesOpen(def, t) /\ 1 \in DOMAIN def.parts
  BY PartsAre DEF Kept, Books
<1>2. u \in Streamer(def) /\ Fed(t, u, 1, 0)
  BY <1>1, PartFinished
<1> HIDE DEF u, p
<1>3. Step(t, u, 1, 0) /\ u.lines = t.lines /\ u.fates = t.fates
  BY <1>1, <1>2, FedStep, 0 \in Nat
<1>4. FrontBytes(t) + Load(t, 1) + 0 <= B
  <2>1. FrontBytes(t) \in Nat /\ Load(t, 1) \in Nat
    BY <1>1, LoadNat
  <2>2. FrontBytes(t) + Load(t, 1) <= B
    BY <1>1 DEF Books, Fits
  <2> QED BY <2>1, <2>2
<1>5. Books(def, u, B)
  BY <1>1, <1>2, <1>3, <1>4, StepBooks, 0 \in Nat
<1>6. FatesOpen(def, u)
  <2>1. \A n : Holders(def, u, n) = Holders(def, t, n)
    BY <1>3 DEF Holders
  <2> QED BY <1>1, <1>3, <2>1 DEF FatesOpen
<1> QED BY <1>5, <1>6 DEF Kept, u, p

\* What is held when the text ends is handed on, and the books are kept (finish).
LEMMA Finished ==
  ASSUME def \in Definitions, NEW t, NEW B \in Nat, NEW n \in Nat, Between(t, n, B), Ok(t)
  PROVE  Kept(def, finish(t), B)
<1> DEFINE v == flushCSVRecord(t)
           r == releaseFolding(v)
           j == Joined(v.folding)
           w == IF Ok(v) THEN (IF v.folding = <<>> THEN v ELSE feedFolded(r, j)) ELSE v
           u == finish(t)
<1>1. u = IF Ok(w) THEN (IF def.composite THEN finishComposite(w) ELSE finishPart(w, 1, def.parts[1].parse)) ELSE w
  BY DEF finish, Then
<1>2. Kept(def, t, B) /\ AllOrdered(t, n + 1) /\ n + 1 \in Nat
  BY DEF Between
<1>3. Kept(def, v, B) /\ (Ok(v) => AllOrdered(v, n + 1) /\ v.csvRec = <<>>)
  BY <1>2, CSVRecordFlushed
<1> HIDE DEF v
<1>4. Kept(def, w, B)
  <2>1. CASE ~Ok(v) \/ v.folding = <<>>
    <3>1. w = v
      BY <2>1
    <3> QED BY <1>3, <3>1
  <2>2. CASE Ok(v) /\ v.folding # <<>>
    <3> DEFINE x == LinesBytes(v.folding)
               A == B - x
               m == v.folding[1].num
    <3>1. /\ A \in Nat /\ A <= B /\ Kept(def, r, A) /\ Ok(r) /\ r.csvRec = v.csvRec /\ r.folding = <<>> /\ r.empty = v.empty
          /\ r.fates = v.fates
      BY <1>3, <2>2, FoldLetGo
    <3>2. v.folding \in Lines /\ x \in Nat
      BY <1>3, <2>2, FrontIs
    <3>3. A + x = B
      BY <3>2
    <3> HIDE DEF r, A
    <3>4. j \in Line /\ j.num = m /\ LineBytes(j.text) = x
      BY <2>2, <3>2, JoinedBytes DEF Lines
    <3> HIDE DEF j
    <3>5. FoldOrdered(v, n + 1)
      BY <1>3, <2>2 DEF AllOrdered
    <3>6. Ordered(v, j.num)
      BY <2>2, <3>4, <3>5 DEF FoldOrdered
    <3>7. Ordered(r, j.num)
      BY <3>1, <3>6, SameOrder
    <3>8. Folded(r, feedFolded(r, j), j, A + LineBytes(j.text))
      BY <3>1, <3>4, <3>7, FoldedFed
    <3>9. w = feedFolded(r, j)
      BY <2>2
    <3> QED BY <3>3, <3>4, <3>8, <3>9 DEF Folded
  <2> QED BY <2>1, <2>2
<1> HIDE DEF w, u
<1>5. CASE ~Ok(w)
  BY <1>1, <1>4, <1>5 DEF u
<1>6. CASE Ok(w) /\ def.composite
  <2>1. Closing(w, finishComposite(w), B)
    BY <1>4, EndsKeep
  <2> QED BY <1>1, <1>6, <2>1 DEF Closing, u
<1>7. CASE Ok(w) /\ ~def.composite
  BY <1>1, <1>4, <1>7, PartEnded DEF u
<1> QED BY <1>5, <1>6, <1>7

-----------------------------------------------------------------------------
(* The text as it is written.                                             *)

\* The lines of a text are its letters, numbered.
LEMMA LinesOfIs ==
  ASSUME NEW x \in Seq(Letters)
  PROVE  /\ LinesOf(x) \in Lines /\ Len(LinesOf(x)) = Len(x)
         /\ \A i \in 1..Len(x) : LinesOf(x)[i] = [text |-> <<x[i]>>, num |-> i]
<1>1. Len(x) \in Nat /\ DOMAIN x = 1..Len(x) /\ \A i \in 1..Len(x) : x[i] \in Letters
  OBVIOUS
<1>2. ASSUME NEW i \in 1..Len(x) PROVE [text |-> <<x[i]>>, num |-> i] \in Line
  <2>1. x[i] \in Glyph /\ i \in Nat
    <3>1. x[i] \in Letters
      BY <1>1, Zenon
    <3>2. i \in Nat
      BY <1>1
    <3> QED BY <3>1, <3>2 DEF Glyph
  <2>2. <<x[i]>> \in Text
    BY <2>1, OneIs DEF Text
  <2> QED BY <2>1, <2>2 DEF Line
<1>3. LinesOf(x) = [i \in 1..Len(x) |-> [text |-> <<x[i]>>, num |-> i]]
  BY <1>1 DEF LinesOf
<1>4. LinesOf(x) \in [1..Len(x) -> Line]
  <2>1. \A i \in 1..Len(x) : [text |-> <<x[i]>>, num |-> i] \in Line
    BY <1>2
  <2> QED BY <1>3, <2>1, Zenon
<1>5. LinesOf(x) \in Seq(Line) /\ Len(LinesOf(x)) = Len(x)
  BY <1>1, <1>4, OfLength
<1> QED BY <1>3, <1>5 DEF Lines

\* A text that is longer by a record costs as much more.
LEMMA InputBytes ==
  ASSUME NEW x \in Seq(Letters)
  PROVE  /\ LinesBytes(LinesOf(x)) \in Nat /\ LinesBytes(LinesOf(<<>>)) = 0
         /\ \A e \in Letters : LinesBytes(LinesOf(Append(x, e))) = LinesBytes(LinesOf(x)) + LineBytes(<<e>>)
<1>1. LinesBytes(LinesOf(x)) \in Nat
  BY LinesOfIs, LinesBytesNat DEF Lines
<1>2. LinesBytes(LinesOf(<<>>)) = 0
  <2>1. LinesOf(<<>>) = <<>>
    BY DEF LinesOf
  <2> QED BY <2>1, LinesBytesNone
<1>3. ASSUME NEW e \in Letters PROVE LinesBytes(LinesOf(Append(x, e))) = LinesBytes(LinesOf(x)) + LineBytes(<<e>>)
  <2> DEFINE y == Append(x, e)
             l == [text |-> <<e>>, num |-> Len(x) + 1]
  <2>1. /\ y \in Seq(Letters) /\ Len(y) = Len(x) + 1 /\ Len(x) \in Nat /\ y[Len(x) + 1] = e
        /\ \A i \in 1..Len(x) : y[i] = x[i]
    OBVIOUS
  <2> HIDE DEF y
  <2>2. /\ LinesOf(x) \in Lines /\ Len(LinesOf(x)) = Len(x)
        /\ \A i \in 1..Len(x) : LinesOf(x)[i] = [text |-> <<x[i]>>, num |-> i]
    BY LinesOfIs
  <2>3. /\ LinesOf(y) \in Lines /\ Len(LinesOf(y)) = Len(x) + 1
        /\ \A i \in 1..(Len(x) + 1) : LinesOf(y)[i] = [text |-> <<y[i]>>, num |-> i]
    BY <2>1, LinesOfIs
  <2>4. LinesOf(y)[Len(x) + 1] = l
    BY <2>1, <2>3
  <2>5. l \in Line /\ l.text = <<e>>
    <3>1. Len(x) + 1 \in 1..(Len(x) + 1) /\ LinesOf(y) \in Seq(Line)
      BY <2>1, <2>3 DEF Lines
    <3> QED BY <2>3, <2>4, <3>1
  <2>6. \A i \in 1..Len(x) : LinesOf(y)[i] = LinesOf(x)[i]
    BY <2>1, <2>2, <2>3
  <2> HIDE DEF l
  <2>7. LinesOf(y) = Append(LinesOf(x), l)
    <3> DEFINE a == LinesOf(x)
               b == LinesOf(y)
    <3>1. a \in Seq(Line) /\ b \in Seq(Line) /\ Len(b) = Len(a) + 1 /\ b[Len(a) + 1] = l /\ \A i \in 1..Len(a) : b[i] = a[i]
      BY <2>2, <2>3, <2>4, <2>6 DEF Lines
    <3> HIDE DEF a, b
    <3>2. b = Append(a, l)
      BY <2>5, <3>1
    <3> QED BY <3>2 DEF a, b
  <2> QED BY <2>2, <2>5, <2>7, LinesBytesAppend DEF Lines, y
<1> QED BY <1>1, <1>2, <1>3

\* Zeros add up to zero.
LEMMA ZerosAddUp ==
  ASSUME NEW n \in Nat, NEW z \in [1..n -> Nat], \A k \in 1..n : z[k] = 0
  PROVE  Total(z) = 0
<1>1. z \in Seq(Nat) /\ Len(z) = n
  BY OfLength
<1>2. Total(z) \in Nat
  BY <1>1, TotalNat
<1>3. Total(z) <= n * 0
  BY <1>1, TotalBound
<1> QED BY <1>2, <1>3

\* The books of a streamer that has read nothing are kept.
LEMMA Fresh ==
  ASSUME def \in Definitions, NEW stops \in def.stops
  PROVE  LET t == streamer(def, stops) IN Kept(def, t, 0) /\ Ok(t) /\ AllOrdered(t, 1)
<1> DEFINE t == streamer(def, stops)
           n == Len(def.parts)
           none == <<>>
<1>1. n \in Nat /\ DOMAIN def.parts = 1..n /\ stops \in Nat /\ def.limit \in Nat
  BY PartsAre, DefinitionsAssumption
<1>2. none \in Lines /\ LinesBytes(none) = 0 /\ Len(none) = 0 /\ none \in Seq(Rec) /\ Nums(none) = {}
  BY LinesBytesNone DEF Lines, Nums
<1>3. /\ t.csvRec = none /\ t.folding = none /\ t.empty = none /\ t.text = FALSE
      /\ t.sel = [started |-> FALSE, done |-> FALSE, skipped |-> 0, taken |-> 0]
      /\ t.held = 0 /\ t.sent = 0 /\ t.err = "none" /\ t.stops = stops
      /\ DOMAIN t.fates = {}
  BY DEF streamer
<1>4. \A k \in DOMAIN def.parts : /\ t.subs[k] = [header |-> none, first |-> none, body |-> FALSE, group |-> none]
                                  /\ t.lines[k] = none /\ t.out[k] = none
  BY DEF streamer
<1>5. t \in Streamer(def)
  <2>1. [header |-> none, first |-> none, body |-> FALSE, group |-> none] \in Sub
    BY <1>2 DEF Sub
  <2>2. [started |-> FALSE, done |-> FALSE, skipped |-> 0, taken |-> 0] \in Region
    BY DEF Region
  <2>3. t.subs \in [DOMAIN def.parts -> Sub] /\ t.lines \in [DOMAIN def.parts -> Lines] /\ t.out \in [DOMAIN def.parts -> Seq(Rec)]
        /\ t.read \in [DOMAIN def.parts -> BOOLEAN] /\ t.regions \in [DOMAIN def.parts -> Region]
    BY <1>2, <2>1, <2>2 DEF streamer
  <2>4. t.fates \in Fates
    <3>1. t.fates \in [{} -> [pending : Int, read : BOOLEAN]]
      BY DEF streamer
    <3> QED BY <3>1 DEF Fates
  <2>5. /\ t = [csvRec |-> t.csvRec, folding |-> t.folding, empty |-> t.empty, text |-> t.text, sel |-> t.sel, subs |-> t.subs,
                regions |-> t.regions, lines |-> t.lines, read |-> t.read, fates |-> t.fates, held |-> t.held, out |-> t.out,
                sent |-> t.sent, stops |-> t.stops, err |-> t.err]
    BY DEF streamer
  <2> HIDE DEF t, none
  <2>6. /\ t.csvRec \in Lines /\ t.folding \in Lines /\ t.empty \in Lines /\ t.text \in BOOLEAN /\ t.sel \in Region
        /\ t.held \in Int /\ t.sent \in Nat /\ t.stops \in Nat /\ t.err \in {"none", "large", "refused", "unread", "emit"}
    <3>1. stops \in Nat
      BY <1>1
    <3>2. t.csvRec \in Lines /\ t.folding \in Lines /\ t.empty \in Lines /\ t.sel \in Region
      BY <1>2, <1>3, <2>2, Zenon
    <3>3. t.text \in BOOLEAN /\ t.err \in {"none", "large", "refused", "unread", "emit"}
      BY <1>3
    <3>4. t.held \in Int /\ t.sent \in Nat /\ t.stops \in Nat
      BY <1>3, <3>1
    <3> QED BY <3>2, <3>3, <3>4
  <2> QED BY <2>3, <2>4, <2>5, <2>6 DEF Streamer
<1> HIDE DEF t, none
<1>6. FrontBytes(t) = 0 /\ \A k \in 1..n : Load(t, k) = 0 /\ Len(t.out[k]) = 0
  BY <1>1, <1>2, <1>3, <1>4 DEF FrontBytes, Load
<1>7. Total(Loads(def, t)) = 0 /\ Total(Sents(def, t)) = 0
  <2>1. /\ Loads(def, t) \in [1..n -> Nat] /\ \A k \in 1..n : Loads(def, t)[k] = 0
        /\ Sents(def, t) \in [1..n -> Nat] /\ \A k \in 1..n : Sents(def, t)[k] = 0
    BY <1>1, <1>6 DEF Loads, Sents
  <2> QED BY <1>1, <2>1, ZerosAddUp
<1>8. Books(def, t, 0)
  BY <1>1, <1>3, <1>5, <1>6, <1>7 DEF Books, Charged, Fits
<1>9. FatesOpen(def, t)
  BY <1>2, <1>3, <1>4 DEF FatesOpen
<1>10. AllOrdered(t, 1)
  <2>1. \A m : Ordered(t, m)
    BY <1>2, <1>3 DEF Ordered
  <2> QED BY <1>3, <2>1 DEF AllOrdered, FoldOrdered, none
<1> QED BY <1>3, <1>8, <1>9, <1>10 DEF Kept, Ok, t

\* Between two records the books balance, for as many bytes as were written.
Balanced ==
  /\ def \in Definitions /\ input \in Seq(Letters)
  /\ Kept(def, s, LinesBytes(LinesOf(input)))
  /\ stage = "reading" => Ok(s) /\ AllOrdered(s, Len(input) + 1)

\* The books balance before anything is read (Stream).
LEMMA BalancedInit == Init => Balanced
<1> SUFFICES ASSUME Init PROVE Balanced
  OBVIOUS
<1>1. PICK stops \in def.stops : s = streamer(def, stops)
  BY DEF Init
<1>2. def \in Definitions /\ input = <<>> /\ input \in Seq(Letters) /\ Len(input) + 1 = 1
  BY DEF Init
<1>3. Kept(def, s, 0) /\ Ok(s) /\ AllOrdered(s, 1)
  BY <1>1, <1>2, Fresh
<1>4. LinesBytes(LinesOf(input)) = 0
  BY <1>2, InputBytes
<1> QED BY <1>2, <1>3, <1>4 DEF Balanced

\* Every step keeps them: a record, the end, a read that failed, and what is written
\* after either.
LEMMA BalancedStep == Balanced /\ [Next]_vars => Balanced'
<1> SUFFICES ASSUME Balanced, [Next]_vars PROVE Balanced'
  OBVIOUS
<1> DEFINE n == Len(input)
           B == LinesBytes(LinesOf(input))
<1>1. def \in Definitions /\ input \in Seq(Letters) /\ n \in Nat /\ B \in Nat /\ Kept(def, s, B)
  BY InputBytes DEF Balanced
<1>2. ASSUME NEW x \in def.letters, Reads(x) PROVE Balanced'
  <2>1. x \in Letters
    BY <1>1, DefinitionsAssumption
  <2>2. Ok(s) /\ Between(s, n, B)
    BY <1>1, <1>2 DEF Balanced, Reads, Between
  <2>3. LineBytes(<<x>>) \in Nat /\ Between(feedRecordText(s, x, n + 1), n + 1, B + LineBytes(<<x>>))
    BY <1>1, <2>1, <2>2, RecordTextFed
  <2>4. /\ input' = Append(input, x) /\ s' = feedRecordText(s, x, n + 1) /\ def' = def
        /\ stage' = "reading" => Ok(s')
    BY <1>2 DEF Reads
  <2>5. input' \in Seq(Letters) /\ Len(input') = n + 1 /\ LinesBytes(LinesOf(input')) = B + LineBytes(<<x>>)
    <3>1. LinesBytes(LinesOf(Append(input, x))) = B + LineBytes(<<x>>)
      BY <1>1, <2>1, InputBytes
    <3> QED BY <1>1, <2>1, <2>4, <3>1
  <2> HIDE DEF n, B
  <2>6. Between(s', n + 1, B + LineBytes(<<x>>))
    BY <2>3, <2>4
  <2>7. Kept(def, s', LinesBytes(LinesOf(input'))) /\ (Ok(s') => AllOrdered(s', Len(input') + 1))
    BY <2>5, <2>6 DEF Between
  <2>8. Kept(def', s', LinesBytes(LinesOf(input')))
    BY <2>4, <2>7
  <2>9. stage' = "reading" => Ok(s)' /\ AllOrdered(s, Len(input) + 1)'
    BY <2>4, <2>7 DEF AllOrdered, FoldOrdered, Ok
  <2> QED BY <1>1, <2>4, <2>5, <2>8, <2>9 DEF Balanced
<1>3. ASSUME NEW x \in def.letters, WrittenOn(x) PROVE Balanced'
  <2>1. x \in Letters
    BY <1>1, DefinitionsAssumption
  <2>2. input' = Append(input, x) /\ s' = s /\ def' = def /\ stage' # "reading"
    BY <1>3 DEF WrittenOn
  <2>3. LinesBytes(LinesOf(Append(input, x))) = B + LineBytes(<<x>>) /\ LineBytes(<<x>>) \in Nat
    <3>1. LinesBytes(LinesOf(Append(input, x))) = B + LineBytes(<<x>>)
      BY <1>1, <2>1, InputBytes
    <3>2. <<x>> \in Text
      BY <2>1, OneIs DEF Text, Glyph
    <3> QED BY <3>1, <3>2, LineBytesNat
  <2> DEFINE C == B + LineBytes(<<x>>)
  <2>4. C \in Nat /\ B <= C
    BY <1>1, <2>3
  <2>5. LinesBytes(LinesOf(input')) = C /\ input' \in Seq(Letters)
    BY <1>1, <2>1, <2>2, <2>3
  <2> HIDE DEF B, C
  <2>6. Kept(def, s, C)
    BY <1>1, <2>4, KeptMore DEF Kept
  <2>7. Kept(def', s', LinesBytes(LinesOf(input')))
    BY <2>2, <2>5, <2>6
  <2> QED BY <1>1, <2>2, <2>5, <2>7 DEF Balanced
<1>4. CASE Ends
  <2>1. s' = finish(s) /\ def' = def /\ input' = input /\ stage' # "reading"
    BY <1>4 DEF Ends
  <2>2. Ok(s) /\ Between(s, n, B)
    BY <1>1, <1>4 DEF Balanced, Ends, Between
  <2>3. Kept(def, finish(s), B)
    BY <1>1, <2>2, Finished
  <2>4. Kept(def', s', LinesBytes(LinesOf(input')))
    BY <2>1, <2>3
  <2> QED BY <1>1, <2>1, <2>4 DEF Balanced
<1>5. CASE ReadFails
  <2>1. s' = s /\ def' = def /\ input' = input /\ stage' # "reading"
    BY <1>5 DEF ReadFails
  <2>2. Kept(def', s', LinesBytes(LinesOf(input')))
    BY <1>1, <2>1
  <2> QED BY <1>1, <2>1, <2>2 DEF Balanced
<1>6. CASE UNCHANGED vars
  <2>1. s' = s /\ def' = def /\ input' = input /\ stage' = stage
    BY <1>6 DEF vars
  <2>2. Kept(def', s', LinesBytes(LinesOf(input')))
    BY <1>1, <2>1
  <2>3. stage' = "reading" => Ok(s)' /\ AllOrdered(s, Len(input) + 1)'
    BY <2>1 DEF AllOrdered, FoldOrdered, Ok, Balanced
  <2> QED BY <1>1, <2>1, <2>2, <2>3 DEF Balanced
<1> QED BY <1>2, <1>3, <1>4, <1>5, <1>6 DEF Next, Returned

\* The books of every stream balance at every moment, for as many bytes as were
\* written: what is charged, what each part holds, what was sent, and the order of all
\* that waits.
THEOREM BalancedAlways == Spec => []Balanced
<1> QED BY BalancedInit, BalancedStep, PTL DEF Spec

\* Books that balance charge for what is held, within the limit, and are too much only
\* for several parts (hold).
LEMMA BalancedCharges == Balanced => HoldIsCharged
<1> SUFFICES ASSUME Balanced PROVE HoldIsCharged
  OBVIOUS
<1>1. def \in Definitions /\ Books(def, s, LinesBytes(LinesOf(input)))
  BY DEF Balanced, Kept
<1>2. Loads(def, s) = [k \in Parts |-> LinesBytes(s.subs[k].group) + LinesBytes(s.lines[k])]
  BY DEF Loads, Load, Parts
<1>3. ASSUME Ok(s)
      PROVE  /\ s.held = LinesBytes(s.csvRec) + LinesBytes(s.folding) + LinesBytes(s.empty)
                           + Total([k \in Parts |-> LinesBytes(s.subs[k].group) + LinesBytes(s.lines[k])])
             /\ s.held <= def.limit
  BY <1>1, <1>2, <1>3 DEF Books, Charged, FrontBytes
<1>4. s.err = "large" => Cardinality(Parts) * LinesBytes(LinesOf(input)) > def.limit
  BY <1>1 DEF Books, Overrun, Parts
<1> QED BY <1>3, <1>4 DEF HoldIsCharged

\* Books that balance have open the fates of the lines held (fate).
LEMMA BalancedFates == Balanced => FatesAreOpen
<1> SUFFICES ASSUME Balanced PROVE FatesAreOpen
  OBVIOUS
<1>1. s.sent = Total(Sents(def, s)) /\ (Ok(s) => FatesOpen(def, s))
  BY DEF Balanced, Kept, Books
<1> QED BY <1>1 DEF FatesAreOpen, Sents, FatesOpen, Holders, Parts

-----------------------------------------------------------------------------
(* The account of a text that is read.                                    *)

\* What has its length from a set of positions.
LEMMA LengthIs ==
  ASSUME NEW n \in Nat, NEW f, f = [i \in 1..n |-> f[i]]
  PROVE  Len(f) = n /\ DOMAIN f = 1..n
<1>1. f \in [1..n -> {f[i] : i \in 1..n}]
  OBVIOUS
<1> QED BY <1>1, OfLength

\* As many elements are picked as there are positions.
LEMMA PickIs ==
  ASSUME NEW x, NEW I, IsFiniteSet(I)
  PROVE  /\ Cardinality(I) \in Nat
         /\ Len(Pick(x, I)) = Cardinality(I) /\ DOMAIN Pick(x, I) = 1..Cardinality(I)
<1>1. Cardinality(I) \in Nat
  BY FS_CardinalityType
<1>2. Pick(x, I) = [k \in 1..Cardinality(I) |-> Pick(x, I)[k]]
  BY DEF Pick
<1> QED BY <1>1, <1>2, LengthIs

\* There are as many pieces as there are cuts.
LEMMA CutIs ==
  ASSUME NEW x, NEW B, IsFiniteSet(B)
  PROVE  Cardinality(B) \in Nat /\ DOMAIN CutAt(x, B) = 1..Cardinality(B)
<1>1. Cardinality(B) \in Nat
  BY FS_CardinalityType
<1> QED BY <1>1 DEF CutAt

\* The records of a csv are as many as the quotes leave.
LEMMA CutRecords ==
  ASSUME NEW p, NEW ls, IsFiniteSet(DOMAIN ls)
  PROVE  IsFiniteSet(DOMAIN csvRecords(p, ls))
<1> DEFINE B == {i \in DOMAIN ls : i = 1 \/ ~InQuotes(p, ls, i - 1)}
<1>1. IsFiniteSet(B)
  BY FS_Subset
<1>2. DOMAIN csvRecords(p, ls) = DOMAIN CutAt(ls, B)
  BY DEF csvRecords
<1> HIDE DEF B
<1>3. Cardinality(B) \in Nat /\ DOMAIN CutAt(ls, B) = 1..Cardinality(B)
  BY <1>1, CutIs
<1> QED BY <1>2, <1>3, FS_Interval

\* Folded lines are a sequence.
LEMMA FoldIs ==
  ASSUME NEW d, NEW ls, IsFiniteSet(DOMAIN ls)
  PROVE  Len(foldLines(d, ls)) \in Nat /\ DOMAIN foldLines(d, ls) = 1..Len(foldLines(d, ls))
<1> DEFINE B == {i \in DOMAIN ls : ~Continues(d, ls[i])}
           f == foldLines(d, ls)
           n == Cardinality(B)
<1>1. IsFiniteSet(B)
  BY FS_Subset
<1>2. f = [k \in DOMAIN CutAt(ls, B) |-> f[k]]
  BY DEF foldLines
<1> HIDE DEF B, f
<1>3. n \in Nat /\ DOMAIN CutAt(ls, B) = 1..n
  BY <1>1, CutIs
<1>4. Len(f) = n /\ DOMAIN f = 1..n
  BY <1>2, <1>3, LengthIs
<1> QED BY <1>3, <1>4 DEF f

\* Two sets that have nothing in common.
LEMMA Apart ==
  ASSUME NEW S, IsFiniteSet(S), NEW T, IsFiniteSet(T), S \cap T = {}
  PROVE  /\ IsFiniteSet(S \union T) /\ Cardinality(S \union T) = Cardinality(S) + Cardinality(T)
         /\ Cardinality(S) \in Nat /\ Cardinality(T) \in Nat
<1>1. Cardinality(S \union T) = Cardinality(S) + Cardinality(T) - Cardinality(S \cap T) /\ IsFiniteSet(S \union T)
  BY FS_Union
<1>2. Cardinality(S) \in Nat /\ Cardinality(T) \in Nat /\ Cardinality(S \cap T) = 0
  BY FS_CardinalityType, FS_EmptySet
<1> QED BY <1>1, <1>2

\* Each folded line is outside the text, blank and skipped, ignored, or prepared
\* (prepare).
LEMMA FoldedSplits ==
  ASSUME NEW d, NEW ls, NEW n \in Nat, DOMAIN ls = 1..n
  PROVE  LET M == Middle(d, ls)
             K == {i \in M : ~(d.skipBlank /\ Blank(ls[i])) /\ ~Opens(ls[i], d.ignore)}
             I == {i \in M : ~(d.skipBlank /\ Blank(ls[i])) /\ Opens(ls[i], d.ignore)}
             Z == {i \in M : d.skipBlank /\ Blank(ls[i])}
             O == DOMAIN ls \ M
         IN /\ IsFiniteSet(K) /\ Cardinality(K) \in Nat /\ Cardinality(I) \in Nat /\ Cardinality(Z) \in Nat /\ Cardinality(O) \in Nat
            /\ Cardinality(K) + Cardinality(I) + Cardinality(Z) + Cardinality(O) = n
<1> DEFINE M == Middle(d, ls)
           K == {i \in M : ~(d.skipBlank /\ Blank(ls[i])) /\ ~Opens(ls[i], d.ignore)}
           I == {i \in M : ~(d.skipBlank /\ Blank(ls[i])) /\ Opens(ls[i], d.ignore)}
           Z == {i \in M : d.skipBlank /\ Blank(ls[i])}
           O == DOMAIN ls \ M
<1>1. M \subseteq DOMAIN ls /\ IsFiniteSet(DOMAIN ls) /\ Cardinality(DOMAIN ls) = n
  <2>1. IsFiniteSet(1..n) /\ Cardinality(1..n) = n
    BY FS_Interval
  <2>2. M \subseteq DOMAIN ls
    BY DEF Middle
  <2> QED BY <2>1, <2>2
<1>2. IsFiniteSet(K) /\ IsFiniteSet(I) /\ IsFiniteSet(Z) /\ IsFiniteSet(O)
  <2>1. K \in SUBSET (DOMAIN ls) /\ I \in SUBSET (DOMAIN ls) /\ Z \in SUBSET (DOMAIN ls) /\ O \in SUBSET (DOMAIN ls)
    BY <1>1
  <2> QED BY <1>1, <2>1, FS_Subset
<1>3. K \cap I = {} /\ (K \union I) \cap Z = {} /\ (K \union I \union Z) \cap O = {} /\ DOMAIN ls = K \union I \union Z \union O
  BY <1>1
<1> HIDE DEF K, I, Z, O
<1>4. /\ IsFiniteSet(K \union I) /\ Cardinality(K \union I) = Cardinality(K) + Cardinality(I)
      /\ Cardinality(K) \in Nat /\ Cardinality(I) \in Nat
  BY <1>2, <1>3, Apart
<1>5. /\ IsFiniteSet((K \union I) \union Z) /\ Cardinality((K \union I) \union Z) = Cardinality(K \union I) + Cardinality(Z)
      /\ Cardinality(Z) \in Nat
  BY <1>2, <1>3, <1>4, Apart
<1>6. /\ Cardinality((K \union I \union Z) \union O) = Cardinality((K \union I) \union Z) + Cardinality(O)
      /\ Cardinality(O) \in Nat
  BY <1>2, <1>3, <1>5, Apart
<1>7. Cardinality(K) + Cardinality(I) + Cardinality(Z) + Cardinality(O) = n
  BY <1>1, <1>3, <1>4, <1>5, <1>6
<1> QED BY <1>2, <1>4, <1>5, <1>6, <1>7 DEF K, I, Z, O

ReadIn(ls, read) == {i \in DOMAIN ls : ls[i].num \in read}

BlankIn(ls, read) == {i \in DOMAIN ls : ls[i].num \notin read /\ Blank(ls[i])}

\* Each prepared line is read, or blank (ledger.unread).
LEMMA PreparedSplits ==
  ASSUME NEW ls, NEW n \in Nat, DOMAIN ls = 1..n, NEW read, \A i \in DOMAIN ls : ls[i].num \in read \/ Blank(ls[i])
  PROVE  /\ Cardinality(ReadIn(ls, read)) \in Nat /\ Cardinality(BlankIn(ls, read)) \in Nat
         /\ Cardinality(ReadIn(ls, read)) + Cardinality(BlankIn(ls, read)) = n
<1> DEFINE R == ReadIn(ls, read)
           U == BlankIn(ls, read)
<1>1. IsFiniteSet(DOMAIN ls) /\ Cardinality(DOMAIN ls) = n
  BY FS_Interval
<1>2. IsFiniteSet(R) /\ IsFiniteSet(U)
  <2>1. R \in SUBSET (DOMAIN ls) /\ U \in SUBSET (DOMAIN ls)
    BY DEF ReadIn, BlankIn
  <2> QED BY <1>1, <2>1, FS_Subset
<1>3. R \cap U = {} /\ DOMAIN ls = R \union U
  BY DEF ReadIn, BlankIn
<1> HIDE DEF R, U
<1>4. Cardinality(R \union U) = Cardinality(R) + Cardinality(U) /\ Cardinality(R) \in Nat /\ Cardinality(U) \in Nat
  BY <1>2, <1>3, Apart
<1>5. Cardinality(R) + Cardinality(U) = n
  BY <1>1, <1>3, <1>4
<1> QED BY <1>4, <1>5 DEF R, U

\* The account of lines has each of them once (ledger.count).
LEMMA AccountIs ==
  ASSUME NEW d, NEW lines, Len(lines) \in Nat, NEW folded, NEW n \in Nat, Len(folded) = n, DOMAIN folded = 1..n, NEW read,
         \A i \in DOMAIN prepare(d, folded) : prepare(d, folded)[i].num \in read \/ Blank(prepare(d, folded)[i])
  PROVE  LET a == Accounted(d, lines, folded, prepare(d, folded), read)
         IN a.read + a.ignored + a.blank + a.folded = Len(lines)
<1> DEFINE M == Middle(d, folded)
           K == {i \in M : ~(d.skipBlank /\ Blank(folded[i])) /\ ~Opens(folded[i], d.ignore)}
           I == {i \in M : ~(d.skipBlank /\ Blank(folded[i])) /\ Opens(folded[i], d.ignore)}
           Z == {i \in M : d.skipBlank /\ Blank(folded[i])}
           O == DOMAIN folded \ M
           q == prepare(d, folded)
           R == ReadIn(q, read)
           U == BlankIn(q, read)
           a == Accounted(d, lines, folded, q, read)
<1>1. /\ IsFiniteSet(K) /\ Cardinality(K) \in Nat /\ Cardinality(I) \in Nat /\ Cardinality(Z) \in Nat /\ Cardinality(O) \in Nat
      /\ Cardinality(K) + Cardinality(I) + Cardinality(Z) + Cardinality(O) = n
  BY FoldedSplits
<1>2. q = Pick(folded, K)
  BY DEF prepare
<1>3. a.folded = Len(lines) - n /\ a.ignored = Cardinality(I) /\ a.read = Cardinality(R)
      /\ a.blank = Cardinality(O) + Cardinality(Z) + Cardinality(U)
  BY DEF Accounted, ReadIn, BlankIn
<1> HIDE DEF K, I, Z, O, q, a
<1>4. DOMAIN q = 1..Cardinality(K)
  BY <1>1, <1>2, PickIs
<1>5. \A i \in DOMAIN q : q[i].num \in read \/ Blank(q[i])
  BY DEF q
<1>6. Cardinality(R) \in Nat /\ Cardinality(U) \in Nat /\ Cardinality(R) + Cardinality(U) = Cardinality(K)
  <2> DEFINE c == Cardinality(K)
  <2>1. c \in Nat /\ DOMAIN q = 1..c
    BY <1>1, <1>4
  <2> HIDE DEF c
  <2>2. Cardinality(R) \in Nat /\ Cardinality(U) \in Nat /\ Cardinality(R) + Cardinality(U) = c
    BY <1>5, <2>1, PreparedSplits
  <2> QED BY <2>2 DEF c
<1> HIDE DEF R, U
<1>7. a.read + a.ignored + a.blank + a.folded = Len(lines)
  <2> DEFINE k == Cardinality(K)
             i == Cardinality(I)
             z == Cardinality(Z)
             o == Cardinality(O)
             r == Cardinality(R)
             u == Cardinality(U)
             all == Len(lines)
  <2>1. k \in Nat /\ i \in Nat /\ z \in Nat /\ o \in Nat /\ r \in Nat /\ u \in Nat /\ all \in Nat /\ k + i + z + o = n /\ r + u = k
    BY <1>1, <1>6
  <2> HIDE DEF k, i, z, o, r, u, all
  <2>2. r + i + (o + z + u) + (all - n) = all
    BY <2>1
  <2>3. Cardinality(R) + Cardinality(I) + (Cardinality(O) + Cardinality(Z) + Cardinality(U)) + (Len(lines) - n) = Len(lines)
    BY <2>2, Zenon DEF i, o, z, u, r, all
  <2> QED BY <1>3, <2>3, Zenon
<1> QED BY <1>7 DEF a, q

\* The account of a text that is read has each of its lines once (ParseAccounted).
LEMMA WholeAddsUp ==
  ASSUME NEW x \in Seq(Letters), NEW d
  PROVE  LET w == ParseAccounted(d, x)
         IN w.ok => w.account.read + w.account.ignored + w.account.blank + w.account.folded = Len(x)
<1> DEFINE cut == IF d.csv THEN csvRecords(d.parts[1].parse, LinesOf(x)) ELSE LinesOf(x)
           folded == foldLines(d, cut)
           q == prepare(d, folded)
           sel == applySelect(d.sel, q)
           r == parse(d, sel.region)
           w == AccountedFor(d, x, cut, q, sel, r)
           read == r.read \union Stated(sel.heading, d.sel.heading) \union Stated(sel.end, d.sel.end)
<1>1. ParseAccounted(d, x) = w
  BY DEF ParseAccounted, ReadRecords, ReadPrepared, ReadRegion
<1>2. IsFiniteSet(DOMAIN cut)
  <2>1. DOMAIN LinesOf(x) = 1..Len(x) /\ Len(x) \in Nat
    BY DEF LinesOf
  <2>2. IsFiniteSet(DOMAIN LinesOf(x))
    BY <2>1, FS_Interval
  <2> QED BY <2>2, CutRecords
<1> HIDE DEF cut
<1>3. Len(folded) \in Nat /\ DOMAIN folded = 1..Len(folded)
  BY <1>2, FoldIs
<1> HIDE DEF folded, sel, r
<1>4. /\ w.ok => \A i \in DOMAIN q : q[i].num \in read \/ Blank(q[i])
      /\ w.account = Accounted(d, x, folded, q, read)
  BY DEF AccountedFor, folded
<1>5. Len(x) \in Nat
  OBVIOUS
<1> HIDE DEF w, read
<1>6. w.ok => w.account.read + w.account.ignored + w.account.blank + w.account.folded = Len(x)
  BY <1>3, <1>4, <1>5, AccountIs
<1> QED BY <1>1, <1>6

\* Whatever is written, if it is read as a whole, its account has each line once.
THEOREM AccountAlways == Spec => []AccountAddsUp
<1>1. Balanced => AccountAddsUp
  <2> SUFFICES ASSUME Balanced PROVE AccountAddsUp
    OBVIOUS
  <2>1. input \in Seq(Letters)
    BY DEF Balanced
  <2> QED BY <2>1, WholeAddsUp DEF AccountAddsUp, Whole
<1> QED BY <1>1, BalancedAlways, PTL

\* Whatever is written and whenever one looks, the bytes charged are the bytes held and
\* within the bound, no text is too large but for lines that several parts hold, the
\* records counted are those sent, the open fates are those of lines held, and the
\* account of the whole has each line once.
THEOREM BooksAlwaysBalance == Spec => []BooksBalance
<1>1. Balanced => HoldIsCharged /\ FatesAreOpen
  BY BalancedCharges, BalancedFates
<1>2. HoldIsCharged /\ FatesAreOpen /\ AccountAddsUp => BooksBalance
  BY DEF BooksBalance
<1> QED BY <1>1, <1>2, BalancedAlways, AccountAlways, PTL
=============================================================================
