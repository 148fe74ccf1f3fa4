--------------------------- MODULE RegistryProofs ---------------------------
(***************************************************************************)
(* What a load of the layered registry comes to is what the layering says, *)
(* for any registries, any number of layers and of workers.                *)
(*                                                                         *)
(* The walk lists each file once and the workers between them decode all   *)
(* of the list (Decoding).  The index is then described not by the steps   *)
(* that built it but by the definitions that stand in each source as far   *)
(* as it was read (Indexed): AddsNew and AddsHidden carry the description  *)
(* over a definition that is added.  IInv adds what the rules, the counts  *)
(* and the problems come to, and at the end all of it is Layered.          *)
(***************************************************************************)
EXTENDS Registry, FiniteSetTheorems, SequenceTheorems, TLAPS

-----------------------------------------------------------------------------
(* Finding and decoding the files of a source.                             *)

\* The walk has found each file this load sees, once.
Listing ==
  stage \in {"decode", "take"} =>
    /\ src \in 1..Layers /\ sources[src].is = "there"
    /\ list \in [1..Len(list) -> Seen(src)] /\ Len(list) \in Nat
    /\ \A m, n \in 1..Len(list) : list[m] = list[n] => m = n
    /\ \A f \in Seen(src) : \E n \in 1..Len(list) : list[n] = f

TypeOK ==
  /\ sources \in [1..Layers -> Registries] /\ asked \in NamesAsked
  /\ load \in {"scoped", "full"}
  /\ stage \in {"open", "decode", "take", "done", "failed"}
  /\ src \in 1..(Layers + 1) /\ pos \in Nat /\ next \in Nat
  /\ work \in [Workers -> Nat]

\* What was claimed was decoded, or a worker is at it.
Claimed ==
  /\ stage = "decode" =>
       /\ next <= Len(list) /\ pos = 0
       /\ \A n \in Nat : n \in 1..next <=> n \in decoded \/ (n # 0 /\ \E w \in Workers : work[w] = n)
       /\ decoded \subseteq Nat
  /\ stage = "take" => decoded = 1..Len(list) /\ pos <= Len(list)

\* There is a source at least, the built-in one.
LEMMA LayersNat == Layers \in Nat /\ Layers >= 1
<1>1. Layers \in Nat \ {0}
  BY SourceAssumption, Zenon DEF SourceAssumption
<1> QED
  BY <1>1

\* The files a load sees are finite in number and each at a place of its own.
LEMMA SeenFinite ==
  ASSUME TypeOK, NEW i \in 1..Layers
  PROVE  /\ IsFiniteSet(Seen(i)) /\ Seen(i) \subseteq sources[i].files
         /\ \A f, g \in Seen(i) : f.at = g.at => f = g
<1>1. sources[i] \in Registries
  BY DEF TypeOK
<1>2. /\ IsFiniteSet(sources[i].files)
      /\ \A f, g \in sources[i].files : f.at = g.at => f = g
  BY <1>1, SourceAssumption DEF SourceAssumption
<1>3. Seen(i) \subseteq sources[i].files
  <2>1. CASE load = "scoped" /\ i = Layers
    BY <2>1 DEF Seen, Last
  <2>2. CASE ~(load = "scoped" /\ i = Layers)
    BY <2>2 DEF Seen
  <2> QED
    BY <2>1, <2>2
<1> QED
  BY <1>2, <1>3, FS_Subset

\* What a load sees does not change while it runs.
LEMMA SeenSame ==
  ASSUME UNCHANGED <<sources, asked, load>>, NEW i
  PROVE  Seen(i)' = Seen(i)
BY DEF Seen, Last, Answering

\* Each walk finds every file, once.
LEMMA WalkLists ==
  ASSUME TypeOK, src \in 1..Layers, Walk(Seen(src))
  PROVE  /\ list' \in [1..Len(list') -> Seen(src)] /\ Len(list') \in Nat
         /\ \A m, n \in 1..Len(list') : list'[m] = list'[n] => m = n
         /\ \A f \in Seen(src) : \E n \in 1..Len(list') : list'[n] = f
<1> DEFINE F == Seen(src)  c == Cardinality(F)
<1>1. IsFiniteSet(F) /\ c \in Nat
  BY SeenFinite, FS_CardinalityType
<1>2. PICK order \in [1..c -> F] :
        /\ \A i, j \in 1..c : order[i] = order[j] => i = j
        /\ list' = order
  BY DEF Walk
<1>3. Len(order) = c
  <2>1. order \in Seq(F)
    BY <1>1, SeqDef
  <2> QED
    BY <1>1, <2>1, LenProperties
<1>4. order \in Injection(1..c, F)
  BY <1>2 DEF Injection, IsInjective
<1>5. IsFiniteSet(1..c) /\ Cardinality(1..c) = c
  BY <1>1, FS_Interval
<1>6. order \in Surjection(1..c, F)
  <2> HIDE DEF F, c
  <2> QED
    BY <1>1, <1>4, <1>5, FS_Injection DEF c
<1>7. \A f \in F : \E n \in 1..c : order[n] = f
  BY <1>6 DEF Surjection
<1> QED
  BY <1>1, <1>2, <1>3, <1>7

Decoding == TypeOK /\ Listing /\ Claimed

\* Nothing is listed when a load begins.
LEMMA InitDecoding == Init => Decoding
<1> SUFFICES ASSUME Init PROVE Decoding
  OBVIOUS
<1>1. load \in {"scoped", "full"}
  BY DEF Init
<1>2. /\ sources \in [1..Layers -> Registries] /\ asked \in NamesAsked /\ stage = "open"
      /\ src = 1 /\ pos = 0 /\ next = 0 /\ work \in [Workers -> Nat]
  BY DEF Init, AtRest
<1> QED
  BY <1>1, <1>2, LayersNat DEF Decoding, TypeOK, Listing, Claimed

\* The steps of a load, with those that end one told from those that begin
\* it again.
LEMMA Steps ==
  ASSUME [Next]_vars
  PROVE  \/ OpenSource \/ SkipSource \/ RefuseSource
         \/ (\E w \in Workers : Claims(w)) \/ (\E w \in Workers : Decodes(w))
         \/ AllDecode \/ Take \/ CloseSource
         \/ (Loaded /\ Reload)
         \/ (Loaded /\ stage' = "done" /\ UNCHANGED <<load, src, loaderVars, indexVars>>)
         \/ UNCHANGED vars
  BY DEF Next, Returned, Loaded

\* Every step keeps the list and the claims on it; only the workers' own
\* steps change what is claimed.
LEMMA DecodingStep ==
  ASSUME Decoding, [Next]_vars
  PROVE  Decoding'
<1>0. TypeOK /\ Listing /\ Claimed
  BY DEF Decoding
<1>s. sources' = sources /\ asked' = asked
  BY DEF Next, OpenSource, SkipSource, RefuseSource, Claims, Decodes, AllDecode, Take, CloseSource,
         Loaded, Reload, Returned, vars
<1>1. CASE OpenSource
  <2>1. src \in 1..Layers /\ stage' = "decode" /\ UNCHANGED <<sources, asked, load, src>>
    BY <1>1, <1>0, LayersNat DEF OpenSource, TypeOK
  <2>2. Listing'
    BY <1>1, <1>0, <2>1, WalkLists, SeenSame DEF OpenSource, Listing
  <2>3. TypeOK'
    BY <1>1, <1>0 DEF OpenSource, TypeOK, AtRest
  <2>4. Claimed'
    BY <1>1, <2>1, <2>2 DEF OpenSource, AtRest, Claimed, Listing
  <2> QED
    BY <2>2, <2>3, <2>4 DEF Decoding
<1>2. CASE SkipSource
  BY <1>2, <1>0, LayersNat DEF SkipSource, Decoding, TypeOK, Listing, Claimed, loaderVars
<1>3. CASE RefuseSource
  BY <1>3, <1>0 DEF RefuseSource, Decoding, TypeOK, Listing, Claimed, loaderVars
<1>4. ASSUME NEW w \in Workers, Claims(w) PROVE Decoding'
  <2>1. /\ stage = "decode" /\ stage' = "decode"
        /\ UNCHANGED <<sources, asked, load, src, list, decoded, pos>>
    BY <1>4 DEF Claims
  <2>2. Listing'
    BY <1>0, <2>1, SeenSame DEF Listing
  <2>3. TypeOK'
    BY <1>4, <1>0 DEF Claims, TypeOK
  <2>4. Claimed'
    <3>1. /\ next' = next + 1 /\ next < Len(list) /\ work[w] = 0 /\ work'[w] = next + 1
          /\ \A v \in Workers : v # w => work'[v] = work[v]
      BY <1>4, <1>0 DEF Claims, TypeOK
    <3>2. Len(list) \in Nat /\ next \in Nat
      BY <1>0, <2>1 DEF TypeOK, Listing
    <3> QED
      BY <1>0, <2>1, <3>1, <3>2 DEF Claimed
  <2> QED
    BY <2>2, <2>3, <2>4 DEF Decoding
<1>5. ASSUME NEW w \in Workers, Decodes(w) PROVE Decoding'
  <2>1. /\ stage = "decode" /\ stage' = "decode"
        /\ UNCHANGED <<sources, asked, load, src, list, next, pos>>
    BY <1>5 DEF Decodes
  <2>2. Listing'
    BY <1>0, <2>1, SeenSame DEF Listing
  <2>3. TypeOK'
    BY <1>5, <1>0 DEF Decodes, TypeOK
  <2>4. Claimed'
    <3>1. /\ work[w] # 0 /\ work[w] \in Nat /\ work'[w] = 0 /\ decoded' = decoded \union {work[w]}
          /\ \A v \in Workers : v # w => work'[v] = work[v]
      BY <1>5, <1>0 DEF Decodes, TypeOK
    <3> QED
      BY <1>0, <2>1, <3>1 DEF Claimed
  <2> QED
    BY <2>2, <2>3, <2>4 DEF Decoding
<1>6. CASE AllDecode
  <2>1. /\ stage = "decode" /\ stage' = "take" /\ UNCHANGED <<sources, asked, load, src, loaderVars>>
        /\ next >= Len(list) /\ \A w \in Workers : work[w] = 0
    BY <1>6 DEF AllDecode
  <2>2. Listing'
    BY <1>0, <2>1, SeenSame DEF Listing, loaderVars
  <2>3. TypeOK'
    BY <1>0, <2>1 DEF TypeOK, loaderVars
  <2>4. next = Len(list) /\ Len(list) \in Nat
    <3>1. next <= Len(list) /\ next \in Nat /\ Len(list) \in Nat
      BY <1>0, <2>1, Zenon DEF Claimed, Listing, TypeOK
    <3> QED
      BY <2>1, <3>1
  <2>5. decoded = 1..Len(list)
    <3>1. decoded \subseteq Nat /\ \A n \in Nat : n \in 1..next <=> n \in decoded
      BY <1>0, <2>1 DEF Claimed
    <3>2. 1..next \subseteq Nat
      BY <2>4
    <3> QED
      BY <2>4, <3>1, <3>2, Zenon
  <2> QED
    BY <1>0, <2>1, <2>2, <2>3, <2>4, <2>5 DEF Decoding, Claimed, loaderVars
<1>7. CASE Take
  <2>1. /\ stage = "take" /\ stage' = "take"
        /\ UNCHANGED <<sources, asked, load, src, list, next, work, decoded>>
    BY <1>7 DEF Take
  <2>2. Listing'
    BY <1>0, <2>1, SeenSame DEF Listing
  <2> QED
    BY <1>7, <1>0, <2>1, <2>2 DEF Take, Decoding, TypeOK, Claimed, Listing
<1>8. CASE CloseSource
  BY <1>8, <1>0, LayersNat DEF CloseSource, Decoding, TypeOK, Listing, Claimed, loaderVars
<1>9. CASE Loaded /\ Reload
  BY <1>9, <1>0, <1>s, LayersNat DEF Reload, AtRest, Decoding, TypeOK, Listing, Claimed
<1>10. CASE Loaded /\ stage' = "done" /\ UNCHANGED <<load, src, loaderVars, indexVars>>
  BY <1>10, <1>0, <1>s DEF Decoding, TypeOK, Listing, Claimed, loaderVars
<1>11. CASE UNCHANGED vars
  <2>1. UNCHANGED <<sources, asked, load, stage, src, loaderVars>>
    BY <1>11 DEF vars
  <2>2. Listing'
    BY <1>0, <2>1, SeenSame DEF Listing, loaderVars
  <2> QED
    BY <1>0, <2>1, <2>2 DEF Decoding, TypeOK, Claimed, loaderVars
<1> QED
  BY <1>1, <1>2, <1>3, <1>4, <1>5, <1>6, <1>7, <1>8, <1>9, <1>10, <1>11, Steps

\* The list and the claims hold throughout.
LEMMA DecodingInvariance == Spec => []Decoding
  BY InitDecoding, DecodingStep, PTL DEF Spec

\* No file is taken before a worker decoded it, in whatever order the
\* workers of decodeAll claim them and finish.
THEOREM AllAreDecoded == Spec => []AllDecoded
<1>1. Decoding => AllDecoded
  BY DEF Decoding, Claimed, AllDecoded
<1> QED
  BY <1>1, DecodingInvariance, PTL

-----------------------------------------------------------------------------
(* The index, said of the definitions S[i] that stand in each source.      *)

First(S, i, f) == \A j \in 1..(i - 1) : \A h \in S[j] : h.at # f.at

Hidden(S, i, f) == {j \in (i + 1)..Layers : \E g \in S[j] : g.at = f.at}

Entry(S, i, f) == [def |-> f, precedence |-> i, shadowed |-> Hidden(S, i, f)]

Sound(E, S) == \A e \in E : \E i \in 1..Layers : \E f \in S[i] : First(S, i, f) /\ e = Entry(S, i, f)

Complete(E, S) == \A i \in 1..Layers : \A f \in S[i] : First(S, i, f) => Entry(S, i, f) \in E

Named(E, S) == \A i \in 1..Layers : \A f \in S[i] : \E e \in E : e.def.at = f.at

Indexed(E, S) == Sound(E, S) /\ Complete(E, S) /\ Named(E, S)

\* The places before and after another.
LEMMA Places ==
  ASSUME NEW i \in 1..Layers
  PROVE  /\ \A j \in 1..(i - 1) : j \in 1..Layers /\ j # i /\ j < i
         /\ \A j \in (i + 1)..Layers : j \in 1..Layers /\ j # i /\ i < j
         /\ \A j \in 1..Layers : j < i => j \in 1..(i - 1) /\ i \in (j + 1)..Layers
         /\ \A j \in 1..Layers : j < i \/ j = i \/ i < j
         /\ \A j, k \in 1..Layers : j < i /\ k \in 1..(j - 1) => k # i
         /\ \A j \in 1..Layers : i < j => j \in (i + 1)..Layers
  BY LayersNat

\* S2 is S with f, the next definition of the source s.
Grows(E, S, S2, s, f) ==
  /\ s \in 1..Layers /\ Indexed(E, S)
  /\ \A j \in 1..Layers : S2[j] = IF j = s THEN S[j] \union {f} ELSE S[j]
  /\ \A j \in (s + 1)..Layers : S[j] = {}
  /\ \A g \in S[s] : g.at # f.at

\* A definition of a name that is not there yet is added.
LEMMA AddsNew ==
  ASSUME NEW E, NEW S, NEW S2, NEW s, NEW f, Grows(E, S, S2, s, f),
         {e \in E : e.def.at = f.at} = {}
  PROVE  Indexed(E \union {[def |-> f, precedence |-> s, shadowed |-> {}]}, S2)
<1>a. /\ s \in 1..Layers /\ Indexed(E, S)
      /\ \A j \in 1..Layers : S2[j] = IF j = s THEN S[j] \union {f} ELSE S[j]
      /\ \A j \in (s + 1)..Layers : S[j] = {}
  BY DEF Grows
<1>b. \A e \in E : e.def.at # f.at
  OBVIOUS
<1> USE <1>a, <1>b
<1>0. Layers \in Nat
  BY LayersNat
<1>1. \A i \in 1..Layers : \A g \in S[i] : g.at # f.at
  BY DEF Indexed, Named
<1>2. ASSUME NEW i \in 1..Layers, NEW g \in S[i]
      PROVE  Entry(S2, i, g) = Entry(S, i, g) /\ (First(S2, i, g) <=> First(S, i, g))
  <2>1. g.at # f.at
    BY <1>1
  <2>2. \A j \in 1..Layers : (\E h \in S2[j] : h.at = g.at) <=> (\E h \in S[j] : h.at = g.at)
    BY <2>1
  <2>3. Hidden(S2, i, g) = Hidden(S, i, g)
    BY <1>0, <2>2 DEF Hidden
  <2>4. First(S2, i, g) <=> First(S, i, g)
    BY <1>0, <2>2 DEF First
  <2> QED
    BY <2>3, <2>4 DEF Entry
<1>3. First(S2, s, f)
  <2>1. \A j \in 1..(s - 1) : j \in 1..Layers /\ S2[j] = S[j]
    BY Places, Zenon
  <2>2. \A j \in 1..(s - 1) : \A h \in S2[j] : h.at # f.at
    BY <1>1, <2>1
  <2> QED
    BY <2>2 DEF First
<1>4. Entry(S2, s, f) = [def |-> f, precedence |-> s, shadowed |-> {}]
  <2>1. \A j \in (s + 1)..Layers : S2[j] = {}
    BY Places, Zenon
  <2>2. Hidden(S2, s, f) = {}
    BY <2>1 DEF Hidden
  <2> QED
    BY <2>2 DEF Entry
<1> DEFINE E2 == E \union {Entry(S2, s, f)}
<1>5. Sound(E2, S2)
  <2> SUFFICES ASSUME NEW x \in E2
               PROVE  \E i \in 1..Layers : \E g \in S2[i] : First(S2, i, g) /\ x = Entry(S2, i, g)
    BY DEF Sound
  <2>1. CASE x \in E
    <3>1. PICK i \in 1..Layers : \E g \in S[i] : First(S, i, g) /\ x = Entry(S, i, g)
      BY <2>1 DEF Indexed, Sound
    <3>2. PICK g \in S[i] : First(S, i, g) /\ x = Entry(S, i, g)
      BY <3>1
    <3>3. g \in S2[i]
      OBVIOUS
    <3> QED
      BY <1>2, <3>2, <3>3
  <2>2. CASE x = Entry(S2, s, f)
    <3>1. f \in S2[s]
      OBVIOUS
    <3> QED
      BY <1>3, <2>2, <3>1
  <2> QED
    BY <2>1, <2>2
<1>6. Complete(E2, S2)
  BY <1>2 DEF Complete, Indexed
<1>7. Named(E2, S2)
  <2>1. Entry(S2, s, f).def = f
    BY DEF Entry
  <2> QED
    BY <2>1 DEF Named, Indexed
<1> QED
  BY <1>4, <1>5, <1>6, <1>7 DEF Indexed

\* What marking an entry makes of it.
LEMMA MarkedEntry ==
  ASSUME NEW f, NEW i, NEW H, NEW s, NEW e, e = [def |-> f, precedence |-> i, shadowed |-> H]
  PROVE  [e EXCEPT !.shadowed = @ \union {s}]
           = [def |-> f, precedence |-> i, shadowed |-> H \union {s}]
<1>1. e.shadowed = H
  OBVIOUS
<1>2. \A K : [e EXCEPT !.shadowed = K] = [def |-> f, precedence |-> i, shadowed |-> K]
  BY SMT
<1>3. [e EXCEPT !.shadowed = e.shadowed \union {s}]
        = [def |-> f, precedence |-> i, shadowed |-> e.shadowed \union {s}]
  BY <1>2, Zenon
<1> QED
  BY <1>1, <1>3, Zenon

Marked(E, C, s) == (E \ C) \union {[e EXCEPT !.shadowed = @ \union {s}] : e \in C}

\* One of a name that is there leaves its mark on that entry.
LEMMA AddsHidden ==
  ASSUME NEW E, NEW S, NEW S2, NEW s, NEW f, Grows(E, S, S2, s, f),
         NEW C, C = {e \in E : e.def.at = f.at}, C # {}
  PROVE  Indexed(Marked(E, C, s), S2)
<1>a. /\ s \in 1..Layers /\ Indexed(E, S)
      /\ \A j \in 1..Layers : S2[j] = IF j = s THEN S[j] \union {f} ELSE S[j]
      /\ \A j \in (s + 1)..Layers : S[j] = {}
      /\ \A g \in S[s] : g.at # f.at
  BY DEF Grows
<1> USE <1>a
<1>0. Layers \in Nat
  BY LayersNat
<1> DEFINE Mark(e) == [e EXCEPT !.shadowed = @ \union {s}]
           E2 == (E \ C) \union {Mark(e) : e \in C}
<1>1. ASSUME NEW i \in 1..Layers, NEW g \in S[i], g.at # f.at
      PROVE  Entry(S2, i, g) = Entry(S, i, g) /\ (First(S2, i, g) <=> First(S, i, g))
  <2>2. \A j \in 1..Layers : (\E h \in S2[j] : h.at = g.at) <=> (\E h \in S[j] : h.at = g.at)
    BY <1>1
  <2>3. Hidden(S2, i, g) = Hidden(S, i, g)
    BY <1>0, <2>2 DEF Hidden
  <2>4. First(S2, i, g) <=> First(S, i, g)
    BY <1>0, <2>2 DEF First
  <2> QED
    BY <2>3, <2>4 DEF Entry
<1>2. ASSUME NEW i \in 1..Layers, NEW g \in S[i], g.at = f.at
      PROVE  /\ i < s /\ Entry(S2, i, g) = Mark(Entry(S, i, g))
             /\ First(S2, i, g) <=> First(S, i, g)
  <2>0. i < s
    <3>1. i # s /\ i \notin (s + 1)..Layers
      BY <1>2, Zenon
    <3> QED
      BY <3>1, Places
  <2>2. Hidden(S2, i, g) = Hidden(S, i, g) \union {s}
    <3>1. s \in (i + 1)..Layers /\ f \in S2[s]
      BY <2>0, Places
    <3>2. \A j \in (i + 1)..Layers : j # s => S2[j] = S[j]
      BY Places, Zenon
    <3>3. ~\E h \in S[s] : h.at = g.at
      BY <1>2
    <3> QED
      BY <1>2, <3>1, <3>2, <3>3 DEF Hidden
  <2>3. First(S2, i, g) <=> First(S, i, g)
    <3>0. \A j \in 1..(i - 1) : j \in 1..Layers /\ j # s
      BY <2>0, Places
    <3>1. \A j \in 1..(i - 1) : S2[j] = S[j]
      BY <3>0, Zenon
    <3> QED
      BY <3>1, Zenon DEF First
  <2>4. Entry(S2, i, g) = Mark(Entry(S, i, g))
    <3>1. Mark(Entry(S, i, g))
            = [def |-> g, precedence |-> i, shadowed |-> Hidden(S, i, g) \union {s}]
      BY MarkedEntry DEF Entry
    <3> QED
      BY <2>2, <3>1, Zenon DEF Entry
  <2> QED
    BY <2>0, <2>3, <2>4
<1>3. ASSUME NEW i \in 1..Layers, NEW g \in S[i]
      PROVE  Entry(S, i, g) \in C <=> Entry(S, i, g) \in E /\ g.at = f.at
  BY DEF Entry
<1>4. PICK c \in C : TRUE
  OBVIOUS
<1>5. PICK k \in 1..Layers : \E g \in S[k] : g.at = f.at /\ First(S, k, g)
  BY <1>4 DEF Indexed, Sound, Entry
<1>6. ~First(S2, s, f)
  <2>1. PICK g \in S[k] : g.at = f.at
    BY <1>5
  <2>2. k \in 1..(s - 1) /\ g \in S2[k]
    <3>1. k < s
      BY <1>2, <2>1
    <3> QED
      BY <3>1, Places
  <2> QED
    BY <2>1, <2>2 DEF First
<1>7. Sound(E2, S2)
  <2> SUFFICES ASSUME NEW x \in E2
               PROVE  \E i \in 1..Layers : \E g \in S2[i] : First(S2, i, g) /\ x = Entry(S2, i, g)
    BY DEF Sound
  <2>1. PICK e \in E : x = IF e \in C THEN Mark(e) ELSE e
    OBVIOUS
  <2>2. PICK i \in 1..Layers : \E g \in S[i] : First(S, i, g) /\ e = Entry(S, i, g)
    BY DEF Indexed, Sound
  <2>3. PICK g \in S[i] : First(S, i, g) /\ e = Entry(S, i, g)
    BY <2>2
  <2>6. g \in S2[i]
    OBVIOUS
  <2>4. CASE g.at = f.at
    BY <1>2, <1>3, <2>1, <2>3, <2>6, <2>4
  <2>5. CASE g.at # f.at
    BY <1>1, <1>3, <2>1, <2>3, <2>6, <2>5
  <2> QED
    BY <2>4, <2>5
<1>8. Complete(E2, S2)
  <2> SUFFICES ASSUME NEW i \in 1..Layers, NEW g \in S2[i], First(S2, i, g)
               PROVE  Entry(S2, i, g) \in E2
    BY DEF Complete
  <2>1. g \in S[i]
    BY <1>6
  <2>2. CASE g.at = f.at
    <3>1. Entry(S, i, g) \in C
      BY <1>2, <1>3, <2>1, <2>2 DEF Indexed, Complete
    <3> QED
      BY <1>2, <2>1, <2>2, <3>1
  <2>3. CASE g.at # f.at
    <3>1. Entry(S, i, g) \in E \ C
      BY <1>1, <1>3, <2>1, <2>3 DEF Indexed, Complete
    <3> QED
      BY <1>1, <2>1, <2>3, <3>1
  <2> QED
    BY <2>2, <2>3
<1>9. Named(E2, S2)
  <2>1. \A e \in E : \E x \in E2 : x.def = e.def
    <3> SUFFICES ASSUME NEW e \in E PROVE \E x \in E2 : x.def = e.def
      OBVIOUS
    <3>1. PICK i \in 1..Layers : \E g \in S[i] : e = Entry(S, i, g)
      BY DEF Indexed, Sound
    <3>2. Mark(e).def = e.def
      BY <3>1 DEF Entry
    <3> QED
      BY <3>2
  <2>2. \A i \in 1..Layers : \A g \in S2[i] : \E e \in E : e.def.at = g.at
    BY <1>4 DEF Indexed, Named
  <2> QED
    <3> SUFFICES ASSUME NEW i \in 1..Layers, NEW g \in S2[i] PROVE \E x \in E2 : x.def.at = g.at
      BY DEF Named
    <3>1. PICK e \in E : e.def.at = g.at
      BY <2>2
    <3>2. PICK x \in E2 : x.def = e.def
      BY <2>1
    <3> QED
      BY <3>1, <3>2
<1> QED
  BY <1>7, <1>8, <1>9 DEF Indexed, Marked

-----------------------------------------------------------------------------
(* What the load knows of the files it has taken so far.                   *)

Taken(i) ==
  IF i < src THEN Seen(i)
  ELSE IF i = src /\ stage = "take" THEN {list[n] : n \in 1..pos} ELSE {}

Said(i) == {f \in Taken(i) : f.holds = "definition"}

Off(i) == {f \in Said(i) : OffAt(i, f)}

Standing == [i \in 1..Layers |-> Said(i) \ Off(i)]

RulesKnown ==
  \A x : x \in rules <=>
    \E i \in 1..Layers : i < src /\ \E r \in sources[i].off : x = [source |-> i, rule |-> r]

MatchedKnown ==
  \A x : x \in matched <=>
    x \in rules /\ \E j \in 1..Layers : x.source < j /\ \E f \in Said(j) : Covers(x.rule, f)

DisabledCounted == disabled = [i \in 1..Layers |-> Cardinality(Off(i))]

ProblemsKnown ==
  \A x : x \in problems <=>
    \E i \in 1..Layers : \E f \in Taken(i) : f.holds # "definition" /\ x = <<i, f.at>>

NoneRefused == \A i \in 1..Layers : i < src => sources[i].is # "refused"

\* Only the built-in registry is read for the names alone.
Scoping ==
  /\ stage = "done" => src = Layers + 1
  /\ load = "scoped" => asked # <<>> /\ OnlyLast

Index == Indexed(entries, Standing)

IInv == /\ Decoding /\ Index /\ RulesKnown /\ MatchedKnown /\ DisabledCounted
        /\ ProblemsKnown /\ NoneRefused /\ Scoping

-----------------------------------------------------------------------------

\* What is switched off is for the sources alone to say.
LEMMA OffSame ==
  ASSUME sources' = sources, NEW i, NEW f
  PROVE  OffAt(i, f)' <=> OffAt(i, f)
  BY DEF OffAt

Fresh == /\ \A i \in 1..Layers : Taken(i) = {}
         /\ entries = {} /\ rules = {} /\ matched = {} /\ disabled = NoneOff
         /\ problems = {} /\ src = 1

\* Nothing is known of an index nothing was taken for.
LEMMA EmptyIndex ==
  Fresh => Index /\ RulesKnown /\ MatchedKnown /\ DisabledCounted /\ ProblemsKnown /\ NoneRefused
<1> SUFFICES ASSUME Fresh
             PROVE  /\ Index /\ RulesKnown /\ MatchedKnown /\ DisabledCounted
                    /\ ProblemsKnown /\ NoneRefused
  OBVIOUS
<1>0. /\ \A i \in 1..Layers : Taken(i) = {}
      /\ entries = {} /\ rules = {} /\ matched = {} /\ disabled = NoneOff /\ problems = {} /\ src = 1
  BY DEF Fresh
<1>1. \A i \in 1..Layers : Said(i) = {} /\ Off(i) = {}
  BY <1>0 DEF Said, Off
<1>2. \A i \in 1..Layers : Standing[i] = {}
  BY <1>1 DEF Standing
<1>3. Index
  BY <1>0, <1>2 DEF Index, Indexed, Sound, Complete, Named
<1>4. RulesKnown /\ NoneRefused
  BY <1>0, LayersNat DEF RulesKnown, NoneRefused
<1>5. MatchedKnown /\ ProblemsKnown
  BY <1>0, <1>1 DEF MatchedKnown, ProblemsKnown
<1>6. DisabledCounted
  BY <1>0, <1>1, FS_EmptySet DEF DisabledCounted, NoneOff
<1> QED
  BY <1>3, <1>4, <1>5, <1>6

\* A load begins with nothing known.
LEMMA InitIInv == Init => IInv
<1> SUFFICES ASSUME Init PROVE IInv
  OBVIOUS
<1>1. \A i \in 1..Layers : Taken(i) = {}
  BY LayersNat DEF Init, Taken
<1>2. Scoping
  BY DEF Init, Scoping, Scopes
<1> QED
  BY <1>1, <1>2, EmptyIndex, InitDecoding DEF Fresh, Init, IInv

\* A step that takes no file keeps what is known; the rules may become more
\* when a source was read to its end.
LEMMA IndexKept ==
  ASSUME IInv, sources' = sources, \A i \in 1..Layers : Taken(i)' = Taken(i),
         UNCHANGED <<entries, matched, disabled, problems>>, RulesKnown',
         \A x \in rules : x \in rules',
         \A x \in rules' : x \in rules \/ \A j \in 1..Layers : x.source < j => Taken(j) = {}
  PROVE  Index' /\ MatchedKnown' /\ DisabledCounted' /\ ProblemsKnown'
<1>1. \A i \in 1..Layers : Said(i)' = Said(i)
  BY DEF Said
<1>2. \A i \in 1..Layers : Off(i)' = Off(i)
  BY <1>1, OffSame DEF Off
<1>3. Standing' = Standing
  BY <1>1, <1>2 DEF Standing
<1>4. Index'
  BY <1>3 DEF IInv, Index
<1>5. MatchedKnown'
  <2> SUFFICES ASSUME NEW x
               PROVE  x \in matched' <=>
                 x \in rules' /\ \E j \in 1..Layers :
                 x.source < j /\ \E f \in Said(j)' : Covers(x.rule, f)
    BY DEF MatchedKnown, Covers, Command, Variant
  <2>1. x \in matched <=>
          x \in rules /\ \E j \in 1..Layers : x.source < j /\ \E f \in Said(j) : Covers(x.rule, f)
    BY DEF IInv, MatchedKnown
  <2>2. x \in rules' /\ x \notin rules => \A j \in 1..Layers : x.source < j => Said(j) = {}
    BY DEF Said
  <2> QED
    BY <1>1, <2>1, <2>2
<1>6. DisabledCounted'
  BY <1>2 DEF IInv, DisabledCounted
<1>7. ProblemsKnown'
  BY DEF IInv, ProblemsKnown
<1> QED
  BY <1>4, <1>5, <1>6, <1>7

\* Steps that leave what was taken and the position alone.
LEMMA QuietKeeps ==
  ASSUME IInv, Decoding', UNCHANGED <<sources, asked, load, src, indexVars>>, Scoping',
         \A i \in 1..Layers : Taken(i)' = Taken(i)
  PROVE  IInv'
<1>1. RulesKnown' /\ NoneRefused'
  BY DEF IInv, RulesKnown, NoneRefused, indexVars
<1>2. Index' /\ MatchedKnown' /\ DisabledCounted' /\ ProblemsKnown'
  BY <1>1, IndexKept DEF indexVars
<1> QED
  BY <1>1, <1>2 DEF IInv

\* A source is done with: its own rules count from now on.
LEMMA PassesKeeps ==
  ASSUME IInv, Decoding', sources' = sources, src' = src + 1, src \in 1..Layers,
         stage' = "open", UNCHANGED <<asked, load, entries, matched, disabled, problems>>,
         rules' = rules \union {[source |-> src, rule |-> r] : r \in sources[src].off},
         sources[src].is # "refused",
         \A i \in 1..Layers : i = src => Taken(i)' = Taken(i)
  PROVE  IInv'
<1>1. \A i \in 1..Layers : i < src' <=> i < src \/ i = src
  BY LayersNat
<1>2. \A i \in 1..Layers : Taken(i)' = Taken(i)
  <2> SUFFICES ASSUME NEW i \in 1..Layers PROVE Taken(i)' = Taken(i)
    OBVIOUS
  <2>3. CASE i = src
    BY <2>3
  <2>1. CASE i < src
    BY <1>1, <2>1, SeenSame DEF Taken
  <2>2. CASE ~(i < src) /\ i # src
    <3>1. Taken(i) = {}
      BY <2>2 DEF Taken
    <3>2. Taken(i)' = {}
      BY <1>1, <2>2 DEF Taken
    <3> QED
      BY <3>1, <3>2
  <2> QED
    BY <2>1, <2>2, <2>3
<1>3. RulesKnown'
  <2> SUFFICES ASSUME NEW x
               PROVE  x \in rules' <=>
                 \E i \in 1..Layers :
                   i < src' /\ \E r \in sources[i].off : x = [source |-> i, rule |-> r]
    BY DEF RulesKnown
  <2>1. x \in rules <=>
          \E i \in 1..Layers : i < src /\ \E r \in sources[i].off : x = [source |-> i, rule |-> r]
    BY DEF IInv, RulesKnown
  <2> QED
    BY <1>1, <2>1
<1>4. NoneRefused'
  BY <1>1 DEF IInv, NoneRefused
<1>5. \A j \in 1..Layers : src < j => Taken(j) = {}
  BY LayersNat DEF Taken
<1>6. Index' /\ MatchedKnown' /\ DisabledCounted' /\ ProblemsKnown'
  BY <1>2, <1>3, <1>5, IndexKept
<1>7. Scoping'
  BY DEF IInv, Scoping, OnlyLast
<1> QED
  BY <1>3, <1>4, <1>6, <1>7 DEF IInv

\* A file is taken that was not taken before.
LEMMA TakeTakes ==
  ASSUME IInv, Take
  PROVE  /\ src \in 1..Layers /\ File \in Seen(src) /\ File \notin Taken(src)
         /\ \A i \in 1..Layers : Taken(i)' = IF i = src THEN Taken(i) \union {File} ELSE Taken(i)
         /\ \A g \in Taken(src) : g.at # File.at
         /\ \A j \in 1..Layers : src < j => Taken(j) = {}
<1>1. /\ stage = "take" /\ stage' = "take" /\ pos < Len(list) /\ pos' = pos + 1
      /\ UNCHANGED <<sources, asked, load, src, list>>
  BY DEF Take
<1>2. TypeOK /\ Listing
  BY DEF IInv, Decoding
<1>3. /\ src \in 1..Layers /\ list \in [1..Len(list) -> Seen(src)] /\ Len(list) \in Nat
      /\ \A m, n \in 1..Len(list) : list[m] = list[n] => m = n
  BY <1>1, <1>2 DEF Listing
<1>4. pos \in Nat /\ pos + 1 \in 1..Len(list) /\ \A n \in 1..pos : n \in 1..Len(list) /\ n # pos + 1
  BY <1>1, <1>2, <1>3 DEF TypeOK
<1>5. 1..pos' = 1..pos \union {pos + 1}
  BY <1>1, <1>4
<1>6. Taken(src) = {list[n] : n \in 1..pos} /\ ~(src < src)
  BY <1>1, <1>3 DEF Taken
<1>7. ASSUME NEW i \in 1..Layers, i = src PROVE Taken(i)' = {list[n] : n \in 1..pos'}
  BY <1>1, <1>3, <1>7 DEF Taken
<1>8. File \in Seen(src) /\ File \notin Taken(src) /\ Taken(src) \subseteq Seen(src)
  BY <1>3, <1>4, <1>6 DEF File
<1>9. ASSUME NEW i \in 1..Layers, i = src PROVE Taken(i)' = Taken(i) \union {File}
  <2>1. Taken(i)' = {list[n] : n \in 1..pos} \union {list[pos + 1]}
    BY <1>5, <1>7, <1>9
  <2> QED
    BY <1>6, <1>9, <2>1 DEF File
<1>10. ASSUME NEW i \in 1..Layers, i # src PROVE Taken(i)' = Taken(i)
  BY <1>1, <1>10, SeenSame DEF Taken
<1>11. \A g \in Taken(src) : g.at # File.at
  BY <1>2, <1>3, <1>8, SeenFinite
<1>12. \A j \in 1..Layers : src < j => Taken(j) = {}
  BY <1>3, LayersNat DEF Taken
<1> QED
  BY <1>3, <1>8, <1>9, <1>10, <1>11, <1>12

\* The rules that hit a file are those of the registries before its own.
LEMMA HitsAreOff ==
  ASSUME IInv, src \in 1..Layers
  PROVE  (Hits # {}) <=> OffAt(src, File)
<1>1. \A j \in 1..(src - 1) : j \in 1..Layers /\ j < src
  BY Places
<1>2. \A j \in 1..Layers : j < src => j \in 1..(src - 1)
  BY Places
<1>3. ASSUME NEW x \in Hits PROVE OffAt(src, File)
  <2>1. PICK i \in 1..Layers : i < src /\ \E r \in sources[i].off : x = [source |-> i, rule |-> r]
    BY DEF Hits, IInv, RulesKnown
  <2>2. Covers(x.rule, File)
    BY DEF Hits
  <2> QED
    BY <1>2, <2>1, <2>2 DEF OffAt
<1>4. ASSUME OffAt(src, File) PROVE Hits # {}
  <2>1. PICK j \in 1..(src - 1) : \E r \in sources[j].off : Covers(r, File)
    BY <1>4 DEF OffAt
  <2>2. PICK r \in sources[j].off : Covers(r, File)
    BY <2>1
  <2>3. [source |-> j, rule |-> r] \in rules
    BY <1>1, <2>2 DEF IInv, RulesKnown
  <2> QED
    BY <2>2, <2>3 DEF Hits
<1> QED
  BY <1>3, <1>4

\* What taking a file makes of what is known of each source.
LEMMA TakeCounts ==
  ASSUME IInv, Take
  PROVE  \A i \in 1..Layers :
           /\ Said(i)' = IF i = src /\ Definition THEN Said(i) \union {File} ELSE Said(i)
           /\ Off(i)' = IF i = src /\ Definition /\ Hits # {} THEN Off(i) \union {File} ELSE Off(i)
           /\ Standing'[i] = IF i = src /\ Definition /\ Hits = {} THEN Standing[i] \union {File}
                             ELSE Standing[i]
           /\ i = src => File \notin Said(i) /\ File \notin Off(i)
<1> SUFFICES ASSUME NEW i \in 1..Layers
             PROVE  /\ Said(i)' = IF i = src /\ Definition THEN Said(i) \union {File} ELSE Said(i)
                    /\ Off(i)' = IF i = src /\ Definition /\ Hits # {} THEN Off(i) \union {File}
                                ELSE Off(i)
                    /\ Standing'[i] = IF i = src /\ Definition /\ Hits = {}
                                      THEN Standing[i] \union {File} ELSE Standing[i]
                    /\ i = src => File \notin Said(i) /\ File \notin Off(i)
  OBVIOUS
<1> PICK f : f = File
  OBVIOUS
<1>1. /\ src \in 1..Layers /\ f \notin Taken(src)
      /\ Taken(i)' = IF i = src THEN Taken(i) \union {f} ELSE Taken(i)
  BY TakeTakes
<1>2. Definition <=> f.holds = "definition"
  BY DEF Definition
<1>3. Said(i)' = IF i = src /\ Definition THEN Said(i) \union {f} ELSE Said(i)
  BY <1>1, <1>2 DEF Said
<1>4. \A g : OffAt(i, g)' <=> OffAt(i, g)
  BY OffSame DEF Take
<1>5. i = src => (Hits # {} <=> OffAt(i, f))
  BY <1>1, HitsAreOff
<1>6. Off(i)' = {g \in Said(i)' : OffAt(i, g)}
  BY <1>4 DEF Off
<1>7. Off(i)' = IF i = src /\ Definition /\ Hits # {} THEN Off(i) \union {f} ELSE Off(i)
  BY <1>3, <1>5, <1>6 DEF Off
<1>8. i = src => f \notin Said(i) /\ f \notin Off(i)
  BY <1>1 DEF Said, Off
<1>9. Standing'[i] = Said(i)' \ Off(i)' /\ Standing[i] = Said(i) \ Off(i)
  BY DEF Standing
<1>10. Standing'[i] = IF i = src /\ Definition /\ Hits = {} THEN Standing[i] \union {f} ELSE Standing[i]
  BY <1>3, <1>7, <1>8, <1>9
<1> QED
  BY <1>3, <1>7, <1>8, <1>10

\* The index describes one definition more, or the same ones.
LEMMA TakeIndexes ==
  ASSUME IInv, Take
  PROVE  Index'
<1>1. src \in 1..Layers /\ (IsProblem \/ SwitchedOff \/ Adds)
  BY TakeTakes DEF Take
<1>2. CASE ~Adds
  <2>1. Standing' = Standing
    <3>1. \A i \in 1..Layers : Standing'[i] = Standing[i]
      BY <1>1, <1>2, TakeCounts DEF IsProblem, SwitchedOff
    <3> QED
      BY <3>1 DEF Standing
  <2>2. entries' = entries
    BY <1>1, <1>2 DEF IsProblem, SwitchedOff
  <2> QED
    BY <2>1, <2>2 DEF IInv, Index
<1>3. CASE Adds
  <2> PICK s, f : s = src /\ f = File
    OBVIOUS
  <2> PICK E, S, S2 : E = entries /\ S = Standing /\ S2 = Standing'
    OBVIOUS
  <2>1. s \in 1..Layers /\ Definition /\ Hits = {}
    BY <1>3, TakeTakes DEF Adds
  <2>2. \A i \in 1..Layers : S2[i] = IF i = s THEN S[i] \union {f} ELSE S[i]
    BY <2>1, TakeCounts
  <2>3. \A i \in 1..Layers : S[i] \subseteq Taken(i)
    BY DEF Standing, Said
  <2>4. \A i \in (s + 1)..Layers : S[i] = {}
    <3>1. \A i \in (s + 1)..Layers : i \in 1..Layers /\ s < i
      BY <2>1, Places
    <3>2. \A i \in 1..Layers : s < i => Taken(i) = {}
      BY TakeTakes
    <3> QED
      BY <2>3, <3>1, <3>2
  <2>5. \A g \in S[s] : g.at # f.at
    BY <2>1, <2>3, TakeTakes
  <2>6. Indexed(E, S)
    BY DEF IInv, Index
  <2>9. Grows(E, S, S2, s, f)
    BY <2>1, <2>2, <2>4, <2>5, <2>6 DEF Grows
  <2>7. CASE There = {}
    <3>1. {e \in E : e.def.at = f.at} = {}
      BY <2>7 DEF There
    <3>2. Indexed(E \union {[def |-> f, precedence |-> s, shadowed |-> {}]}, S2)
      BY <2>9, <3>1, AddsNew, Zenon
    <3> QED
      BY <1>3, <2>7, <3>2 DEF Adds, Index
  <2>8. CASE There # {}
    <3> PICK C : C = There
      OBVIOUS
    <3>1. C = {e \in E : e.def.at = f.at} /\ C # {}
      BY <2>8 DEF There
    <3>2. Indexed(Marked(E, C, s), S2)
      BY <2>9, <3>1, AddsHidden, SMT
    <3>3. entries' = Marked(entries, There, src)
      BY <1>3, <2>8, Zenon DEF Adds, Marked
    <3> QED
      BY <3>2, <3>3 DEF Index
  <2> QED
    BY <2>7, <2>8
<1> QED
  BY <1>2, <1>3

\* A rule is matched when it hits the file that is taken, and not before.
LEMMA TakeMatches ==
  ASSUME IInv, Take
  PROVE  MatchedKnown'
<1> SUFFICES ASSUME NEW x
             PROVE  x \in matched' <=>
               x \in rules' /\ \E j \in 1..Layers :
                 x.source < j /\ \E f \in Said(j)' : Covers(x.rule, f)
  BY DEF MatchedKnown, Covers, Command, Variant
<1>1. src \in 1..Layers /\ rules' = rules /\ (IsProblem \/ SwitchedOff \/ Adds)
  BY TakeTakes DEF Take, IsProblem, SwitchedOff, Adds
<1>2. x \in matched' <=> x \in matched \/ (Definition /\ x \in Hits)
  BY <1>1 DEF IsProblem, SwitchedOff, Adds
<1>3. x \in matched <=>
        x \in rules /\ \E j \in 1..Layers : x.source < j /\ \E f \in Said(j) : Covers(x.rule, f)
  BY DEF IInv, MatchedKnown
<1>4. x \in rules => x.source < src
  <2>1. x \in rules =>
          \E i \in 1..Layers : i < src /\ \E r \in sources[i].off : x = [source |-> i, rule |-> r]
    BY DEF IInv, RulesKnown
  <2> QED
    BY <2>1
<1>5. x \in Hits <=> x \in rules /\ Covers(x.rule, File)
  BY DEF Hits
<1>6. \A j \in 1..Layers : Said(j)' = IF j = src /\ Definition THEN Said(j) \union {File} ELSE Said(j)
  BY TakeCounts
<1>7. (\E j \in 1..Layers : x.source < j /\ \E f \in Said(j)' : Covers(x.rule, f))
        <=> \/ \E j \in 1..Layers : x.source < j /\ \E f \in Said(j) : Covers(x.rule, f)
            \/ Definition /\ x.source < src /\ Covers(x.rule, File)
  BY <1>1, <1>6
<1> QED
  BY <1>1, <1>2, <1>3, <1>4, <1>5, <1>7

\* Taking a file keeps all that is known.
LEMMA TakeKeeps ==
  ASSUME IInv, Take
  PROVE  IInv'
<1>0. /\ src \in 1..Layers /\ (IsProblem \/ SwitchedOff \/ Adds)
      /\ UNCHANGED <<sources, asked, load, stage, src, list, next, work, decoded>> /\ rules' = rules
  BY TakeTakes DEF Take, IsProblem, SwitchedOff, Adds
<1>1. Decoding'
  BY DecodingStep DEF IInv, Next
<1>2. RulesKnown' /\ NoneRefused' /\ Scoping'
  BY <1>0 DEF IInv, RulesKnown, NoneRefused, Scoping, OnlyLast
<1>3. DisabledCounted'
  <2>1. disabled = [i \in 1..Layers |-> Cardinality(Off(i))]
    BY DEF IInv, DisabledCounted
  <2>2. CASE Definition /\ Hits # {}
    <3> PICK s, f : s = src /\ f = File
      OBVIOUS
    <3>1. IsFiniteSet(Off(s))
      <4>1. TypeOK /\ Listing
        BY DEF IInv, Decoding
      <4>2. Off(s) \subseteq Seen(s)
        BY <1>0, <4>1 DEF Off, Said, Taken, Listing, TypeOK, Take
      <4>3. IsFiniteSet(Seen(s))
        BY <1>0, <4>1, SeenFinite
      <4> QED
        BY <4>2, <4>3, FS_Subset
    <3>2. f \notin Off(s)
      BY <1>0, TakeCounts
    <3>3. Cardinality(Off(s) \union {f}) = Cardinality(Off(s)) + 1
      BY <3>1, <3>2, FS_AddElement
    <3>4. disabled' = [disabled EXCEPT ![s] = @ + 1]
      BY <1>0, <2>2 DEF IsProblem, SwitchedOff, Adds
    <3>5. \A i \in 1..Layers : Off(i)' = IF i = s THEN Off(i) \union {f} ELSE Off(i)
      BY <2>2, TakeCounts
    <3>6. \A i \in 1..Layers : disabled'[i] = Cardinality(Off(i)')
      BY <1>0, <2>1, <3>3, <3>4, <3>5
    <3>7. disabled' = [i \in 1..Layers |-> Cardinality(Off(i)')]
      BY <2>1, <3>4, <3>6
    <3> QED
      BY <3>7 DEF DisabledCounted
  <2>3. CASE ~(Definition /\ Hits # {})
    <3>1. disabled' = disabled
      BY <1>0, <2>3 DEF IsProblem, SwitchedOff, Adds
    <3>2. \A i \in 1..Layers : Off(i)' = Off(i)
      BY <2>3, TakeCounts
    <3> QED
      BY <2>1, <3>1, <3>2 DEF DisabledCounted
  <2> QED
    BY <2>2, <2>3
<1>4. ProblemsKnown'
  <2> SUFFICES ASSUME NEW x
               PROVE  x \in problems' <=>
                 \E i \in 1..Layers : \E f \in Taken(i)' : f.holds # "definition" /\ x = <<i, f.at>>
    BY DEF ProblemsKnown
  <2>1. x \in problems <=>
          \E i \in 1..Layers : \E f \in Taken(i) : f.holds # "definition" /\ x = <<i, f.at>>
    BY DEF IInv, ProblemsKnown
  <2>2. x \in problems' <=> x \in problems \/ (File.holds # "definition" /\ x = <<src, File.at>>)
    BY <1>0 DEF IsProblem, SwitchedOff, Adds, Definition
  <2>3. \A i \in 1..Layers : Taken(i)' = IF i = src THEN Taken(i) \union {File} ELSE Taken(i)
    BY TakeTakes
  <2> QED
    BY <1>0, <2>1, <2>2, <2>3
<1> QED
  BY <1>1, <1>2, <1>3, <1>4, TakeIndexes, TakeMatches DEF IInv

\* Every step keeps all that is known.
LEMMA Step == IInv /\ [Next]_vars => IInv'
<1> SUFFICES ASSUME IInv, [Next]_vars PROVE IInv'
  OBVIOUS
<1>0. Decoding' /\ TypeOK /\ Listing /\ Claimed
  BY DecodingStep DEF IInv, Decoding
<1>1. CASE OpenSource
  <2>1. /\ stage = "open" /\ stage' = "decode"
        /\ UNCHANGED <<sources, asked, load, src, indexVars>>
    BY <1>1 DEF OpenSource
  <2>2. \A i \in 1..Layers : Taken(i)' = Taken(i)
    BY <2>1, SeenSame DEF Taken
  <2>3. Scoping'
    BY <2>1 DEF IInv, Scoping, OnlyLast
  <2> QED
    BY <1>0, <2>1, <2>2, <2>3, QuietKeeps
<1>2. CASE SkipSource
  <2>1. /\ stage = "open" /\ stage' = "open" /\ src \in 1..Layers /\ src' = src + 1
        /\ sources[src].is = "absent" /\ UNCHANGED <<sources, asked, load, indexVars>>
    BY <1>2, <1>0, LayersNat DEF SkipSource, TypeOK
  <2>2. sources[src].files = {} /\ sources[src].off = {}
    BY <1>0, <2>1, SourceAssumption DEF TypeOK, SourceAssumption
  <2>3. ASSUME NEW i \in 1..Layers, i = src PROVE Taken(i)' = Taken(i)
    <3>1. Seen(i) = {}
      BY <1>0, <2>2, <2>3, SeenFinite
    <3>2. i < src' /\ ~(i < src)
      BY <2>1, <2>3
    <3>3. Taken(i)' = Seen(i)'
      BY <3>2 DEF Taken
    <3>4. Taken(i) = {}
      BY <2>1, <3>2 DEF Taken
    <3> QED
      BY <2>1, <3>1, <3>3, <3>4, SeenSame
  <2>4. rules' = rules \union {[source |-> src, rule |-> r] : r \in sources[src].off}
    BY <2>1, <2>2 DEF indexVars
  <2> QED
    BY <1>0, <2>1, <2>3, <2>4, PassesKeeps DEF indexVars
<1>3. CASE RefuseSource
  <2>1. /\ stage = "open" /\ stage' = "failed"
        /\ UNCHANGED <<sources, asked, load, src, indexVars>>
    BY <1>3 DEF RefuseSource
  <2>2. \A i \in 1..Layers : Taken(i)' = Taken(i)
    BY <2>1, SeenSame DEF Taken
  <2>3. Scoping'
    BY <2>1 DEF IInv, Scoping, OnlyLast
  <2> QED
    BY <1>0, <2>1, <2>2, <2>3, QuietKeeps
<1>4. CASE (\E w \in Workers : Claims(w)) \/ (\E w \in Workers : Decodes(w))
  <2>1. stage' = stage /\ stage = "decode" /\ UNCHANGED <<sources, asked, load, src, indexVars>>
    BY <1>4 DEF Claims, Decodes
  <2>2. \A i \in 1..Layers : Taken(i)' = Taken(i)
    BY <2>1, SeenSame DEF Taken
  <2>3. Scoping'
    BY <2>1 DEF IInv, Scoping, OnlyLast
  <2> QED
    BY <1>0, <2>1, <2>2, <2>3, QuietKeeps
<1>5. CASE AllDecode
  <2>1. /\ stage = "decode" /\ stage' = "take" /\ pos' = 0 /\ list' = list
        /\ UNCHANGED <<sources, asked, load, src, indexVars>>
    BY <1>5, <1>0 DEF AllDecode, Claimed, loaderVars
  <2>2. \A i \in 1..Layers : Taken(i)' = Taken(i)
    BY <2>1, SeenSame DEF Taken
  <2>3. Scoping'
    BY <2>1 DEF IInv, Scoping, OnlyLast
  <2> QED
    BY <1>0, <2>1, <2>2, <2>3, QuietKeeps
<1>6. CASE CloseSource
  <2>1. /\ stage = "take" /\ stage' = "open" /\ pos = Len(list) /\ src' = src + 1
        /\ UNCHANGED <<sources, asked, load, entries, matched, disabled, problems>>
        /\ rules' = rules \union {[source |-> src, rule |-> r] : r \in sources[src].off}
    BY <1>6 DEF CloseSource
  <2>2. src \in 1..Layers /\ sources[src].is = "there"
    BY <1>0, <2>1 DEF Listing
  <2>3. ASSUME NEW i \in 1..Layers, i = src PROVE Taken(i)' = Taken(i)
    <3>1. i < src' /\ ~(i < src)
      BY <2>1, <2>2, <2>3
    <3>2. Taken(i)' = Seen(i)'
      BY <3>1 DEF Taken
    <3>3. Taken(i) = {list[n] : n \in 1..Len(list)}
      BY <2>1, <2>3, <3>1 DEF Taken
    <3>4. {list[n] : n \in 1..Len(list)} = Seen(i)
      BY <1>0, <2>1, <2>3 DEF Listing
    <3> QED
      BY <2>1, <3>2, <3>3, <3>4, SeenSame
  <2> QED
    BY <1>0, <2>1, <2>2, <2>3, PassesKeeps
<1>7. CASE Loaded /\ Reload
  <2>1. /\ sources' = sources /\ asked' = asked /\ src' = 1 /\ stage' = "open" /\ load' = "full"
        /\ entries' = {} /\ rules' = {} /\ matched' = {} /\ problems' = {} /\ disabled' = NoneOff
    BY <1>7 DEF Loaded, Reload
  <2>2. \A i \in 1..Layers : Taken(i)' = {}
    BY <2>1, LayersNat DEF Taken
  <2>3. Scoping'
    BY <2>1 DEF Scoping
  <2>4. /\ Index' /\ RulesKnown' /\ MatchedKnown' /\ DisabledCounted'
        /\ ProblemsKnown' /\ NoneRefused'
    <3>1. Fresh'
      BY <2>1, <2>2 DEF Fresh, NoneOff
    <3>2. (Fresh => /\ Index /\ RulesKnown /\ MatchedKnown /\ DisabledCounted
                    /\ ProblemsKnown /\ NoneRefused)'
      BY EmptyIndex, PTL
    <3> QED
      BY <3>1, <3>2
  <2> QED
    BY <1>0, <2>3, <2>4 DEF IInv
<1>8. CASE Loaded /\ stage' = "done" /\ UNCHANGED <<load, src, loaderVars, indexVars>>
  <2>1. /\ stage = "open" /\ stage' = "done" /\ src = Layers + 1
        /\ UNCHANGED <<sources, asked, load, src, indexVars>>
    BY <1>8 DEF Loaded, Reload
  <2>2. \A i \in 1..Layers : Taken(i)' = Taken(i)
    BY <2>1, SeenSame DEF Taken
  <2>3. Scoping'
    BY <2>1 DEF IInv, Scoping, OnlyLast
  <2> QED
    BY <1>0, <2>1, <2>2, <2>3, QuietKeeps
<1>9. CASE UNCHANGED vars
  <2>1. UNCHANGED <<sources, asked, load, stage, src, list, pos, indexVars>>
    BY <1>9 DEF vars, loaderVars
  <2>2. \A i \in 1..Layers : Taken(i)' = Taken(i)
    BY <2>1, SeenSame DEF Taken
  <2>3. Scoping'
    BY <2>1 DEF IInv, Scoping, OnlyLast
  <2> QED
    BY <1>0, <2>1, <2>2, <2>3, QuietKeeps
<1> QED
  BY <1>1, <1>2, <1>3, <1>4, <1>5, <1>6, <1>7, <1>8, <1>9, TakeKeeps, Steps

\* What is known holds throughout.
LEMMA Invariance == Spec => []IInv
  BY InitIInv, Step, PTL DEF Spec

-----------------------------------------------------------------------------
(* What is loaded in the end.                                              *)

AllStand == [i \in 1..Layers |-> Stands(i)]

\* Layered, in the words the index is described in.
LEMMA LayeredIs ==
  ASSUME NEW x
  PROVE  x \in Layered <=>
           \E i \in 1..Layers :
             \E f \in AllStand[i] : First(AllStand, i, f) /\ x = Entry(AllStand, i, f)
<1>1. \A i \in 1..Layers : AllStand[i] = Stands(i)
  BY DEF AllStand
<1>2. ASSUME NEW i \in 1..Layers, NEW f
      PROVE  /\ First(AllStand, i, f) <=> \A j \in 1..(i - 1) : \A h \in Stands(j) : h.at # f.at
             /\ Hidden(AllStand, i, f) = {j \in (i + 1)..Layers : \E g \in Stands(j) : g.at = f.at}
  <2>1. \A j \in 1..(i - 1) : AllStand[j] = Stands(j)
    BY <1>1, Places, Zenon
  <2>2. \A j \in (i + 1)..Layers : AllStand[j] = Stands(j)
    BY <1>1, Places, Zenon
  <2> QED
    BY <2>1, <2>2 DEF First, Hidden
<1>3. x \in Layered <=>
        \E i \in 1..Layers : \E f \in Stands(i) :
          /\ \A j \in 1..(i - 1) : \A h \in Stands(j) : h.at # f.at
          /\ x = [def |-> f, precedence |-> i,
                  shadowed |-> {j \in (i + 1)..Layers : \E g \in Stands(j) : g.at = f.at}]
  <2> DEFINE Shown(i) ==
        {[def |-> f, precedence |-> i,
          shadowed |-> {j \in (i + 1)..Layers : \E g \in Stands(j) : g.at = f.at}] :
            f \in {g \in Stands(i) : \A j \in 1..(i - 1) : \A h \in Stands(j) : h.at # g.at}}
  <2>1. Layered = UNION {Shown(i) : i \in 1..Layers}
    BY DEF Layered
  <2>2. \A i : x \in Shown(i) <=>
          \E f \in Stands(i) :
            /\ \A j \in 1..(i - 1) : \A h \in Stands(j) : h.at # f.at
            /\ x = [def |-> f, precedence |-> i,
                    shadowed |-> {j \in (i + 1)..Layers : \E g \in Stands(j) : g.at = f.at}]
    OBVIOUS
  <2>3. x \in Layered <=> \E i \in 1..Layers : x \in Shown(i)
    <3> HIDE DEF Shown
    <3> QED
      BY <2>1
  <2> QED
    BY <2>2, <2>3, Zenon
<1> QED
  BY <1>1, <1>2, <1>3 DEF Entry

\* The entries, in the same words.
LEMMA EntriesAre ==
  ASSUME IInv, NEW x
  PROVE  x \in entries <=>
           \E i \in 1..Layers :
             \E f \in Standing[i] : First(Standing, i, f) /\ x = Entry(Standing, i, f)
  BY DEF IInv, Index, Indexed, Sound, Complete

\* A load that is done has taken every file it sees.
LEMMA AllTaken ==
  ASSUME IInv, stage = "done"
  PROVE  /\ src = Layers + 1 /\ \A i \in 1..Layers : i < src
         /\ \A i \in 1..Layers : Taken(i) = Seen(i)
         /\ load = "full" => \A i \in 1..Layers : Seen(i) = sources[i].files
<1>1. src = Layers + 1
  BY DEF IInv, Scoping
<1>2. \A i \in 1..Layers : i < src
  BY <1>1, LayersNat
<1>3. \A i \in 1..Layers : Taken(i) = Seen(i)
  BY <1>2 DEF Taken
<1>4. load = "full" => \A i \in 1..Layers : Seen(i) = sources[i].files
  BY DEF Seen
<1> QED
  BY <1>1, <1>2, <1>3, <1>4

\* What a full load says, switches off and holds is the layering's.
LEMMA FullStands ==
  ASSUME IInv, stage = "done", load = "full"
  PROVE  /\ \A i \in 1..Layers : Said(i) = SaidBy(i) /\ Off(i) = SaidBy(i) \ Stands(i)
         /\ Standing = AllStand /\ entries = Layered
<1>1. \A i \in 1..Layers : Said(i) = SaidBy(i)
  BY AllTaken DEF Said, SaidBy
<1>2. \A i \in 1..Layers : Off(i) = SaidBy(i) \ Stands(i) /\ Said(i) \ Off(i) = Stands(i)
  BY <1>1 DEF Off, Stands
<1>3. Standing = AllStand
  BY <1>2 DEF Standing, AllStand
<1>4. \A x : x \in entries <=> x \in Layered
  BY <1>3, EntriesAre, LayeredIs
<1> QED
  BY <1>1, <1>2, <1>3, <1>4

\* At the end of a full load the counts and the problems are so too.
LEMMA FullIsLayered == IInv => LoadedAsLayered
<1> SUFFICES ASSUME IInv, stage = "done", load = "full"
             PROVE  /\ entries = Layered
                    /\ disabled = [i \in 1..Layers |-> Cardinality(SaidBy(i) \ Stands(i))]
                    /\ problems =
                         UNION {{<<i, f.at>> : f \in sources[i].files \ SaidBy(i)} : i \in 1..Layers}
                    /\ \A i \in 1..Layers : sources[i].is # "refused"
  BY DEF LoadedAsLayered
<1>1. disabled = [i \in 1..Layers |-> Cardinality(SaidBy(i) \ Stands(i))]
  BY FullStands DEF IInv, DisabledCounted
<1>2. \A x : x \in problems <=>
                x \in UNION {{<<i, f.at>> : f \in sources[i].files \ SaidBy(i)} : i \in 1..Layers}
  <2> SUFFICES ASSUME NEW x
               PROVE  x \in problems <=>
                 x \in UNION {{<<i, f.at>> : f \in sources[i].files \ SaidBy(i)} : i \in 1..Layers}
    OBVIOUS
  <2>1. x \in problems <=>
          \E i \in 1..Layers : \E f \in Taken(i) : f.holds # "definition" /\ x = <<i, f.at>>
    BY DEF IInv, ProblemsKnown
  <2>2. \A i \in 1..Layers : \A f :
          f \in sources[i].files \ SaidBy(i) <=> f \in Taken(i) /\ f.holds # "definition"
    BY AllTaken DEF SaidBy
  <2>3. x \in UNION {{<<i, f.at>> : f \in sources[i].files \ SaidBy(i)} : i \in 1..Layers} <=>
          \E i \in 1..Layers : \E f \in sources[i].files \ SaidBy(i) : x = <<i, f.at>>
    OBVIOUS
  <2> QED
    BY <2>1, <2>2, <2>3
<1>3. \A i \in 1..Layers : sources[i].is # "refused"
  BY AllTaken DEF IInv, NoneRefused
<1> QED
  BY <1>1, <1>2, <1>3, FullStands

\* A load for the names alone has nothing but the built-in registry.
LEMMA ScopedStands ==
  ASSUME IInv, stage = "done", load = "scoped"
  PROVE  /\ Layers \in 1..Layers /\ \A i \in 1..Layers : i # Layers => i < Layers
         /\ \A i \in 1..Layers : i # Layers =>
              sources[i].files = {} /\ sources[i].off = {} /\ Standing[i] = {} /\ AllStand[i] = {}
         /\ Standing[Layers] = {f \in AllStand[Layers] : Answering(f)}
<1>1. Layers \in 1..Layers /\ \A i \in 1..Layers : i # Layers => i < Layers /\ i \in 1..(Layers - 1)
  BY LayersNat
<1>2. \A i \in 1..Layers : i # Layers => sources[i].files = {} /\ sources[i].off = {}
  BY <1>1, SourceAssumption DEF IInv, Decoding, TypeOK, Scoping, OnlyLast, SourceAssumption
<1>3. \A i \in 1..Layers : Taken(i) = IF i = Layers THEN {f \in sources[i].files : Answering(f)}
                                      ELSE sources[i].files
  BY AllTaken DEF Seen, Last
<1>4. \A i \in 1..Layers : i # Layers => Standing[i] = {} /\ AllStand[i] = {}
  BY <1>2, <1>3 DEF Standing, AllStand, Said, Stands, SaidBy
<1>5. Standing[Layers] = {f \in AllStand[Layers] : Answering(f)}
  BY <1>1, <1>3 DEF Standing, AllStand, Said, Off, Stands, SaidBy
<1> QED
  BY <1>1, <1>2, <1>4, <1>5

\* A scoped load holds of the layering what answers to the names.
LEMMA NamesAgree == IInv => NamedAgrees
<1> SUFFICES ASSUME IInv, stage = "done", NEW k \in 1..Len(asked)
             PROVE  /\ VariantsOf(entries, asked[k]) = VariantsOf(Layered, asked[k])
                    /\ \A v \in VariantNames :
                         LookupIn(entries, asked[k], v) = LookupIn(Layered, asked[k], v)
  BY DEF NamedAgrees
<1>1. CASE load = "full"
  BY <1>1, FullStands
<1>2. CASE load = "scoped"
  <2> DEFINE Alone(f) == [def |-> f, precedence |-> Layers, shadowed |-> {}]
  <2>1. \A S : (\A i \in 1..Layers : i # Layers => S[i] = {}) =>
          \A f \in S[Layers] : First(S, Layers, f) /\ Entry(S, Layers, f) = Alone(f)
    <3> SUFFICES ASSUME NEW S, \A i \in 1..Layers : i # Layers => S[i] = {}, NEW f \in S[Layers]
                 PROVE  First(S, Layers, f) /\ Entry(S, Layers, f) = Alone(f)
      OBVIOUS
    <3>1. \A j \in 1..(Layers - 1) : j \in 1..Layers /\ j # Layers
      BY LayersNat
    <3>2. (Layers + 1)..Layers = {}
      BY LayersNat
    <3> QED
      BY <3>1, <3>2 DEF First, Entry, Hidden
  <2> HIDE DEF Alone
  <2>2. \A x : x \in entries <=> \E f \in Standing[Layers] : x = Alone(f)
    <3> DEFINE S == Standing
    <3>1. /\ Layers \in 1..Layers /\ \A i \in 1..Layers : i # Layers => S[i] = {}
          /\ \A x : x \in entries <=>
               \E i \in 1..Layers : \E f \in S[i] : First(S, i, f) /\ x = Entry(S, i, f)
      BY <1>2, ScopedStands, EntriesAre
    <3>2. \A f \in S[Layers] : First(S, Layers, f) /\ Entry(S, Layers, f) = Alone(f)
      BY <2>1, <3>1
    <3> HIDE DEF S
    <3>3. \A x : x \in entries <=> \E f \in S[Layers] : x = Alone(f)
      BY <3>1, <3>2
    <3> QED
      BY <3>3 DEF S
  <2>3. \A x : x \in Layered <=> \E f \in AllStand[Layers] : x = Alone(f)
    <3> DEFINE S == AllStand
    <3>1. /\ Layers \in 1..Layers /\ \A i \in 1..Layers : i # Layers => S[i] = {}
          /\ \A x : x \in Layered <=>
               \E i \in 1..Layers : \E f \in S[i] : First(S, i, f) /\ x = Entry(S, i, f)
      BY <1>2, ScopedStands, LayeredIs
    <3>2. \A f \in S[Layers] : First(S, Layers, f) /\ Entry(S, Layers, f) = Alone(f)
      BY <2>1, <3>1
    <3> HIDE DEF S
    <3>3. \A x : x \in Layered <=> \E f \in S[Layers] : x = Alone(f)
      BY <3>1, <3>2
    <3> QED
      BY <3>3 DEF S
  <2>4. \A x : x \in entries <=> x \in Layered /\ Answering(x.def)
    <3>1. \A f : Alone(f).def = f
      BY DEF Alone
    <3> QED
      BY <1>2, <2>2, <2>3, <3>1, ScopedStands
  <2>5. \A x : AnswersTo(x, asked[k]) => Answering(x.def)
    BY DEF AnswersTo, Answering
  <2>6. \A x, v : x.def.at = <<asked[k], v>> => Answering(x.def)
    BY DEF Answering, Command
  <2>7. VariantsOf(entries, asked[k]) = VariantsOf(Layered, asked[k])
    BY <2>4, <2>5 DEF VariantsOf
  <2>8. \A v : {e \in entries : e.def.at = <<asked[k], v>>}
                = {e \in Layered : e.def.at = <<asked[k], v>>}
    BY <2>4, <2>6
  <2>9. \A v : LookupIn(entries, asked[k], v) = LookupIn(Layered, asked[k], v)
    BY <2>7, <2>8, Zenon DEF LookupIn
  <2> QED
    BY <2>7, <2>9
<1>3. load \in {"full", "scoped"}
  BY DEF IInv, Decoding, TypeOK
<1> QED
  BY <1>1, <1>2, <1>3

\* A scoped load has no rule that could have hit anything.
LEMMA RulesWarned == IInv => WarnedRightly
<1> SUFFICES ASSUME IInv, stage = "done", NEW x
             PROVE  x \in Warnings <=> x \in NeedlessRules
  BY DEF WarnedRightly
<1>1. x \in rules <=> \E i \in 1..Layers : \E r \in sources[i].off : x = [source |-> i, rule |-> r]
  BY AllTaken DEF IInv, RulesKnown
<1>2. x \in matched <=>
        x \in rules /\ \E j \in 1..Layers : x.source < j /\ \E f \in Said(j) : Covers(x.rule, f)
  BY DEF IInv, MatchedKnown
<1>3. x \in NeedlessRules <=>
        \E i \in 1..Layers : \E r \in sources[i].off :
          /\ \A j \in (i + 1)..Layers : \A f \in SaidBy(j) : ~Covers(r, f)
          /\ x = [source |-> i, rule |-> r]
  BY DEF NeedlessRules
<1>4. \A i, j \in 1..Layers : sources[i].off # {} /\ i < j => Said(j) = SaidBy(j)
  <2>1. CASE load = "full"
    BY <2>1, FullStands
  <2>2. CASE load = "scoped"
    <3>1. \A i \in 1..Layers : sources[i].off # {} => i = Layers
      BY <2>2, ScopedStands
    <3>2. \A j \in 1..Layers : ~(Layers < j)
      BY LayersNat
    <3> QED
      BY <3>1, <3>2
  <2>3. load \in {"full", "scoped"}
    BY DEF IInv, Decoding, TypeOK
  <2> QED
    BY <2>1, <2>2, <2>3
<1>5. \A i \in 1..Layers : \A j : j \in (i + 1)..Layers <=> j \in 1..Layers /\ i < j
  BY LayersNat
<1>6. ASSUME NEW i \in 1..Layers, NEW r \in sources[i].off, x = [source |-> i, rule |-> r]
      PROVE  (\E j \in 1..Layers : x.source < j /\ \E f \in Said(j) : Covers(x.rule, f))
               <=> ~\A j \in (i + 1)..Layers : \A f \in SaidBy(j) : ~Covers(r, f)
  <2>1. x.source = i /\ x.rule = r
    BY <1>6
  <2>2. \A j \in (i + 1)..Layers : j \in 1..Layers /\ i < j /\ Said(j) = SaidBy(j)
    BY <1>4, <1>5
  <2> QED
    BY <1>5, <2>1, <2>2
<1>7. CASE x \in rules
  <2>1. PICK i \in 1..Layers : \E r \in sources[i].off : x = [source |-> i, rule |-> r]
    BY <1>1, <1>7
  <2>2. PICK r \in sources[i].off : x = [source |-> i, rule |-> r]
    BY <2>1
  <2>3. \A m \in 1..Layers : \A o \in sources[m].off : x = [source |-> m, rule |-> o] => m = i /\ o = r
    BY <2>2
  <2> QED
    BY <1>2, <1>3, <1>6, <1>7, <2>2, <2>3 DEF Warnings
<1>8. CASE x \notin rules
  BY <1>1, <1>3, <1>8 DEF Warnings
<1> QED
  BY <1>7, <1>8

\* A full load holds the definitions that stand, each once and knowing of
\* those it hides, counts those switched off and names every problem (Load).
THEOREM LoadsAsLayered == Spec => []LoadedAsLayered
  BY Invariance, FullIsLayered, PTL

\* What loadRegistryFor reads for the names alone answers to those names as
\* everything would.
THEOREM NamesAnswerAlike == Spec => []NamedAgrees
  BY Invariance, NamesAgree, PTL

\* The disable rules Load reports are exactly those that name nothing below
\* them.
THEOREM WarnsRightly == Spec => []WarnedRightly
  BY Invariance, RulesWarned, PTL
=============================================================================
