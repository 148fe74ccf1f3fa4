--------------------------- MODULE ContractProofs ---------------------------
(***************************************************************************)
(* What the publication of schemas keeps, for any definitions, any number  *)
(* of versions and any order of edits, merges and uses: given that the     *)
(* generator and Compare are sound, so is every document and program kept  *)
(* while the contract has the version it was made under.                   *)
(***************************************************************************)
EXTENDS Contract, TLAPS

\* A schema of one of this definition's own forms, or none.
IsOwn(s) == s \in [draft : family \cap Definitions, version : 1..MaxVersion]
Own(published) == published = <<>> \/ \E s : IsOwn(s) /\ published = <<s>>

Typed ==
  /\ family \in Families
  /\ def = <<>> \/ \E d \in family \cap Definitions : def = <<d>>
  /\ Own(head) /\ Own(base) /\ Own(past)
  /\ retired \in BOOLEAN

\* The contract's version has not gone down since what is kept was made.
Climbs == past # <<>> => base # <<>> /\ past[1].version =< base[1].version

\* What is kept from when the version was this meets what is published now.
Kept(meets) == SameContract => <<past[1].draft, base[1].draft>> \in meets

\* What Update writes, under the guard of its branch, is a schema of the own form.
LEMMA NextIsOwn ==
  ASSUME Typed, NEW d \in family \cap Definitions, def = <<d>>, NEW breakOK \in BOOLEAN,
         NextSchema(d, head, breakOK) # <<>>,
         NextSchema(d, head, breakOK)[1].version =< MaxVersion
  PROVE  Own(NextSchema(d, head, breakOK))
<1>1. Version(head) \in 1..MaxVersion
  BY MaxVersionAssumption DEF Typed, Own, IsOwn, Version
<1>2. CASE NextSchema(d, head, breakOK) = <<[draft |-> d, version |-> Version(head)]>>
  BY <1>1, <1>2 DEF Own, IsOwn
<1>3. CASE NextSchema(d, head, breakOK) = <<[draft |-> d, version |-> Version(head) + 1]>>
  <2>1. Version(head) + 1 =< MaxVersion
    BY <1>3
  <2>2. IsOwn([draft |-> d, version |-> Version(head) + 1])
    BY <1>1, <2>1, MaxVersionAssumption DEF IsOwn
  <2> QED BY <1>3, <2>2 DEF Own
<1> QED BY <1>2, <1>3 DEF NextSchema

\* What a merge makes of the base: the own form, under the version of the schema.
LEMMA MergeIsOwn ==
  ASSUME Typed, Merge
  PROVE  Own(base') /\ Own(past')
<1>1. CASE def = <<>>
  BY <1>1 DEF Merge, Typed, Own, IsOwn, branch
<1>2. ASSUME NEW d \in family \cap Definitions, def = <<d>>
      PROVE  Own(base') /\ Own(past')
  <2>1. head # <<>>
    BY <1>2 DEF Merge, TestSchemas
  <2>2. PICK s : IsOwn(s) /\ head = <<s>>
    BY <2>1 DEF Typed, Own
  <2>3. base' = <<[draft |-> d, version |-> s.version]>>
    BY <1>2, <2>2 DEF Merge
  <2>4. IsOwn([draft |-> d, version |-> s.version])
    BY <1>2, <2>2 DEF IsOwn
  <2>5. Own(base')
    BY <2>3, <2>4 DEF Own
  <2>6. past' = past
    BY <2>1 DEF Merge
  <2> QED BY <2>5, <2>6 DEF Typed, Own
<1> QED BY <1>1, <1>2 DEF Typed

\* The state keeps its types, and a draft that does not load is never published.
LEMMA TypedInv == Spec => []Typed
<1>1. Init => Typed
  BY DEF Init, Typed, Own
<1>2. Typed /\ [Next]_vars => Typed'
  <2> SUFFICES ASSUME Typed, [Next]_vars PROVE Typed'
    OBVIOUS
  <2>1. CASE Edit
    BY <2>1 DEF Edit, Typed, Own, IsOwn
  <2>2. CASE Retire
    BY <2>2 DEF Retire, Typed, Own, IsOwn
  <2>3. ASSUME NEW breakOK \in BOOLEAN, Update(breakOK) PROVE Typed'
    <3>1. UNCHANGED <<family, def, retired, base, past>>
      BY <2>3 DEF Update
    <3>2. Own(head)'
      <4>1. CASE def = <<>>
        BY <2>3, <4>1 DEF Update, Own
      <4>2. ASSUME NEW d \in family \cap Definitions, def = <<d>> PROVE Own(head)'
        <5>1. Own(NextSchema(d, head, breakOK)) /\ head' = NextSchema(d, head, breakOK)
          BY <2>3, <4>2, NextIsOwn DEF Update
        <5> QED BY <3>1, <5>1 DEF Own, IsOwn
      <4> QED BY <4>1, <4>2 DEF Typed
    <3> QED BY <3>1, <3>2 DEF Typed, Own, IsOwn
  <2>4. ASSUME NEW version \in 1..MaxVersion, EditByHand(version) PROVE Typed'
    <3>1. PICK d \in family \cap Definitions : def = <<d>>
      BY <2>4 DEF EditByHand, Typed
    <3>2. UNCHANGED <<family, def, retired, base, past>> /\ head' = <<[draft |-> d, version |-> version]>>
      BY <2>4, <3>1 DEF EditByHand
    <3>3. IsOwn([draft |-> d, version |-> version])
      BY <2>4 DEF IsOwn
    <3> QED BY <3>2, <3>3 DEF Typed, Own, IsOwn
  <2>5. CASE Merge
    <3>1. UNCHANGED <<family, def, head, retired>>
      BY <2>5 DEF Merge, branch
    <3>2. Own(base') /\ Own(past')
      BY <2>5, MergeIsOwn
    <3> QED BY <3>1, <3>2 DEF Typed, Own, IsOwn
  <2>6. CASE Keep
    BY <2>6 DEF Keep, branch, Typed, Own, IsOwn
  <2>7. CASE UNCHANGED vars
    BY <2>7 DEF vars, Typed, Own, IsOwn
  <2> QED BY <2>1, <2>2, <2>3, <2>4, <2>5, <2>6, <2>7 DEF Next
<1> QED BY <1>1, <1>2, PTL DEF Spec

THEOREM TypeCorrect == Spec => []TypeOK
<1>1. Typed => TypeOK
  BY DEF Typed, TypeOK, Own, IsOwn, Schema
<1> QED BY <1>1, TypedInv, PTL

\* A merge that leaves a schema published leaves its version no lower, and breaks
\* nothing unless it is higher.
LEMMA MergeClimbs ==
  ASSUME Typed, Merge, base # <<>>, base' # <<>>
  PROVE  /\ base[1].version =< base'[1].version
         /\ base[1].version = base'[1].version =>
              \E h \in family \cap Definitions :
                 <<base[1].draft, h>> \notin Breaks /\ <<base'[1].draft, h>> \in Same
<1>1. PICK d \in family \cap Definitions : def = <<d>>
  BY DEF Merge, Typed
<1>2. head # <<>>
  BY <1>1 DEF Merge, TestSchemas
<1>3. PICK h : IsOwn(h) /\ head = <<h>>
  BY <1>2 DEF Typed, Own
<1>4. PICK b : IsOwn(b) /\ base = <<b>>
  BY DEF Typed, Own
<1>5. base' = <<[draft |-> d, version |-> h.version]>> /\ <<d, h.draft>> \in Same
  BY <1>1, <1>3 DEF Merge, TestSchemas
<1>6. IF <<b.draft, h.draft>> \notin Breaks THEN h.version >= b.version ELSE h.version > b.version
  BY <1>2, <1>3, <1>4 DEF Merge, AgainstBase, Version
<1>7. b.version \in Nat /\ h.version \in Nat /\ h.draft \in family \cap Definitions
  BY <1>3, <1>4, MaxVersionAssumption DEF IsOwn
<1> QED BY <1>4, <1>5, <1>6, <1>7

\* One step keeps the version climbing and what is kept meeting it.
LEMMA StepKeeps ==
  ASSUME NEW CONSTANT meets, SoundFor(meets), Typed, Typed', Climbs, Kept(meets), [Next]_vars
  PROVE  Climbs' /\ Kept(meets)'
<1>1. CASE UNCHANGED <<base, past>>
  BY <1>1 DEF Climbs, Kept, SameContract, Version
<1>2. CASE Merge
  <2>1. CASE past' = <<>>
    BY <2>1 DEF Climbs, Kept, SameContract
  <2>2. CASE past' # <<>>
    <3>1. head # <<>> /\ past' = past /\ past # <<>> /\ base # <<>> /\ base' # <<>>
      BY <1>2, <2>2 DEF Merge, TestSchemas, Climbs
    <3>2. PICK p : IsOwn(p) /\ past = <<p>>
      BY <3>1 DEF Typed, Own
    <3>3. PICK b : IsOwn(b) /\ base = <<b>>
      BY <3>1 DEF Typed, Own
    <3>4. PICK n : IsOwn(n)' /\ base' = <<n>>
      BY <3>1 DEF Typed, Own
    <3>5. /\ p.version \in Nat /\ b.version \in Nat /\ n.version \in Nat
          /\ {p.draft, b.draft, n.draft} \subseteq family \cap Definitions
      BY <1>2, <3>2, <3>3, <3>4, MaxVersionAssumption DEF IsOwn, Merge
    <3>6. p.version =< b.version
      BY <3>1, <3>2, <3>3 DEF Climbs
    <3>7. /\ b.version =< n.version
          /\ b.version = n.version => \E h \in family \cap Definitions :
                <<b.draft, h>> \notin Breaks /\ <<n.draft, h>> \in Same
      BY <1>2, <3>1, <3>3, <3>4, MergeClimbs
    <3>8. Climbs'
      BY <3>1, <3>2, <3>4, <3>5, <3>6, <3>7 DEF Climbs
    <3>9. ASSUME p.version = n.version PROVE <<p.draft, n.draft>> \in meets
      <4>1. p.version = b.version /\ b.version = n.version
        BY <3>5, <3>6, <3>7, <3>9
      <4>2. PICK h \in family \cap Definitions : <<b.draft, h>> \notin Breaks /\ <<n.draft, h>> \in Same
        BY <3>7, <4>1
      <4>3. <<p.draft, b.draft>> \in meets
        BY <3>1, <3>2, <3>3, <4>1 DEF Kept, SameContract, Version
      <4>4. <<p.draft, h>> \in meets
        BY <3>5, <4>2, <4>3 DEF SoundFor, StaysSo, Typed
      <4> QED BY <3>5, <4>2, <4>4 DEF SoundFor, StaysSo, Typed
    <3>10. Kept(meets)'
      BY <3>1, <3>2, <3>4, <3>9 DEF Kept, SameContract, Version
    <3> QED BY <3>8, <3>10
  <2> QED BY <2>1, <2>2
<1>3. CASE Keep
  <2>1. base' = base /\ past' = base
    BY <1>3 DEF Keep
  <2>2. CASE base = <<>>
    BY <2>1, <2>2 DEF Climbs, Kept, SameContract
  <2>3. CASE base # <<>>
    <3>1. PICK b : IsOwn(b) /\ base = <<b>>
      BY <2>3 DEF Typed, Own
    <3>2. b.version \in Nat /\ b.draft \in family \cap Definitions
      BY <3>1, MaxVersionAssumption DEF IsOwn
    <3>3. <<b.draft, b.draft>> \in meets
      BY <3>2 DEF SoundFor, StaysSo, Typed
    <3> QED BY <2>1, <3>1, <3>2, <3>3 DEF Climbs, Kept, SameContract
  <2> QED BY <2>2, <2>3
<1> QED BY <1>1, <1>2, <1>3 DEF Next, Edit, Retire, Update, EditByHand, vars

\* A document kept since the contract had its present version fits the schema
\* published now, for any definitions a sound generator and Compare are used on
\* (TestSchemas, TestSchemasAgainstBase).
THEOREM DocumentsStillFit ==
  ASSUME SoundFor(Fits)
  PROVE  Spec => []KeptStillFits
<1>1. Init => Climbs /\ Kept(Fits)
  BY DEF Init, Climbs, Kept, SameContract
<1>2. Typed /\ Typed' /\ Climbs /\ Kept(Fits) /\ [Next]_vars => Climbs' /\ Kept(Fits)'
  BY StepKeeps, SoundFor(Fits)
<1>3. Kept(Fits) => KeptStillFits
  BY DEF Kept, KeptStillFits
<1> QED BY <1>1, <1>2, <1>3, TypedInv, PTL DEF Spec

\* A program written for the contract's present version still reads what is written
\* now, under the same condition.
THEOREM ReadersStillRead ==
  ASSUME SoundFor(Reads)
  PROVE  Spec => []ReaderStillReads
<1>1. Init => Climbs /\ Kept(Reads)
  BY DEF Init, Climbs, Kept, SameContract
<1>2. Typed /\ Typed' /\ Climbs /\ Kept(Reads) /\ [Next]_vars => Climbs' /\ Kept(Reads)'
  BY StepKeeps, SoundFor(Reads)
<1>3. Kept(Reads) => ReaderStillReads
  BY DEF Kept, ReaderStillReads
<1> QED BY <1>1, <1>2, <1>3, TypedInv, PTL DEF Spec
=============================================================================
