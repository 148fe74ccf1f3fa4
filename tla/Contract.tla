----------------------------- MODULE Contract ------------------------------
(***************************************************************************)
(* The output contract of one definition over its life                     *)
(* (internal/schema/published.go and the two tests of registry/ that hold  *)
(* a change to it).                                                        *)
(*                                                                         *)
(* A branch changes a definition, writes its schema again, by the update   *)
(* that refuses a break nobody acknowledged or by hand, and is merged when *)
(* both tests pass.  What was merged last is what documents are written    *)
(* by and what programs are written against.                               *)
(***************************************************************************)
EXTENDS Naturals

CONSTANTS
  Families,       \* sets of drafts: the forms one definition may be given over time
  Definitions,    \* the drafts that load: another is refused before anything is made of it
  Same,           \* the pairs of them the same schema is generated for
  Breaks,         \* the pairs whose schemas Compare finds a breaking change between
  Fits,           \* the pairs where every document of the first fits the schema of the second
  Reads,          \* the pairs where a program written against the schema of the first reads
                  \* what the second produces
  MaxVersion      \* bound on the contract version

ASSUME MaxVersionAssumption == MaxVersion \in Nat \ {0}
ASSUME PairsAssumption ==
  /\ Same \subseteq Definitions \X Definitions
  /\ Breaks \subseteq Definitions \X Definitions
  /\ Fits \subseteq Definitions \X Definitions
  /\ Reads \subseteq Definitions \X Definitions

\* A published schema is the one generated for some draft, with a contract version;
\* two drafts may have the same.
Schema == [draft : Definitions, version : 1..MaxVersion]

VARIABLES
  family,       \* the forms this definition may take
  def,          \* the definition on the branch: none, or a draft
  head,         \* the schema file on the branch
  retired,      \* whether the branch lists the definition as retired
  base,         \* the definition merged last, with the version of its schema
  past          \* what was merged once, of which documents are kept and programs are
                \* still in use

vars == <<family, def, head, retired, base, past>>
branch == <<def, head, retired>>

Init ==
  /\ family \in Families
  /\ def = <<>> /\ head = <<>> /\ retired = FALSE
  /\ base = <<>>
  /\ past = <<>>

\* Mutant: what was never published is version 0.
VersionFromNone(published) == IF published = <<>> THEN 0 ELSE published[1].version

Version(published) == IF published = <<>> THEN 1 ELSE published[1].version

\* What to publish for d: none when the change breaks a reader and is not meant.
NextSchema(d, published, breakOK) ==
  LET breaking == published # <<>> /\ <<published[1].draft, d>> \in Breaks
  IN  IF ~breaking THEN <<[draft |-> d, version |-> Version(published)]>>
      ELSE IF breakOK THEN <<[draft |-> d, version |-> Version(published) + 1]>>
      ELSE <<>>

Edit ==
  /\ \/ \E d \in family \cap Definitions : def' = <<d>>
     \/ def' = <<>>
  /\ def' # def
  /\ UNCHANGED <<family, head, retired, base, past>>

Retire ==
  /\ retired' = ~retired
  /\ UNCHANGED <<family, def, head, base, past>>

\* make registry-update-schema: a schema no definition has any more is deleted.
Update(breakOK) ==
  /\ IF def = <<>> THEN head' = <<>>
     ELSE /\ NextSchema(def[1], head, breakOK) # <<>>
          /\ head' = NextSchema(def[1], head, breakOK)
          /\ head'[1].version =< MaxVersion
  /\ head' # head
  /\ UNCHANGED <<family, def, retired, base, past>>

\* The file is edited by hand to say what the definition produces, under any version.
EditByHand(version) ==
  /\ def # <<>>
  /\ head' = <<[draft |-> def[1], version |-> version]>>
  /\ head' # head
  /\ UNCHANGED <<family, def, retired, base, past>>

\* TestSchemas: the file is what would be written now, and nothing that exists is
\* listed as retired.
TestSchemas ==
  IF def = <<>> THEN head = <<>>
  ELSE /\ head # <<>>
       /\ NextSchema(def[1], head, FALSE) # <<>>
       /\ <<def[1], head[1].draft>> \in Same
       /\ ~retired

\* Mutant: a break may keep the version.
AgainstBaseLoose ==
  base # <<>> => IF head = <<>> THEN retired ELSE Version(head) >= Version(base)

\* TestSchemasAgainstBase: no problem found.
AgainstBase ==
  base # <<>> =>
    IF head = <<>> THEN retired
    ELSE IF <<base[1].draft, head[1].draft>> \notin Breaks
         THEN Version(head) >= Version(base)
         ELSE Version(head) > Version(base)

\* A definition merged away ends its contract: one of that name later begins
\* another, at version 1 again.
Merge ==
  /\ TestSchemas
  /\ AgainstBase
  /\ base' = IF def = <<>> THEN <<>> ELSE <<[draft |-> def[1], version |-> head[1].version]>>
  /\ base' # base
  /\ past' = IF head = <<>> THEN <<>> ELSE past
  /\ UNCHANGED family /\ UNCHANGED branch

\* Documents are written and kept, and a program is written that reads them.
Keep ==
  /\ base # past
  /\ past' = base
  /\ UNCHANGED <<family, base>> /\ UNCHANGED branch

Next ==
  \/ Edit
  \/ Retire
  \/ \E breakOK \in BOOLEAN : Update(breakOK)
  \/ \E version \in 1..MaxVersion : EditByHand(version)
  \/ Merge
  \/ Keep

Spec == Init /\ [][Next]_vars

----------------------------------------------------------------------------

\* One schema at most of each kind, and never one for a draft that does not load
\* (NextSchema, AgainstBase).
TypeOK ==
  /\ family \in Families
  /\ def \in {<<>>} \cup {<<d>> : d \in family \cap Definitions}
  /\ \A published \in {head, base, past} : published \in {<<>>} \cup {<<s>> : s \in Schema}
  /\ retired \in BOOLEAN

SameContract == past # <<>> /\ base # <<>> /\ Version(past) = Version(base)

\* What the generator says of a draft is so of its own documents and readers; what
\* has the same schema, or one Compare finds no break to, keeps it so.
StaysSo(meets, d, e, f) ==
  /\ <<d, d>> \in meets
  /\ <<d, e>> \in meets /\ <<e, f>> \notin Breaks => <<d, f>> \in meets
  /\ <<d, e>> \in meets /\ <<f, e>> \in Same => <<d, f>> \in meets
SoundFor(meets) == \A forms \in Families : \A d, e, f \in forms \cap Definitions : StaysSo(meets, d, e, f)

\* Whatever was kept, whatever is published and whatever the definition becomes next,
\* at any version: the two halves the tests of a change rely on (compat.go:60-68).
CompareIsSound ==
  past # <<>> /\ base # <<>> /\ def # <<>> =>
    /\ StaysSo(Fits, past[1].draft, base[1].draft, def[1])
    /\ StaysSo(Reads, past[1].draft, base[1].draft, def[1])

\* Every document kept from when the contract had its present version still fits the
\* schema published now (compat.go:64-66, "a document the old version produced,
\* kept and validated later against the new schema, must still fit"), which takes
\* the generator to say what the engine does and each merge since to have broken
\* nothing.
KeptStillFits == SameContract => <<past[1].draft, base[1].draft>> \in Fits

\* A program written when the contract had its present version meets nothing it has
\* no case for in what is written now, and every key it reads may still come
\* (compat.go:62-64, "a program that consumes the output must not meet a key
\* removed, a type it does not handle, a key it relied on gone missing, or a value
\* it has no case for").
ReaderStillReads == SameContract => <<past[1].draft, base[1].draft>> \in Reads
=============================================================================
