---------------------------- MODULE RunCollected ----------------------------
(***************************************************************************)
(* jz run without --stream (internal/cli/run.go): what readRun and         *)
(* runReading make of the result CollectRunner returns.  One document is   *)
(* written or none, and jz ends with the command's status or its own.      *)
(***************************************************************************)
EXTENDS CollectRunner

VARIABLES
  chooses,  \* jz chooses the parser (readRun); FALSE: it was given (runReading)
  blank,    \* the chunks hold nothing but white space
  document, \* written to standard output: "none", "empty" (an empty list) or "output"
  exit      \* the status of jz: "child" is the command's own, not zero

readVars == <<chooses, blank, document, exit>>
runVars == <<vars, readVars>>

Failures == {"error", "usage", "parse", "select", "closed"}

RunInit == Init /\ chooses \in BOOLEAN /\ blank \in BOOLEAN /\ document = "none" /\ exit = "none"

MayRead == main = "returned" /\ exit = "none"

\* blank(res.Stdout); an output without a chunk is.
Blank == blank \/ kept + keptLate = 0

Finishes(doc, status) ==
  /\ document' = doc /\ exit' = status
  /\ UNCHANGED <<vars, chooses, blank>>

Child == IF res.exit = "zero" THEN "zero" ELSE "child"
OrChild(failure) == IF res.exit = "zero" THEN failure ELSE "child"

-----------------------------------------------------------------------------

\* runChild: there is no result to read.
NotRun ==
  /\ MayRead /\ answer \in {"toolarge", "error"}
  /\ Finishes("none", IF answer = "toolarge" THEN "parse" ELSE "error")

HasResult == MayRead /\ answer = "result"

\* Output that was cut is not read.
CutShort == HasResult /\ res.cut /\ Finishes("none", Child)

\* Mutant: output that was cut is read like any other.
ReadableAnyhow == HasResult

Readable == HasResult /\ ~res.cut

\* A command that failed without output keeps its status; one that
\* succeeded is answered by emptyResult, or by a reading that was given.
PrintedNothing ==
  /\ chooses /\ Readable /\ Blank
  /\ IF res.exit # "zero" THEN Finishes("none", "child")
     ELSE \/ Finishes("empty", "zero")
          \/ \E c \in Failures \ {"parse"} : Finishes("none", c)

\* Mutant: the failure to read wins over the command's.
ReadsOutputFails ==
  /\ chooses /\ Readable /\ ~Blank
  /\ \/ Finishes("output", Child)
     \/ \E c \in Failures : Finishes("none", c)

\* Select, ParseAccounted and writeDocument; the first to fail is reported,
\* and a command that had failed keeps its status all the same.
ReadsOutput ==
  /\ chooses /\ Readable /\ ~Blank
  /\ \/ Finishes("output", Child)
     \/ \E c \in Failures : Finishes("none", OrChild(c))

\* runReading: the reader is asked even for blank output, unless the
\* command failed; its own answer to that is not known here.
ReadsAsGiven ==
  /\ ~chooses /\ Readable
  /\ IF res.exit # "zero" /\ Blank THEN Finishes("none", "child")
     ELSE \/ Finishes(IF Blank THEN "empty" ELSE "output", Child)
          \/ \E c \in Failures \ {"select"} : Finishes("none", OrChild(c))

RunReads == NotRun \/ CutShort \/ PrintedNothing \/ ReadsOutput \/ ReadsAsGiven

Finished == exit # "none" /\ UNCHANGED runVars

RunNext == ((Next /\ main # "returned") /\ UNCHANGED readVars) \/ RunReads \/ Finished

RunSpec == RunInit /\ [][RunNext]_runVars

RunFairSpec == RunSpec /\ Fairness

-----------------------------------------------------------------------------
(* A document is written only of output the command ended by itself, an    *)
(* empty one that jz chose the parser for only of a command that succeeded *)
(* too, and unless the deadline had passed it is a document of the whole   *)
(* of it; status zero always comes with one (readRun, cutShort).           *)
DocumentIsWhole ==
  /\ document # "none" => endedBy = "self" /\ (cause = "none" => kept = wrote)
  /\ chooses /\ document = "empty" => end = "zero"
  /\ exit = "zero" => document # "none" /\ end = "zero"

(* A command that failed is mirrored, whatever became of its output.       *)
FailureIsMirrored ==
  exit # "none" /\ answer = "result" /\ end # "zero" => exit = "child"
=============================================================================
