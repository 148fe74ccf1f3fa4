------------------------------ MODULE RunStream ------------------------------
(***************************************************************************)
(* jz run --stream (internal/cli/run.go and stream.go): what jz makes of   *)
(* the output StreamRunner hands over, and the status it ends with.  The   *)
(* consumer first reads the head, the lines that decide the format; then   *)
(* it writes records until the output ends or one of them ends it.         *)
(*                                                                         *)
(* Of the output only this matters: whether there was any text in it, and  *)
(* whether jz could choose a format for it and read its records.           *)
(***************************************************************************)
EXTENDS StreamRunner

VARIABLES
  stage, \* stream: "head" until the format is chosen, then "records"
  text,  \* something other than blank lines has been read
  code,  \* what stream returned, "nothing" for exitPrintedNothing
  exit   \* the status of jz: "child" is the command's own, not zero

streamVars == <<stage, text, code, exit>>
runVars == <<vars, streamVars>>

\* Statuses of jz for a failure of its own: of a key or an option asked for, or
\* any other - to read, to parse, to select, to write - which runStream treats
\* alike.
Failures == {"failed", "usage"}

RunInit == Init /\ stage = "head" /\ text = FALSE /\ code = "none" /\ exit = "none"

-----------------------------------------------------------------------------
(* stream, inside consume.                                                 *)

\* A piece of output holds text, or more of the blank lines before it.
Reads ==
  \/ (ReadOwn \/ ReadLate) /\ text' \in {text, TRUE} /\ UNCHANGED <<stage, code, exit>>
  \/ (BeginRead \/ ReadEOF \/ ReadTimesOut \/ ReadEnds) /\ UNCHANGED streamVars

\* convert returns; any status but two is a failure and stops the command.
Converts(c) ==
  /\ ConsumeReturns(IF c \in {"ok", "nothing"} THEN "nil" ELSE "err")
  /\ code' = c
  /\ UNCHANGED <<stage, text, exit>>

\* readHead gives up: a record too long to read, or blank lines past the
\* input limit.
HeadFails ==
  /\ stage = "head"
  /\ Converts("failed")

\* The output ended, and there was nothing in it.
PrintedNothing == stage = "head" /\ reader = "done" /\ ~text /\ Converts("nothing")

\* The lines settle the choice, fill the window, or are all there was.  A
\* consumer that came to the end of the output asks again when it reads
\* the rest.
FormatChosen ==
  /\ stage = "head" /\ text /\ main = "consuming"
  /\ reader \in {"idle", "done"}
  /\ stage' = "records" /\ reader' = "idle"
  /\ UNCHANGED <<childVars, resVars, mainVars, ownRead, feed, waiterVars, text, code, exit>>

\* No format fits, two do, or the one that does lacks a key asked for.
FormatNotChosen ==
  /\ stage = "head" /\ text
  /\ \E c \in Failures : Converts(c)

\* The stream ends before the output: a key the format has not, a record that
\* cannot be read or written, a line input.select.until names.
RecordsEndEarly ==
  /\ stage = "records" /\ reader = "idle"
  /\ \E c \in Failures \union {"ok"} : Converts(c)

\* ... or with it: a key never seen is judged here, and output that was cut
\* is no failure of the stream.
RecordsEnd ==
  /\ stage = "records" /\ reader = "done"
  /\ \E c \in Failures \union {"ok"} : Converts(c)

Consumes == \/ HeadFails \/ PrintedNothing \/ FormatChosen \/ FormatNotChosen
            \/ RecordsEndEarly \/ RecordsEnd

-----------------------------------------------------------------------------
(* runStream, once Stream has returned.                                    *)

Status == IF resExit = "zero" THEN "zero" ELSE "child"

\* emptyFormats: the formats admitted are all lists, or they are not.
EmptyForms == {"zero"} \union Failures

\* Mutants: the failure of the stream wins; a stop is the command's doing.
StreamStatusCodeWins == IF code # "ok" THEN code ELSE Status

StreamStatusBlames == IF code # "ok" /\ resExit = "zero" THEN code ELSE Status

StreamStatus ==
  IF resStopped THEN code
  ELSE IF code # "ok" /\ resExit = "zero" THEN code
  ELSE Status

\* Mutant: a command that printed nothing is asked for its empty form
\* whatever its status.
RunStreamEndsEmpty ==
  /\ main = "returned" /\ exit = "none"
  /\ exit' \in CASE answer = "error" -> {"failed"}
                 [] answer = "result" /\ code = "nothing" -> EmptyForms
                 [] OTHER -> {StreamStatus}
  /\ UNCHANGED <<vars, stage, text, code>>

RunStreamEnds ==
  /\ main = "returned" /\ exit = "none"
  /\ exit' \in CASE answer = "error" -> {"failed"}
                 [] answer = "result" /\ code = "nothing" ->
                      IF resExit # "zero" THEN {"child"} ELSE EmptyForms
                 [] OTHER -> {StreamStatus}
  /\ UNCHANGED <<vars, stage, text, code>>

RunnerSteps ==
  /\ Outside \/ Exec \/ Waiting \/ CannotStart \/ Start \/ Drain \/ StreamReturns
  /\ UNCHANGED streamVars

Finished == exit # "none" /\ UNCHANGED runVars

RunNext == RunnerSteps \/ Reads \/ Consumes \/ RunStreamEnds \/ Finished

RunSpec == RunInit /\ [][RunNext]_runVars

\* The scheduler runs every goroutine that can run, timers fire, a killed
\* process dies, the command prints what it planned, also when another writer
\* may fill the pipe before it, and the conversion deals with each piece it is
\* given and returns at the end of the output.  That the command heeds SIGTERM,
\* that the heir ever lets go or is silent, that the conversion ends early and
\* that a deadline comes are not assumed.
Keeps(A) == A /\ UNCHANGED streamVars
RunFairness ==
  /\ SF_runVars(Keeps(OfExec(ChildWrites))) /\ WF_runVars(Keeps(OfExec(ChildExits)))
  /\ WF_runVars(Keeps(OfExec(KillEndsChild)))
  /\ WF_runVars(Keeps(OfExec(WatchAsks \/ WatchKills)))
  /\ WF_runVars(Keeps(OfExec(WaitReaps \/ WaitHearsWatch \/ WaitReturns \/ WaitGivesUp)))
  /\ WF_runVars(Keeps(heir # "holds" /\ StderrCopied))
  /\ WF_runVars(Keeps(WaiterSetsDeadline \/ WaiterRecords \/ WaiterCloses)) /\ WF_runVars(Keeps(GracePasses))
  /\ WF_runVars(Reads) /\ WF_runVars(reader = "done" /\ Consumes)
  /\ WF_runVars(Keeps(Drain))
  /\ WF_runVars(Keeps(CannotStart \/ Start \/ StreamReturns) \/ RunStreamEnds)

RunFairSpec == RunSpec /\ RunFairness

-----------------------------------------------------------------------------
(* Status zero is given only for a command that ended by itself with       *)
(* status zero, whose output was not cut and whose stream did not fail;    *)
(* when jz answers that there was nothing, there was nothing.              *)
ZeroIsWhole ==
  exit = "zero" =>
    /\ end = "zero" /\ feed # "cut" /\ code \in {"ok", "nothing"}
    /\ code = "nothing" => ownRead = wrote

(* A command that failed by itself, or was ended by a signal while its     *)
(* output was read without failure, is mirrored: its status is jz's, with  *)
(* whatever the stream said on standard error.                             *)
FailureIsMirrored ==
  exit # "none" /\ answer = "result" /\ HasSignals =>
    /\ end = "nonzero" => exit = "child"
    /\ end = "signal" /\ code \in {"ok", "nothing"} => exit = "child"

(* A command jz stopped because its stream had failed is not blamed for    *)
(* it: the failure is the status, although the command shows a signal or,  *)
(* on Windows, a plain failure.                                            *)
StopIsNotBlamed ==
  exit # "none" /\ endedBy = "request" /\ ~timedOut => exit = code
=============================================================================
