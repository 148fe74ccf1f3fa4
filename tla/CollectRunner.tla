---------------------------- MODULE CollectRunner ----------------------------
(***************************************************************************)
(* runner.Run (internal/runner/runner.go): jz run collects the whole of    *)
(* the command's output, up to a limit, before anything reads it.  The     *)
(* output goes through os/exec's copying goroutine into a limitedBuffer,   *)
(* which cancels the run once there is too much; the deadline of the run   *)
(* cancels the same context, and the first cause stands.                   *)
(***************************************************************************)
EXTENDS ExecChild

CONSTANT Limit  \* Command.MaxOutput, in chunks

ASSUME CollectAssumption ==
  /\ Limit \in Nat /\ Copied
  /\ Chatty => LateWrites > Limit

VARIABLES
  main,     \* run itself: "starting", "waiting" or "returned"
  kept,     \* chunks of the command's output in the buffer
  keptLate, \* chunks of the heir's
  over,     \* limitedBuffer.over
  cause,    \* context.Cause(runCtx): "none", "deadline" or "toolarge"
  answer,   \* what run returned: "none", "result", "toolarge" or "error"
  res       \* the Result it returned with

bufVars == <<kept, keptLate, over>>
vars == <<childVars, main, bufVars, cause, answer, res>>

NoResult == [left |-> FALSE, exit |-> "zero", signal |-> FALSE, cut |-> FALSE]

Init ==
  /\ ChildInit
  /\ main = "starting" /\ answer = "none" /\ res = NoResult
  /\ kept = 0 /\ keptLate = 0 /\ over = FALSE /\ cause = "none"

Started == main = "waiting"

-----------------------------------------------------------------------------

CannotStart ==
  /\ main = "starting"
  /\ main' = "returned" /\ answer' = "error"
  /\ UNCHANGED <<childVars, bufVars, cause, res>>

Start ==
  /\ main = "starting" /\ main' = "waiting"
  /\ UNCHANGED <<childVars, bufVars, cause, answer, res>>

\* The deadline is the parent's: it is the cause unless the limit was first.
DeadlineCancels ==
  /\ Started /\ DeadlinePasses
  /\ cause' = IF cause = "none" THEN "deadline" ELSE cause
  /\ UNCHANGED <<main, bufVars, answer, res>>

-----------------------------------------------------------------------------
(* limitedBuffer.Write, one chunk at a time, on the copying goroutine.     *)

\* Mutant: one chunk too many is let in.
TooMuchByOne == kept + keptLate > Limit

\* From the first chunk too many on, everything is thrown away.
TooMuch == kept + keptLate + 1 > Limit

\* Mutant: the limit is noted and the command left to run.
WriteUncancelled ==
  /\ over' = (over \/ TooMuch)
  /\ cause' = IF over' /\ cause = "none" THEN "toolarge" ELSE cause
  /\ UNCHANGED cancelled

Write ==
  /\ over' = (over \/ TooMuch)
  /\ cancelled' = (cancelled \/ over')
  /\ cause' = IF over' /\ cause = "none" THEN "toolarge" ELSE cause

CopyOwn ==
  /\ Started /\ copier = "copying" /\ piped > 0
  /\ piped' = piped - 1
  /\ Write
  /\ kept' = IF over' THEN kept ELSE kept + 1
  /\ UNCHANGED <<procVars, wrote, heir, spent, late, timedOut, execVars, main, keptLate, answer, res>>

\* Mutant: the heir's output is taken for the command's.
CopyLateMiscounts ==
  /\ Started /\ copier = "copying" /\ late > 0
  /\ piped' = piped - 1
  /\ Write
  /\ keptLate' = IF over' THEN keptLate ELSE keptLate + 1
  /\ UNCHANGED <<procVars, wrote, late, heir, spent, timedOut, execVars, main, kept, answer, res>>

CopyLate ==
  /\ Started /\ copier = "copying" /\ late > 0
  /\ late' = late - 1
  /\ Write
  /\ keptLate' = IF over' THEN keptLate ELSE keptLate + 1
  /\ UNCHANGED <<procVars, wrote, piped, heir, spent, timedOut, execVars, main, kept, answer, res>>

\* Mutant: the copy ends with the command.
CopyEndsWithCommand ==
  /\ Started /\ copier = "copying" /\ proc # "running"
  /\ copier' = "done"
  /\ UNCHANGED <<procVars, pipeVars, ctxVars, asked, watch, watchErr, waitPc, waitErr,
                 main, bufVars, cause, answer, res>>

CopyEnds ==
  /\ Started /\ copier = "copying" /\ InPipe = 0 /\ ~WriterLeft
  /\ copier' = "done"
  /\ UNCHANGED <<procVars, pipeVars, ctxVars, asked, watch, watchErr, waitPc, waitErr,
                 main, bufVars, cause, answer, res>>

-----------------------------------------------------------------------------

\* Wait has returned.  The limit is looked at before how the command ended.
RunReturns ==
  /\ Started /\ waitPc = "returned"
  /\ main' = "returned"
  /\ answer' = IF cause = "toolarge" THEN "toolarge"
               ELSE IF ended.ok THEN "result" ELSE "error"
  /\ res' = IF answer' = "result"
            THEN [left |-> ended.left, exit |-> ended.exit, signal |-> ended.signal, cut |-> ended.cut]
            ELSE res
  /\ UNCHANGED <<childVars, bufVars, cause>>

\* The grace period is long enough to copy what one pipe holds: what
\* os/exec gives up on is the heir, not the command's own last words.
GivesUp == WaitGivesUp /\ piped = 0

OfExec(A) == Started /\ A /\ UNCHANGED <<main, bufVars, cause, answer, res>>

Outside == OfExec(ChildEnv)
Exec    == OfExec(ChildSystem \/ GivesUp)
Copying == CopyOwn \/ CopyLate \/ CopyEnds
Calling == CannotStart \/ Start \/ RunReturns

Returned == main = "returned" /\ UNCHANGED vars

Next == Outside \/ DeadlineCancels \/ Exec \/ Copying \/ Calling \/ Returned

Spec == Init /\ [][Next]_vars

\* As for StreamRunner: goroutines that can run do, timers fire, a killed
\* process dies.  Nothing is assumed of the command or its heir.
Fairness ==
  /\ WF_vars(OfExec(KillEndsChild)) /\ WF_vars(OfExec(WatchAsks)) /\ WF_vars(OfExec(WatchKills))
  /\ WF_vars(OfExec(WaitReaps)) /\ WF_vars(OfExec(WaitHearsWatch))
  /\ WF_vars(OfExec(WaitReturns)) /\ WF_vars(OfExec(GivesUp))
  /\ WF_vars(Copying) /\ WF_vars(RunReturns)

FairSpec == Spec /\ Fairness

-----------------------------------------------------------------------------
(* A run nothing cut short returns everything the command printed, and a   *)
(* process that outlives the command costs it none of its own output:      *)
(* collected output passes to the parsers as the whole of it (run, ended). *)
KeptWhole == answer = "result" /\ cause = "none" /\ ~res.cut => kept = wrote

(* The limit is exact: the buffer never holds more, and the run fails for  *)
(* it only if more was in fact printed (limitedBuffer.Write).              *)
LimitIsExact ==
  /\ kept + keptLate <= Limit
  /\ answer = "toolarge" => wrote + spent > Limit

(* The deadline and the limit both end the run, whatever the command and   *)
(* what it leaves behind do from there; and a command that ended is        *)
(* returned from after the grace period at the latest, however long a      *)
(* process it left keeps its output open or writes (limited, WaitDelay).   *)
ReturnsInTime == over \/ timedOut \/ proc # "running" ~> main = "returned"

-----------------------------------------------------------------------------
(* Where the program and its documentation part ways.                      *)

(* "ErrOutputTooLarge is returned when stdout exceeds the limit."          *)
TooLargeIsReported == answer = "result" => ~over
=============================================================================
