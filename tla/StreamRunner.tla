---------------------------- MODULE StreamRunner ----------------------------
(***************************************************************************)
(* runner.Stream (internal/runner/runner.go): jz run --stream reads the    *)
(* command's output while the command is still printing it.  Four          *)
(* goroutines of jz act here: the one that called Stream and is inside     *)
(* consume, the one that waits for the command, the one that drains what   *)
(* the consumer left, and os/exec's own (module ExecChild).                *)
(***************************************************************************)
EXTENDS ExecChild

VARIABLES
  main,       \* Stream itself: "starting", "consuming", "waiting" or "returned"
  reader,     \* the consumer in output.Read: "idle", "reading", "ateof", "attimeout" or "done"
  ownRead,    \* chunks of the command's own output the consumer has been given
  feed,       \* how that output ended for the consumer: "open", "whole" (EOF) or "cut" (ErrCut)
  consumeErr, \* what consume returned: "none", "nil" or "err"
  draining,   \* the drain goroutine has been started
  waiter,     \* the waiting goroutine: "waiting", "timing", "recording" or "closed"
  graceOver,  \* endedAt + grace is in the past
  waitedOK,   \* what res.ended made of waitErr
  resCut, resSignal, resExit, resLeftOpen, resStopped,  \* the fields of Result
  answer      \* what Stream returned: "none", "result" or "error"

resVars  == <<waitedOK, resCut, resSignal, resExit, resLeftOpen, resStopped>>
mainVars == <<main, consumeErr, draining, answer>>
readVars == <<reader, ownRead, feed>>
waiterVars == <<waiter, graceOver>>
vars == <<childVars, resVars, mainVars, readVars, waiterVars>>

TypeOK ==
  /\ ChildTypeOK
  /\ main \in {"starting", "consuming", "waiting", "returned"}
  /\ reader \in {"idle", "reading", "ateof", "attimeout", "done"}
  /\ ownRead \in Nat
  /\ feed \in {"open", "whole", "cut"}
  /\ consumeErr \in {"none", "nil", "err"}
  /\ draining \in BOOLEAN
  /\ waiter \in {"waiting", "timing", "recording", "closed"}
  /\ graceOver \in BOOLEAN
  /\ waitedOK \in BOOLEAN /\ resCut \in BOOLEAN /\ resSignal \in BOOLEAN
  /\ resExit \in {"zero", "nonzero"}
  /\ resLeftOpen \in BOOLEAN /\ resStopped \in BOOLEAN
  /\ answer \in {"none", "result", "error"}

Init ==
  /\ ChildInit
  /\ main = "starting" /\ consumeErr = "none" /\ draining = FALSE /\ answer = "none"
  /\ reader = "idle" /\ ownRead = 0 /\ feed = "open"
  /\ waiter = "waiting" /\ graceOver = FALSE
  /\ waitedOK = FALSE /\ resCut = FALSE /\ resSignal = FALSE /\ resExit = "zero"
  /\ resLeftOpen = FALSE /\ resStopped = FALSE

Waited == waiter = "closed"
Started == main \in {"consuming", "waiting"}

-----------------------------------------------------------------------------
(* Starting.  A name that is not on PATH, a pipe that cannot be made and a *)
(* process that cannot be started end Stream before there is a child.      *)

CannotStart ==
  /\ main = "starting"
  /\ main' = "returned" /\ answer' = "error"
  /\ UNCHANGED <<childVars, resVars, consumeErr, draining, readVars, waiterVars>>

Start ==
  /\ main = "starting"
  /\ main' = "consuming"
  /\ UNCHANGED <<childVars, resVars, consumeErr, draining, answer, readVars, waiterVars>>

-----------------------------------------------------------------------------
(* The goroutine that waits for the command.                               *)

\* c.Wait has returned: endedAt is noted (the grace period already spent
\* when Wait itself waited it out) and the read deadline is set.
WaiterSetsDeadline ==
  /\ waiter = "waiting" /\ waitPc = "returned"
  /\ waiter' = "timing"
  /\ graceOver' = (waitErr = "delay")
  /\ UNCHANGED <<childVars, resVars, mainVars, readVars>>

WaiterRecords ==
  /\ waiter = "timing"
  /\ waiter' = "recording"
  /\ waitedOK' = ended.ok /\ resLeftOpen' = ended.left /\ resExit' = ended.exit
  /\ resSignal' = ended.signal /\ resCut' = ended.cut
  /\ UNCHANGED <<childVars, resStopped, mainVars, readVars, graceOver>>

WaiterCloses ==
  /\ waiter = "recording"
  /\ waiter' = "closed"
  /\ UNCHANGED <<childVars, resVars, mainVars, readVars, graceOver>>

GracePasses ==
  /\ waiter # "waiting" /\ ~graceOver
  /\ graceOver' = TRUE
  /\ UNCHANGED <<childVars, resVars, mainVars, readVars, waiter>>

\* The goroutine of os/exec that copies standard error, where that is no
\* file, ends with the stream; the heir may have let go of it or not.
StderrCopied ==
  /\ copier = "copying" /\ proc # "running"
  /\ copier' = "done"
  /\ UNCHANGED <<procVars, pipeVars, ctxVars, asked, watch, watchErr, waitPc, waitErr,
                 resVars, mainVars, readVars, waiterVars>>

-----------------------------------------------------------------------------
(* output.Read, called by the consumer.                                    *)

\* The deadline is set from the moment the waiter has set it; each Read that
\* finds the command waited for moves it on to settle from now.
\* Mutant: the end of the command puts no bound on a read.
DeadlineNeverSet == FALSE

\* A pipe on Windows takes no deadline.
DeadlineSet == HasSignals /\ waiter # "waiting"

BeginRead ==
  /\ main = "consuming" /\ reader = "idle"
  /\ reader' = "reading"
  /\ UNCHANGED <<childVars, resVars, mainVars, ownRead, feed, waiterVars>>

\* Bytes, whoever wrote them.
ReadOwn ==
  /\ reader = "reading" /\ piped > 0
  /\ piped' = piped - 1 /\ ownRead' = ownRead + 1 /\ reader' = "idle"
  /\ UNCHANGED <<procVars, wrote, heir, spent, late, ctxVars, execVars, resVars, mainVars, feed, waiterVars>>

ReadLate ==
  /\ reader = "reading" /\ late > 0
  /\ late' = late - 1 /\ reader' = "idle"
  /\ UNCHANGED <<procVars, wrote, piped, heir, spent, ctxVars, execVars, resVars, mainVars, ownRead, feed, waiterVars>>

\* Mutant: the pipe is the one Wait closes.
ReadEOFClosedByWait ==
  /\ reader = "reading" /\ waitPc = "returned"
  /\ reader' = "ateof"
  /\ UNCHANGED <<childVars, resVars, mainVars, ownRead, feed, waiterVars>>

ReadEOF ==
  /\ reader = "reading" /\ InPipe = 0 /\ ~WriterLeft
  /\ reader' = "ateof"
  /\ UNCHANGED <<childVars, resVars, mainVars, ownRead, feed, waiterVars>>

\* Mutant: the deadline is not moved on for a consumer that is slow.
ReadTimesOutEarly ==
  /\ reader = "reading" /\ WriterLeft
  /\ DeadlineSet /\ graceOver
  /\ reader' = "attimeout"
  /\ UNCHANGED <<childVars, resVars, mainVars, ownRead, feed, waiterVars>>

\* os.ErrDeadlineExceeded.  A read that has bytes in the pipe is over long
\* before the settle period is (the timing assumption of the model); one that
\* waits may be given late bytes or time out, so the heir may be quick or slow.
ReadTimesOut ==
  /\ reader = "reading" /\ InPipe = 0 /\ WriterLeft
  /\ DeadlineSet /\ graceOver
  /\ reader' = "attimeout"
  /\ UNCHANGED <<childVars, resVars, mainVars, ownRead, feed, waiterVars>>

\* Mutant: the end of the pipe is taken at its word.
EndOfOutputAtOnce(left) ==
  /\ resLeftOpen' = (resLeftOpen \/ left)
  /\ feed' = IF resCut THEN "cut" ELSE "whole"
  /\ reader' = "done"
  /\ UNCHANGED <<childVars, waitedOK, resCut, resSignal, resExit, resStopped, mainVars, ownRead, waiterVars>>

\* <-o.waited, twice: what the end of the output means depends on how the
\* command ended.
EndOfOutput(left) ==
  /\ Waited
  /\ resLeftOpen' = (resLeftOpen \/ left)
  /\ feed' = IF resCut THEN "cut" ELSE "whole"
  /\ reader' = "done"
  /\ UNCHANGED <<childVars, waitedOK, resCut, resSignal, resExit, resStopped, mainVars, ownRead, waiterVars>>

ReadEnds == \/ reader = "ateof" /\ EndOfOutput(FALSE)
            \/ reader = "attimeout" /\ EndOfOutput(TRUE)

-----------------------------------------------------------------------------
(* The goroutine that called Stream.                                       *)

\* Mutant: a consumer that failed leaves the command running.
ConsumeReturnsOnly(err) ==
  /\ main = "consuming" /\ reader \in {"idle", "done"}
  /\ main' = "waiting" /\ consumeErr' = err /\ draining' = TRUE
  /\ reader' = "done"
  /\ UNCHANGED <<childVars, resVars, answer, ownRead, feed, waiterVars>>

\* Mutant: what the consumer left stays in the pipe.
ConsumeReturnsUndrained(err) ==
  /\ main = "consuming" /\ reader \in {"idle", "done"}
  /\ main' = "waiting" /\ consumeErr' = err
  /\ reader' = "done"
  /\ cancelled' = (cancelled \/ err = "err")
  /\ UNCHANGED <<procVars, pipeVars, timedOut, execVars, resVars, draining, answer, ownRead, feed, waiterVars>>

\* consume returns, at the end of the output or before it.  An error stops
\* the command; either way the rest is drained.
ConsumeReturns(err) ==
  /\ main = "consuming" /\ reader \in {"idle", "done"}
  /\ main' = "waiting" /\ consumeErr' = err /\ draining' = TRUE
  /\ reader' = "done"
  /\ cancelled' = (cancelled \/ err = "err")
  /\ UNCHANGED <<procVars, pipeVars, timedOut, execVars, resVars, answer, ownRead, feed, waiterVars>>

ConsumerReturns == \E err \in {"nil", "err"} : ConsumeReturns(err)

\* Mutant: the drain counts the heir's output as the command's.
DrainMiscounts ==
  /\ draining /\ main = "waiting" /\ InPipe > 0
  /\ piped' = piped - 1
  /\ UNCHANGED <<procVars, wrote, heir, spent, late, ctxVars, execVars, resVars, mainVars, readVars, waiterVars>>

Drain ==
  /\ draining /\ main = "waiting"
  /\ \/ piped > 0 /\ piped' = piped - 1 /\ UNCHANGED late
     \/ late > 0 /\ late' = late - 1 /\ UNCHANGED piped
  /\ UNCHANGED <<procVars, wrote, heir, spent, ctxVars, execVars, resVars, mainVars, readVars, waiterVars>>

\* Mutant: any command that failed under a failed consumer was stopped.
StreamReturnsStopped ==
  /\ main = "waiting" /\ Waited
  /\ main' = "returned" /\ cancelled' = TRUE
  /\ answer' = IF ~waitedOK /\ consumeErr = "nil" THEN "error" ELSE "result"
  /\ resStopped' = (waitedOK /\ waitErr # "nil" /\ consumeErr = "err" /\ ~timedOut)
  /\ UNCHANGED <<procVars, pipeVars, timedOut, execVars, waitedOK, resCut, resSignal, resExit,
                 resLeftOpen, consumeErr, draining, readVars, waiterVars>>

\* <-waited, and the result.  The deferred stop and Close come with it.
StreamReturns ==
  /\ main = "waiting" /\ Waited
  /\ main' = "returned" /\ cancelled' = TRUE
  /\ answer' = IF ~waitedOK /\ consumeErr = "nil" THEN "error" ELSE "result"
  /\ resStopped' = ( /\ waitedOK /\ waitErr # "nil" /\ consumeErr = "err"
                     /\ ~timedOut /\ (resSignal \/ ~HasSignals) )
  /\ UNCHANGED <<procVars, pipeVars, timedOut, execVars, waitedOK, resCut, resSignal, resExit,
                 resLeftOpen, consumeErr, draining, readVars, waiterVars>>

-----------------------------------------------------------------------------

OwnVars == <<resVars, mainVars, readVars, waiterVars>>
OfExec(A) == Started /\ A /\ UNCHANGED OwnVars

Outside == OfExec(ChildEnv \/ DeadlinePasses)
Exec    == OfExec(ChildSystem \/ WaitGivesUp)
Waiting == Started /\ (WaiterSetsDeadline \/ WaiterRecords \/ WaiterCloses \/ GracePasses \/ StderrCopied)
Reading == BeginRead \/ ReadOwn \/ ReadLate \/ ReadEOF \/ ReadTimesOut \/ ReadEnds
Calling == CannotStart \/ Start \/ ConsumerReturns \/ Drain \/ StreamReturns

\* Nothing is left to do: Stream has returned.
Returned == main = "returned" /\ UNCHANGED vars

Next == Outside \/ Exec \/ Waiting \/ Reading \/ Calling \/ Returned

Spec == Init /\ [][Next]_vars


-----------------------------------------------------------------------------
(* What the command printed reaches the consumer before the output ends:   *)
(* neither the deadline on the pipe nor a command that ends while its      *)
(* output is still unread may drop any of it (output.Read).                *)
NothingLost == feed # "open" => ownRead = wrote

(* Output that ends as a whole is output the command finished: the end of  *)
(* the pipe says so only once the way the command ended is known, although *)
(* the pipe closes before the command has been waited for.                 *)
EndIsHonest == feed = "whole" => endedBy = "self"

(* A command that ended by itself keeps its status and its output is not   *)
(* called cut, whatever signal was under way and however the consumer      *)
(* came to stop (ended, and the Stopped rule of stream).                   *)
StatusKept ==
  HasSignals /\ answer = "result" /\ waitedOK /\ endedBy = "self" =>
    resExit = end /\ ~resStopped /\ ~resCut

(* The consumer sees an output that OutputFeed allows.                     *)
Feed == INSTANCE OutputFeed WITH
  Certain <- HasSignals, printed <- wrote, given <- ownRead, verdict <- feed,
  fate <- IF proc = "running" THEN "running" ELSE IF endedBy = "self" THEN "self" ELSE "ended"

ImplementsFeed == Feed!Spec

(* Once the command has ended Stream returns, although a process it left   *)
(* behind never lets go of the output - unless that process goes on        *)
(* printing, without end, to a consumer that reads on.  The comment at     *)
(* runner.go:279-283 has the output end there too, after one grace period; *)
(* but each Read sets the deadline to settle from then (runner.go:310),    *)
(* and bytes that come in time put off the end once more.                  *)
HeirGoesOn == []<><<main = "consuming" /\ late' = late + 1>>_late

ReturnsOnceEnded == <>(proc # "running") => <>(main = "returned") \/ HeirGoesOn

(* A consumer that fails stops the command, however deaf that is to        *)
(* SIGTERM and however full its pipe.                                      *)
FailureStopsCommand == consumeErr = "err" ~> main = "returned" /\ proc = "reaped"

(* A consumer that has seen enough leaves the command to finish: what it   *)
(* prints from then on is drained, so it cannot block on a full pipe.      *)
EarlyEndDrains == consumeErr = "nil" /\ plan.ends ~> main = "returned"

=============================================================================
