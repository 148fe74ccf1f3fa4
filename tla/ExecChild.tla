------------------------------ MODULE ExecChild ------------------------------
(***************************************************************************)
(* The command jz run starts, as os/exec and the kernel present it to      *)
(* internal/runner: the child process, the pipe it prints into, a process  *)
(* it may leave behind holding that pipe open, and the two goroutines of   *)
(* os/exec that watch the context and wait for the child.  StreamRunner    *)
(* and CollectRunner extend this module with what jz does about it.        *)
(*                                                                         *)
(* Output is counted in chunks.  Of a chunk only its writer matters: the   *)
(* command itself, or the process it left behind ("the heir").             *)
(***************************************************************************)
EXTENDS Naturals

CONSTANTS MaxWrites,   \* most chunks the command prints
          PipeCap,     \* chunks the pipe holds before a writer blocks
          LateWrites,  \* chunks of the heir's that are counted
          Chatty,      \* whether the heir may print more than those, without end
          HasSignals,  \* hasSignals: FALSE is the Windows build
          Copied       \* whether os/exec copies a stream in a goroutine

ASSUME ChildAssumption ==
  /\ MaxWrites \in Nat
  /\ PipeCap \in Nat \ {0}
  /\ LateWrites \in Nat
  /\ Chatty \in BOOLEAN /\ HasSignals \in BOOLEAN /\ Copied \in BOOLEAN

VARIABLES
  plan,      \* what the command does if let alone: chunks printed, and whether it ends
  proc,      \* "running", "zombie" (ended, not waited for) or "reaped"
  end,       \* how it ended: "none", "zero", "nonzero" or "signal"
  endedBy,   \* "none", "self", "outsider" (a signal jz did not ask for) or "request"
  asked,     \* what os/exec has sent it: a subset of {"term", "kill"}
  wrote,     \* chunks the command has printed
  piped,     \* those still in the pipe
  heir,      \* the process left behind: "none", "holds" or "gone"
  spent,     \* chunks the heir has printed, LateWrites for that many or more
  late,      \* those still in the pipe
  timedOut,  \* ctx.Err() # nil: the --timeout of the run has passed
  cancelled, \* runCtx was cancelled by the runner itself
  watch,     \* exec's watchCtx goroutine: "watching", "asked", "killed" or "handed"
  watchErr,  \* what it hands to Wait: "nil" or "ctx"
  copier,    \* exec's copying goroutine: "none", "copying" or "done"
  waitPc,    \* exec's Wait: "process", "watch", "copiers" or "returned"
  waitErr    \* what Wait returns: "nil", "exit", "ctx" or "delay"

procVars == <<plan, proc, end, endedBy>>
pipeVars == <<wrote, piped, heir, spent, late>>
ctxVars  == <<timedOut, cancelled>>
execVars == <<asked, watch, watchErr, copier, waitPc, waitErr>>
childVars == <<procVars, pipeVars, ctxVars, execVars>>

ChildTypeOK ==
  /\ plan \in [chunks : 0..MaxWrites, ends : BOOLEAN]
  /\ proc \in {"running", "zombie", "reaped"}
  /\ end \in {"none", "zero", "nonzero", "signal"}
  /\ endedBy \in {"none", "self", "outsider", "request"}
  /\ asked \subseteq {"term", "kill"}
  /\ wrote \in Nat /\ piped \in Nat /\ spent \in Nat /\ late \in Nat
  /\ heir \in {"none", "holds", "gone"}
  /\ timedOut \in BOOLEAN /\ cancelled \in BOOLEAN
  /\ watch \in {"watching", "asked", "killed", "handed"}
  /\ watchErr \in {"nil", "ctx"}
  /\ copier \in {"none", "copying", "done"}
  /\ waitPc \in {"process", "watch", "copiers", "returned"}
  /\ waitErr \in {"nil", "exit", "ctx", "delay"}

ChildInit ==
  /\ plan \in [chunks : 0..MaxWrites, ends : BOOLEAN]
  /\ proc = "running" /\ end = "none" /\ endedBy = "none" /\ asked = {}
  /\ wrote = 0 /\ piped = 0 /\ heir = "none" /\ spent = 0 /\ late = 0
  /\ timedOut = FALSE /\ cancelled = FALSE
  /\ watch = "watching" /\ watchErr = "nil"
  /\ copier = IF Copied THEN "copying" ELSE "none"
  /\ waitPc = "process" /\ waitErr = "nil"

InPipe == piped + late
RoomInPipe == InPipe < PipeCap
WriterLeft == proc = "running" \/ heir = "holds"
RunCtxDone == timedOut \/ cancelled

-----------------------------------------------------------------------------
(* The command.  It prints what it planned, blocking on a full pipe, and   *)
(* then ends if that is its plan; signals end it at any point.             *)

ChildWrites ==
  /\ proc = "running" /\ wrote < plan.chunks /\ RoomInPipe
  /\ wrote' = wrote + 1 /\ piped' = piped + 1
  /\ UNCHANGED <<procVars, heir, spent, late, ctxVars, execVars>>

ChildLeavesHeir ==
  /\ proc = "running" /\ heir = "none"
  /\ heir' = "holds"
  /\ UNCHANGED <<procVars, wrote, piped, spent, late, ctxVars, execVars>>

Ends(how, by) ==
  /\ proc = "running"
  /\ proc' = "zombie" /\ end' = how /\ endedBy' = by
  /\ UNCHANGED <<plan, pipeVars, ctxVars, execVars>>

ChildExits ==
  /\ plan.ends /\ wrote = plan.chunks
  /\ \E how \in {"zero", "nonzero"} : Ends(how, "self")

\* A signal jz did not ask for: the command's own fault, another process,
\* or one jz relayed from its own user.
ChildDies == HasSignals /\ Ends("signal", "outsider")

\* A command may handle SIGTERM, tidy up and exit with a status of its own;
\* one that ignores it simply goes on.
ChildHandlesTerm ==
  /\ "term" \in asked
  /\ \E how \in {"zero", "nonzero"} : Ends(how, "self")

TermEndsChild == "term" \in asked /\ Ends("signal", "request")

\* TerminateProcess shows as a plain non-zero status.
KillEndsChild ==
  /\ "kill" \in asked
  /\ Ends(IF HasSignals THEN "signal" ELSE "nonzero", "request")

HeirWrites ==
  /\ heir = "holds" /\ RoomInPipe
  /\ Chatty \/ spent < LateWrites
  /\ late' = late + 1
  /\ spent' = IF spent < LateWrites THEN spent + 1 ELSE spent
  /\ UNCHANGED <<procVars, wrote, piped, heir, ctxVars, execVars>>

HeirCloses ==
  /\ heir = "holds" /\ heir' = "gone"
  /\ UNCHANGED <<procVars, wrote, piped, spent, late, ctxVars, execVars>>

DeadlinePasses ==
  /\ ~timedOut /\ timedOut' = TRUE
  /\ UNCHANGED <<procVars, pipeVars, cancelled, execVars>>

-----------------------------------------------------------------------------
(* os/exec, as child() configures it: Cancel = terminate, WaitDelay = grace. *)

\* runCtx is done: Cancel asks the child to go.  A child already waited for
\* is os.ErrProcessDone, which leaves no error behind.
WatchAsks ==
  /\ watch = "watching" /\ RunCtxDone
  /\ watch' = "asked"
  /\ IF proc = "reaped"
     THEN UNCHANGED <<asked, watchErr>>
     ELSE /\ asked' = asked \union {IF HasSignals THEN "term" ELSE "kill"}
          /\ watchErr' = "ctx"
  /\ UNCHANGED <<procVars, pipeVars, ctxVars, copier, waitPc, waitErr>>

\* WaitDelay after Cancel, the child is still there: it is killed, and the
\* copying goroutine is cut off from whoever else holds its pipe.
WatchKills ==
  /\ watch = "asked" /\ proc # "reaped"
  /\ watch' = "killed" /\ asked' = asked \union {"kill"}
  /\ copier' = IF copier = "copying" THEN "done" ELSE copier
  /\ UNCHANGED <<procVars, pipeVars, ctxVars, watchErr, waitPc, waitErr>>

WaitReaps ==
  /\ waitPc = "process" /\ proc = "zombie"
  /\ proc' = "reaped" /\ waitPc' = "watch"
  /\ UNCHANGED <<plan, end, endedBy, pipeVars, ctxVars, asked, watch, watchErr, copier, waitErr>>

\* The exit status is the error unless it is zero; only then does the
\* watcher's error count.
WaitHearsWatch ==
  /\ waitPc = "watch"
  /\ waitPc' = "copiers" /\ watch' = "handed"
  /\ waitErr' = IF end # "zero" THEN "exit" ELSE watchErr
  /\ UNCHANGED <<procVars, pipeVars, ctxVars, asked, watchErr, copier>>

WaitReturns ==
  /\ waitPc = "copiers" /\ copier # "copying"
  /\ waitPc' = "returned"
  /\ UNCHANGED <<procVars, pipeVars, ctxVars, asked, watch, watchErr, copier, waitErr>>

\* WaitDelay after the child ended the heir still holds the copied stream.
WaitGivesUp ==
  /\ waitPc = "copiers" /\ copier = "copying" /\ heir = "holds"
  /\ copier' = "done" /\ waitPc' = "returned"
  /\ waitErr' = IF waitErr = "nil" THEN "delay" ELSE waitErr
  /\ UNCHANGED <<procVars, pipeVars, ctxVars, asked, watch, watchErr>>

-----------------------------------------------------------------------------
(* Result.ended: what both readings of the output make of Wait's answer.    *)

\* Mutant: nothing counts as cut.
endedNeverCut ==
  [ok |-> waitErr # "ctx", left |-> waitErr = "delay", signal |-> end = "signal", cut |-> FALSE,
   exit |-> IF waitErr = "exit" THEN "nonzero" ELSE "zero"]

ended ==
  CASE waitErr = "nil"   -> [ok |-> TRUE, left |-> FALSE, exit |-> "zero", signal |-> FALSE, cut |-> FALSE]
    [] waitErr = "delay" -> [ok |-> TRUE, left |-> TRUE, exit |-> "zero", signal |-> FALSE, cut |-> FALSE]
    [] waitErr = "ctx"   -> [ok |-> FALSE, left |-> FALSE, exit |-> "zero", signal |-> FALSE, cut |-> FALSE]
    [] waitErr = "exit"  ->
         [ok |-> TRUE, left |-> FALSE, exit |-> "nonzero", signal |-> end = "signal",
          cut |-> end = "signal" \/ (~HasSignals /\ timedOut)]

-----------------------------------------------------------------------------
\* What the program the command runs, and whoever signals it, may do.
ChildEnv == \/ ChildWrites \/ ChildLeavesHeir \/ ChildExits \/ ChildDies
            \/ ChildHandlesTerm \/ HeirWrites \/ HeirCloses

\* What the kernel and os/exec do.
ChildSystem == \/ TermEndsChild \/ KillEndsChild \/ WatchAsks \/ WatchKills
               \/ WaitReaps \/ WaitHearsWatch \/ WaitReturns

=============================================================================
