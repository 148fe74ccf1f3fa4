----------------------------- MODULE SignalRelay -----------------------------
(***************************************************************************)
(* The relay of internal/runner: jz passes the interrupts it receives on   *)
(* to the command it runs, except an interrupt its terminal has already    *)
(* delivered to both.  That it is so is judged by the process groups, when *)
(* the relay comes to the signal, and the groups may have changed by then. *)
(***************************************************************************)
EXTENDS Naturals, Sequences

CONSTANTS MaxSignals, \* most signals that are sent; they are numbered as they come
          ChanCap     \* capacity of the channel they wait in (4)

ASSUME RelayAssumption == MaxSignals \in Nat /\ ChanCap \in Nat \ {0}

Signals == 1..MaxSignals

VARIABLES
  foreground, \* jz's process group is the foreground group of its terminal
  inGroup,    \* the command is, once there is one, in jz's process group
  phase,      \* "unsubscribed", "subscribed" or "stopped"
  relay,      \* the goroutine of forwardTo: "off", "on" or "gone"
  child,      \* "none", "running", "ended" or "waited"
  jz,         \* "alive" or "dead", by the default action of a signal
  queue,      \* relay.ch
  kind,       \* of each signal: what it is and who it is for, NotSent before
  met,        \* what it met: no command, one beside a jz in the foreground or the
              \* background, or groups that changed while it was queued
  fate,       \* what became of it
  reached     \* how often it reached the command

sigVars == <<kind, fate, reached>>
envVars == <<foreground, inGroup>>
vars == <<envVars, phase, relay, child, jz, queue, met, sigVars>>

\* A terminal sends interrupts to its foreground group, a process sends either
\* signal to the group or to jz alone.
Kinds == [sig : {"INT"}, to : {"foreground"}] \union [sig : {"INT", "TERM"}, to : {"group", "jz"}]
NotSent == [sig |-> "none", to |-> "nobody"]
Fates == {"unsent", "endsjz", "queued", "dropped", "skipped", "forwarded", "nochild"}

TypeOK ==
  /\ foreground \in BOOLEAN /\ inGroup \in BOOLEAN
  /\ phase \in {"unsubscribed", "subscribed", "stopped"}
  /\ relay \in {"off", "on", "gone"}
  /\ child \in {"none", "running", "ended", "waited"}
  /\ jz \in {"alive", "dead"}
  /\ queue \in Seq(Signals) /\ Len(queue) <= ChanCap
  /\ kind \in [Signals -> Kinds \union {NotSent}]
  /\ met \in [Signals -> {"nothing", "foreground", "background", "moves"}]
  /\ fate \in [Signals -> Fates]
  /\ reached \in [Signals -> 0..2]

\* child() leaves the command in jz's own group.
Init ==
  /\ foreground \in BOOLEAN /\ inGroup = TRUE
  /\ phase = "unsubscribed" /\ relay = "off" /\ child = "none" /\ jz = "alive"
  /\ queue = <<>>
  /\ kind = [s \in Signals |-> NotSent]
  /\ met = [s \in Signals |-> "nothing"]
  /\ fate = [s \in Signals |-> "unsent"]
  /\ reached = [s \in Signals |-> 0]

-----------------------------------------------------------------------------
(* The run, as far as the relay goes.                                      *)

\* forwarded() comes first, before the command is looked up.
Subscribe ==
  /\ jz = "alive" /\ phase = "unsubscribed"
  /\ phase' = "subscribed"
  /\ UNCHANGED <<envVars, relay, child, jz, queue, met, sigVars>>

StartChild ==
  /\ jz = "alive" /\ phase = "subscribed" /\ child = "none"
  /\ child' = "running"
  /\ UNCHANGED <<envVars, phase, relay, jz, queue, met, sigVars>>

ForwardTo ==
  /\ jz = "alive" /\ phase = "subscribed" /\ relay = "off" /\ child # "none"
  /\ relay' = "on"
  /\ UNCHANGED <<envVars, phase, child, jz, queue, met, sigVars>>

ChildEnds ==
  /\ child = "running" /\ child' = "ended"
  /\ UNCHANGED <<envVars, phase, relay, jz, queue, met, sigVars>>

ChildWaited ==
  /\ jz = "alive" /\ relay = "on" /\ child = "ended" /\ child' = "waited"
  /\ UNCHANGED <<envVars, phase, relay, jz, queue, met, sigVars>>

\* Deferred: run or stream returns, having started no command or waited
\* for the one it started.
Stop ==
  /\ jz = "alive" /\ phase = "subscribed"
  /\ child = "none" \/ child = "waited"
  /\ phase' = "stopped"
  /\ UNCHANGED <<envVars, relay, child, jz, queue, met, sigVars>>

-----------------------------------------------------------------------------
(* Whoever else is at work on the terminal and the groups.                 *)

Regrouped == met' = [s \in Signals |-> IF fate[s] = "queued" THEN "moves" ELSE met[s]]

\* A shell puts jz's job to the background, or to the foreground again.  Once
\* the command has been waited for nobody asks.
JobMoves ==
  /\ jz = "alive" /\ child # "waited"
  /\ foreground' = ~foreground /\ Regrouped
  /\ UNCHANGED <<inGroup, phase, relay, child, jz, queue, sigVars>>

\* The command makes a group of its own, as timeout(1) does, or comes back.
CommandRegroups ==
  /\ jz = "alive" /\ child = "running"
  /\ inGroup' = ~inGroup /\ Regrouped
  /\ UNCHANGED <<foreground, phase, relay, child, jz, queue, sigVars>>

IsNext(s) == jz = "alive" /\ fate[s] = "unsent" /\ \A t \in Signals : t < s => fate[t] # "unsent"

\* jz is not subscribed and ends by the signal, whichever it is; there is no
\* command, or no longer.
EndsJz(s) ==
  /\ IsNext(s) /\ phase # "subscribed"
  /\ jz' = "dead" /\ fate' = [fate EXCEPT ![s] = "endsjz"]
  /\ UNCHANGED <<envVars, phase, relay, child, queue, met, kind, reached>>

\* It comes as k: what it is, and to whom.  Sent to the foreground or to the
\* group, it reaches the command as well when that is in it.
Comes(s, k) ==
  /\ IsNext(s) /\ phase = "subscribed"
  /\ k.to = "foreground" => foreground
  /\ kind' = [kind EXCEPT ![s] = k]
  /\ met' = [met EXCEPT ![s] = IF child # "running" THEN "nothing"
                               ELSE IF foreground THEN "foreground" ELSE "background"]
  /\ reached' = [reached EXCEPT ![s] = IF k.to # "jz" /\ inGroup /\ child = "running" THEN 1 ELSE 0]
  /\ UNCHANGED <<envVars, phase, relay, child, jz>>

\* Mutant: the channel is taken to have room.
ArrivesUnbounded(s, k) ==
  /\ Comes(s, k)
  /\ queue' = Append(queue, s) /\ fate' = [fate EXCEPT ![s] = "queued"]

\* jz queues it, or drops it when the channel is full (signal.Notify never
\* blocks).
Arrives(s, k) ==
  /\ Comes(s, k)
  /\ \/ /\ Len(queue) < ChanCap
        /\ queue' = Append(queue, s) /\ fate' = [fate EXCEPT ![s] = "queued"]
     \/ /\ Len(queue) = ChanCap
        /\ fate' = [fate EXCEPT ![s] = "dropped"] /\ UNCHANGED queue

-----------------------------------------------------------------------------
(* The goroutine of forwardTo.                                             *)

\* Mutants: the command's own group is not asked for; nothing is ever
\* taken to have been delivered.
interruptReachedForeground == foreground /\ child # "waited"
interruptReachedNever == FALSE

\* terminalDelivered of the groups: that of a process already waited for
\* can no longer be read.
interruptReached == foreground /\ inGroup /\ child # "waited"

\* Mutant: what holds for an interrupt is applied to every signal.
RelayTakesAny ==
  /\ jz = "alive" /\ relay = "on" /\ queue # <<>>
  /\ LET s == Head(queue)
     IN IF interruptReached
        THEN fate' = [fate EXCEPT ![s] = "skipped"] /\ UNCHANGED reached
        ELSE /\ fate' = [fate EXCEPT ![s] = IF child = "waited" THEN "nochild" ELSE "forwarded"]
             /\ reached' = [reached EXCEPT ![s] = IF child = "running" THEN @ + 1 ELSE @]
  /\ queue' = Tail(queue)
  /\ UNCHANGED <<envVars, phase, relay, child, jz, met, kind>>

RelayTakes ==
  /\ jz = "alive" /\ relay = "on" /\ queue # <<>>
  /\ LET s == Head(queue)
     IN IF kind[s].sig = "INT" /\ interruptReached
        THEN fate' = [fate EXCEPT ![s] = "skipped"] /\ UNCHANGED reached
        ELSE /\ fate' = [fate EXCEPT ![s] = IF child = "waited" THEN "nochild" ELSE "forwarded"]
             /\ reached' = [reached EXCEPT ![s] = IF child = "running" THEN @ + 1 ELSE @]
  /\ queue' = Tail(queue)
  /\ UNCHANGED <<envVars, phase, relay, child, jz, met, kind>>

\* done is closed; what is still queued may or may not be taken first.
RelayStops ==
  /\ jz = "alive" /\ relay = "on" /\ phase = "stopped"
  /\ relay' = "gone"
  /\ UNCHANGED <<envVars, phase, child, jz, queue, met, sigVars>>

\* jz went on to write its result, or is dead.
Over == (jz = "dead" \/ phase = "stopped") /\ UNCHANGED vars

Next ==
  \/ Subscribe \/ StartChild \/ ForwardTo \/ ChildEnds \/ ChildWaited \/ Stop
  \/ JobMoves \/ CommandRegroups
  \/ (\E s \in Signals : EndsJz(s)) \/ (\E s \in Signals, k \in Kinds : Arrives(s, k))
  \/ RelayTakes \/ RelayStops \/ Over

Spec == Init /\ [][Next]_vars

\* The goroutines that can run do; no signal need come and the command
\* need not end.
Fairness == WF_vars(Subscribe) /\ WF_vars(StartChild \/ Stop) /\ WF_vars(ForwardTo)
            /\ WF_vars(RelayTakes) /\ WF_vars(RelayStops)

FairSpec == Spec /\ Fairness

-----------------------------------------------------------------------------
(* A signal reaches the command twice only if a process sent it to the     *)
(* whole group, which the relay cannot tell from one sent to jz alone, and *)
(* then not an interrupt in the foreground; or if the groups changed       *)
(* before the relay, which reads them late, came to it.  In particular the *)
(* interrupt a user types is not repeated (terminalDelivered: "sent twice  *)
(* is better than not at all" is about the others).                        *)
NotRepeated ==
  \A s \in Signals :
    reached[s] > 1 => \/ met[s] = "moves"
                      \/ kind[s].to = "group" /\ (kind[s].sig = "TERM" \/ met[s] = "background")

(* A signal that is not sent on is an interrupt that did reach the command *)
(* by itself, unless it came before the command did or was sent to jz      *)
(* alone, which interruptReached says it gives up - and but for groups     *)
(* that changed before the relay came to it.                               *)
SkippedHadArrived ==
  \A s \in Signals :
    fate[s] = "skipped" =>
      /\ kind[s].sig = "INT"
      /\ \/ reached[s] = 1 \/ met[s] \in {"nothing", "moves"}
         \/ kind[s].to = "jz" /\ met[s] = "foreground"

(* A SIGTERM that is queued reaches the command for as long as there is    *)
(* one, wherever jz and the command run and move.                          *)
TermIsRelayed ==
  \A s \in Signals :
    fate[s] = "queued" /\ kind[s].sig = "TERM" ~>
      reached[s] > 0 \/ child # "running" \/ jz = "dead"

=============================================================================
