-------------------------- MODULE SignalRelayProofs --------------------------
(***************************************************************************)
(* What the relay promises, for any number of signals and any room in the  *)
(* channel.                                                                *)
(*                                                                         *)
(* The argument.  A signal waits in the queue at most once (Queued).  As   *)
(* long as the groups have stood since it came, what it met tells what the *)
(* relay will read, and whether it reached the command tells whether the   *)
(* command is in jz's group (Reach).  So the relay, late as it is, judges  *)
(* as if it had been there when the signal came.                           *)
(***************************************************************************)
EXTENDS SignalRelay, SequenceTheorems, TLAPS

\* The queue holds each signal that is queued once, and no other.
Queued ==
  /\ \A i \in 1..Len(queue) : fate[queue[i]] = "queued"
  /\ \A i, j \in 1..Len(queue) : queue[i] = queue[j] => i = j

\* What is known of a signal that waits: whether it reached the command, and
\* what the groups are unless they changed.
Waits(k, m, r) ==
  /\ r \in {0, 1}
  /\ k.to = "jz" \/ m = "nothing" => r = 0
  /\ k.to = "foreground" => k.sig = "INT" /\ m # "background"
  /\ m \in {"foreground", "background"} =>
       (m = "foreground" <=> foreground) /\ (k.to # "jz" => (r = 1 <=> inGroup))

Reach ==
  \A s \in Signals :
    /\ fate[s] = "queued" => kind[s] \in Kinds /\ Waits(kind[s], met[s], reached[s])
    /\ fate[s] = "unsent" => reached[s] = 0

IInv == TypeOK /\ Queued /\ Reach /\ NotRepeated /\ SkippedHadArrived

(* Only interrupts come from a terminal; a signal for the group reaches it *)
(* without being the terminal's.                                           *)
LEMMA KindsOf ==
  ASSUME NEW k \in Kinds
  PROVE  /\ k.sig \in {"INT", "TERM"} /\ k.to \in {"foreground", "group", "jz"}
         /\ k.to = "foreground" => k.sig = "INT"
BY DEF Kinds

(* The invariant holds at the start.                                       *)
LEMMA InitIInv == Init => IInv
<1> SUFFICES ASSUME Init PROVE IInv
  OBVIOUS
<1>1. queue \in Seq(Signals) /\ Len(queue) = 0
  BY EmptySeq DEF Init
<1>2. TypeOK
  BY <1>1, RelayAssumption DEF Init, TypeOK, Fates
<1>3. Queued
  BY <1>1 DEF Queued
<1>4. Reach /\ NotRepeated /\ SkippedHadArrived
  BY DEF Init, Reach, NotRepeated, SkippedHadArrived
<1> QED BY <1>2, <1>3, <1>4 DEF IInv

(* It holds when a signal has arrived.                                     *)
LEMMA ArrivesIInv == ASSUME NEW s \in Signals, NEW k \in Kinds PROVE IInv /\ Arrives(s, k) => IInv'
<1> SUFFICES ASSUME IInv, Arrives(s, k) PROVE IInv'
  OBVIOUS
<1> DEFINE m == IF child # "running" THEN "nothing" ELSE IF foreground THEN "foreground" ELSE "background"
           r == IF k.to # "jz" /\ inGroup /\ child = "running" THEN 1 ELSE 0
<1>1. /\ fate[s] = "unsent" /\ fate \in [Signals -> Fates] /\ kind \in [Signals -> Kinds \union {NotSent}]
      /\ queue \in Seq(Signals) /\ Len(queue) <= ChanCap /\ Len(queue) \in Nat /\ ChanCap \in Nat
      /\ met \in [Signals -> {"nothing", "foreground", "background", "moves"}] /\ reached \in [Signals -> 0..2]
      /\ foreground \in BOOLEAN /\ inGroup \in BOOLEAN
  BY RelayAssumption, LenProperties DEF Arrives, Comes, IsNext, IInv, TypeOK
<1>2. /\ kind' = [kind EXCEPT ![s] = k] /\ met' = [met EXCEPT ![s] = m] /\ reached' = [reached EXCEPT ![s] = r]
      /\ foreground' = foreground /\ inGroup' = inGroup /\ phase' = phase /\ relay' = relay
      /\ child' = child /\ jz' = jz /\ (k.to = "foreground" => foreground)
  BY DEF Arrives, Comes, envVars
<1>3. \/ Len(queue) < ChanCap /\ queue' = Append(queue, s) /\ fate' = [fate EXCEPT ![s] = "queued"]
      \/ fate' = [fate EXCEPT ![s] = "dropped"] /\ queue' = queue
  BY DEF Arrives
<1>4. \A i \in 1..Len(queue) : queue[i] \in Signals /\ queue[i] # s
  BY <1>1, ElementOfSeq DEF IInv, Queued
<1>5. /\ Append(queue, s) \in Seq(Signals) /\ Len(Append(queue, s)) = Len(queue) + 1
      /\ \A i \in 1..Len(queue) : Append(queue, s)[i] = queue[i]
      /\ Append(queue, s)[Len(queue) + 1] = s
  BY <1>1, AppendProperties
<1>6. TypeOK'
  <2>1. fate' \in [Signals -> Fates]
    BY <1>1, <1>3 DEF Fates
  <2>2. queue' \in Seq(Signals) /\ Len(queue') <= ChanCap
    <3>1. CASE queue' = queue
      BY <1>1, <3>1
    <3>2. CASE Len(queue) < ChanCap /\ queue' = Append(queue, s)
      BY <1>1, <1>5, <3>2
    <3> QED BY <1>3, <3>1, <3>2
  <2>3. /\ kind' \in [Signals -> Kinds \union {NotSent}] /\ reached' \in [Signals -> 0..2]
        /\ met' \in [Signals -> {"nothing", "foreground", "background", "moves"}]
    BY <1>1, <1>2
  <2> QED BY <1>1, <1>2, <2>1, <2>2, <2>3 DEF IInv, TypeOK
<1>7. Queued'
  <2>1. CASE queue' = queue /\ \A t \in Signals \ {s} : fate'[t] = fate[t]
    BY <1>4, <2>1 DEF IInv, Queued
  <2>2. CASE queue' = Append(queue, s) /\ fate' = [fate EXCEPT ![s] = "queued"]
    <3>1. \A i \in 1..Len(queue') : i \in 1..Len(queue) \/ i = Len(queue) + 1
      BY <1>1, <1>5, <2>2
    <3>2. \A i \in 1..Len(queue') : fate'[queue'[i]] = "queued"
      BY <1>1, <1>4, <1>5, <2>2, <3>1 DEF IInv, Queued
    <3>3. \A i, j \in 1..Len(queue') : queue'[i] = queue'[j] => i = j
      BY <1>4, <1>5, <2>2, <3>1 DEF IInv, Queued
    <3> QED BY <3>2, <3>3 DEF Queued
  <2> QED BY <1>1, <1>3, <2>1, <2>2
<1>8. ASSUME NEW t \in Signals \ {s}
      PROVE  fate'[t] = fate[t] /\ kind'[t] = kind[t] /\ met'[t] = met[t] /\ reached'[t] = reached[t]
  BY <1>1, <1>2, <1>3
<1>9. fate'[s] \in {"queued", "dropped"} /\ kind'[s] = k /\ met'[s] = m /\ reached'[s] = r
  BY <1>1, <1>2, <1>3
<1>10. Waits(k, m, r)
  BY <1>1, <1>2, KindsOf DEF Waits
<1>11. r \in {0, 1}
  OBVIOUS
<1> HIDE DEF m, r
<1>12. Reach'
  <2>1. Waits(kind[s], met[s], reached[s])' <=> Waits(k, m, r)
    BY <1>2, <1>9 DEF Waits
  <2>2. ASSUME NEW t \in Signals \ {s} PROVE Waits(kind[t], met[t], reached[t])' <=> Waits(kind[t], met[t], reached[t])
    BY <1>2, <1>8 DEF Waits
  <2> QED BY <1>8, <1>9, <1>10, <2>1, <2>2 DEF IInv, Reach
<1>13. NotRepeated'
  <2>1. ~(reached'[s] > 1)
    BY <1>9, <1>11
  <2> QED BY <1>8, <2>1 DEF IInv, NotRepeated
<1>14. SkippedHadArrived'
  BY <1>8, <1>9 DEF IInv, SkippedHadArrived
<1> QED BY <1>6, <1>7, <1>12, <1>13, <1>14 DEF IInv

(* It holds when the relay has taken a signal from the channel.            *)
LEMMA RelayTakesIInv == IInv /\ RelayTakes => IInv'
<1> SUFFICES ASSUME IInv, RelayTakes PROVE IInv'
  OBVIOUS
<1> DEFINE s == Head(queue)
<1>1. /\ queue \in Seq(Signals) /\ queue # <<>> /\ fate \in [Signals -> Fates]
      /\ reached \in [Signals -> 0..2] /\ Len(queue) <= ChanCap /\ ChanCap \in Nat /\ Len(queue) \in Nat \ {0}
  BY RelayAssumption, EmptySeq DEF RelayTakes, IInv, TypeOK
<1>2. /\ s \in Signals /\ queue' = Tail(queue) /\ Tail(queue) \in Seq(Signals) /\ Len(Tail(queue)) = Len(queue) - 1
      /\ \A i \in 1..(Len(queue) - 1) : Tail(queue)[i] = queue[i + 1]
      /\ s = queue[1]
  BY <1>1, HeadTailProperties DEF RelayTakes
<1>3. /\ foreground' = foreground /\ inGroup' = inGroup /\ phase' = phase /\ relay' = relay
      /\ child' = child /\ kind' = kind /\ jz' = jz /\ met' = met
  BY DEF RelayTakes, envVars
<1>4. \/ /\ kind[s].sig = "INT" /\ interruptReached
         /\ fate' = [fate EXCEPT ![s] = "skipped"] /\ reached' = reached
      \/ /\ ~(kind[s].sig = "INT" /\ interruptReached)
         /\ fate' = [fate EXCEPT ![s] = IF child = "waited" THEN "nochild" ELSE "forwarded"]
         /\ reached' = [reached EXCEPT ![s] = IF child = "running" THEN @ + 1 ELSE @]
  BY DEF RelayTakes
<1> HIDE DEF s
<1>5. fate[s] = "queued" /\ kind[s] \in Kinds /\ Waits(kind[s], met[s], reached[s])
  <2>1. fate[s] = "queued"
    BY <1>1, <1>2 DEF IInv, Queued
  <2> QED BY <1>2, <2>1 DEF IInv, Reach
<1>5a. /\ reached[s] \in {0, 1} /\ met[s] \in {"nothing", "foreground", "background", "moves"}
       /\ foreground \in BOOLEAN /\ inGroup \in BOOLEAN
  BY <1>2, <1>5 DEF Waits, IInv, TypeOK
<1>6. \A t \in Signals \ {s} : fate'[t] = fate[t] /\ reached'[t] = reached[t]
  BY <1>1, <1>2, <1>4
<1>7. TypeOK'
  <2>1. fate' \in [Signals -> Fates]
    BY <1>1, <1>4 DEF Fates
  <2>2. reached' \in [Signals -> 0..2]
    BY <1>1, <1>2, <1>4, <1>5a
  <2> QED BY <1>1, <1>2, <1>3, <2>1, <2>2 DEF IInv, TypeOK
<1>8. Queued'
  <2>1. \A i \in 1..Len(queue') : i + 1 \in 1..Len(queue) /\ queue'[i] = queue[i + 1]
    BY <1>1, <1>2
  <2>2. \A i \in 1..Len(queue') : queue'[i] # s /\ queue'[i] \in Signals
    BY <1>1, <1>2, <2>1, ElementOfSeq DEF IInv, Queued
  <2>3. \A i \in 1..Len(queue') : fate'[queue'[i]] = "queued"
    BY <1>6, <2>1, <2>2 DEF IInv, Queued
  <2>4. \A i, j \in 1..Len(queue') : queue'[i] = queue'[j] => i = j
    BY <1>1, <1>2, <2>1 DEF IInv, Queued
  <2> QED BY <2>3, <2>4 DEF Queued
<1>9. fate'[s] \in {"skipped", "nochild", "forwarded"}
  BY <1>1, <1>2, <1>4
<1>10. Reach'
  <2>1. ASSUME NEW t \in Signals \ {s} PROVE Waits(kind[t], met[t], reached[t])' <=> Waits(kind[t], met[t], reached[t])
    BY <1>3, <1>6 DEF Waits
  <2> QED BY <1>3, <1>6, <1>9, <2>1 DEF IInv, Reach
<1>11. NotRepeated'
  <2>1. ASSUME reached'[s] > 1
        PROVE  met[s] = "moves" \/ (kind[s].to = "group" /\ (kind[s].sig = "TERM" \/ met[s] = "background"))
    <3>1. reached[s] = 1 /\ child = "running" /\ ~(kind[s].sig = "INT" /\ interruptReached)
      BY <1>1, <1>2, <1>4, <1>5a, <2>1
    <3>2. kind[s].to # "jz" /\ met[s] # "nothing"
      BY <1>5, <3>1 DEF Waits
    <3>3. CASE met[s] = "background"
      BY <1>5, <3>2, <3>3, KindsOf DEF Waits
    <3>4. CASE met[s] = "foreground"
      <4>1. foreground /\ inGroup
        BY <1>5, <3>1, <3>2, <3>4 DEF Waits
      <4>2. kind[s].sig = "TERM"
        BY <1>5, <3>1, <4>1, KindsOf DEF interruptReached
      <4> QED BY <1>5, <3>2, <4>2, KindsOf
    <3> QED BY <1>5a, <3>2, <3>3, <3>4
  <2> QED BY <1>3, <1>6, <2>1 DEF IInv, NotRepeated
<1>12. SkippedHadArrived'
  <2>1. ASSUME fate'[s] = "skipped"
        PROVE  /\ kind[s].sig = "INT"
               /\ \/ reached'[s] = 1 \/ met[s] \in {"nothing", "moves"}
                  \/ kind[s].to = "jz" /\ met[s] = "foreground"
    <3>1. kind[s].sig = "INT" /\ foreground /\ inGroup /\ reached' = reached
      BY <1>1, <1>2, <1>4, <2>1 DEF interruptReached
    <3>2. ASSUME met[s] \in {"foreground", "background"}
          PROVE  reached[s] = 1 \/ (kind[s].to = "jz" /\ met[s] = "foreground")
      BY <1>5, <1>5a, <3>1, <3>2 DEF Waits
    <3> QED BY <1>5a, <3>1, <3>2
  <2> QED BY <1>3, <1>6, <2>1 DEF IInv, SkippedHadArrived
<1> QED BY <1>7, <1>8, <1>10, <1>11, <1>12 DEF IInv

(* It holds when the groups have changed: what waits no longer tells what  *)
(* they are.                                                               *)
LEMMA MovesIInv == IInv /\ (JobMoves \/ CommandRegroups) => IInv'
<1> SUFFICES ASSUME IInv, JobMoves \/ CommandRegroups PROVE IInv'
  OBVIOUS
<1>1. /\ queue' = queue /\ kind' = kind /\ fate' = fate /\ reached' = reached /\ Regrouped
      /\ phase' = phase /\ relay' = relay /\ child' = child /\ jz' = jz
      /\ foreground' \in BOOLEAN /\ inGroup' \in BOOLEAN
  BY DEF JobMoves, CommandRegroups, sigVars, IInv, TypeOK
<1>2. TypeOK'
  BY <1>1 DEF IInv, TypeOK, Regrouped
<1>3. \A s \in Signals : met'[s] = IF fate[s] = "queued" THEN "moves" ELSE met[s]
  BY <1>1 DEF Regrouped
<1>4. Queued'
  BY <1>1 DEF IInv, Queued
<1>5. Reach'
  <2>1. ASSUME NEW s \in Signals, fate[s] = "queued" PROVE Waits(kind[s], met[s], reached[s])'
    <3>1. Waits(kind[s], met[s], reached[s])
      BY <2>1 DEF IInv, Reach
    <3> QED BY <1>1, <1>3, <2>1, <3>1 DEF Waits
  <2> QED BY <1>1, <2>1 DEF IInv, Reach
<1>6. NotRepeated'
  BY <1>1, <1>3 DEF IInv, NotRepeated
<1>7. SkippedHadArrived'
  BY <1>1, <1>3 DEF IInv, SkippedHadArrived
<1> QED BY <1>2, <1>4, <1>5, <1>6, <1>7 DEF IInv

(* It holds when a signal has ended jz.                                    *)
LEMMA EndsJzIInv == ASSUME NEW s \in Signals PROVE IInv /\ EndsJz(s) => IInv'
<1> SUFFICES ASSUME IInv, EndsJz(s) PROVE IInv'
  OBVIOUS
<1>1. /\ fate[s] = "unsent" /\ fate \in [Signals -> Fates] /\ fate' = [fate EXCEPT ![s] = "endsjz"] /\ jz' = "dead"
      /\ foreground' = foreground /\ inGroup' = inGroup /\ phase' = phase /\ relay' = relay
      /\ child' = child /\ queue' = queue /\ met' = met /\ kind' = kind /\ reached' = reached
  BY DEF EndsJz, IsNext, envVars, IInv, TypeOK
<1>2. TypeOK'
  BY <1>1 DEF IInv, TypeOK, Fates
<1>3. fate'[s] = "endsjz" /\ \A t \in Signals \ {s} : fate'[t] = fate[t]
  BY <1>1
<1>4. Queued'
  <2>1. \A i \in 1..Len(queue) : queue[i] \in Signals /\ queue[i] # s
    BY <1>1, ElementOfSeq DEF IInv, TypeOK, Queued
  <2> QED BY <1>1, <1>3, <2>1 DEF IInv, Queued
<1>5. Reach'
  BY <1>1, <1>3 DEF IInv, Reach, Waits
<1>6. NotRepeated' /\ SkippedHadArrived'
  BY <1>1, <1>3 DEF IInv, NotRepeated, SkippedHadArrived
<1> QED BY <1>2, <1>4, <1>5, <1>6 DEF IInv

(* It holds when the run goes on, and when nothing changes.                *)
LEMMA OtherIInv ==
  IInv /\ (Subscribe \/ StartChild \/ ForwardTo \/ ChildEnds \/ ChildWaited \/ Stop \/ RelayStops \/ UNCHANGED vars)
    => IInv'
<1> SUFFICES ASSUME IInv, Subscribe \/ StartChild \/ ForwardTo \/ ChildEnds \/ ChildWaited \/ Stop \/ RelayStops
                          \/ UNCHANGED vars
             PROVE  IInv'
  OBVIOUS
<1>1. /\ foreground' = foreground /\ inGroup' = inGroup /\ queue' = queue
      /\ kind' = kind /\ met' = met /\ fate' = fate /\ reached' = reached
  BY DEF Subscribe, StartChild, ForwardTo, ChildEnds, ChildWaited, Stop, RelayStops, vars, envVars, sigVars
<1>2. /\ phase' \in {"unsubscribed", "subscribed", "stopped"} /\ relay' \in {"off", "on", "gone"}
      /\ child' \in {"none", "running", "ended", "waited"} /\ jz' \in {"alive", "dead"}
  BY DEF IInv, TypeOK, Subscribe, StartChild, ForwardTo, ChildEnds, ChildWaited, Stop, RelayStops, vars
<1>3. TypeOK'
  BY <1>1, <1>2 DEF IInv, TypeOK
<1> QED BY <1>1, <1>3 DEF IInv, Queued, Reach, Waits, NotRepeated, SkippedHadArrived

LEMMA Invariant == Spec => []IInv
<1>1. IInv /\ [Next]_vars => IInv'
  BY ArrivesIInv, EndsJzIInv, MovesIInv, RelayTakesIInv, OtherIInv DEF Next, Over
<1> QED BY InitIInv, <1>1, PTL DEF Spec

-----------------------------------------------------------------------------

(* Among the rest: the channel never holds more than it has room for.      *)
THEOREM TypeCorrect == Spec => []TypeOK
<1>1. IInv => TypeOK
  BY DEF IInv
<1> QED BY <1>1, Invariant, PTL

(* While the groups stand, only a signal a process sent to the whole group *)
(* reaches the command twice, and in the foreground no interrupt does      *)
(* (terminalDelivered).                                                    *)
THEOREM NoneRepeated == Spec => []NotRepeated
<1>1. IInv => NotRepeated
  BY DEF IInv
<1> QED BY <1>1, Invariant, PTL

(* What is not sent on had arrived, or was given up (interruptReached).    *)
THEOREM SkippedRightly == Spec => []SkippedHadArrived
<1>1. IInv => SkippedHadArrived
  BY DEF IInv
<1> QED BY <1>1, Invariant, PTL
=============================================================================
