------------------------- MODULE RunCollectedProofs -------------------------
(***************************************************************************)
(* What the run of RunCollected checks on one small instance, proved for   *)
(* every number of chunks, every pipe and limit, with and without signals, *)
(* and with heirs that print without end.                                  *)
(*                                                                         *)
(* The argument.  Until there is too much, what the command has printed is *)
(* what the buffer keeps and what the pipe still holds, and the buffer     *)
(* keeps no more of the heir's output than it printed (Buffer).  The copy  *)
(* ends with an empty pipe unless somebody was asked to go (CopyEnd), and  *)
(* nobody is without a cause (Causes).  What run returns says how the      *)
(* command ended, and output is called cut whenever the command did not    *)
(* end by itself (Outcome).                                                *)
(***************************************************************************)
EXTENDS RunCollected, TLAPS

Results == [left : BOOLEAN, exit : {"zero", "nonzero"}, signal : BOOLEAN, cut : BOOLEAN]

TypeOK ==
  /\ ChildTypeOK
  /\ main \in {"starting", "waiting", "returned"}
  /\ kept \in Nat /\ keptLate \in Nat /\ over \in BOOLEAN
  /\ cause \in {"none", "deadline", "toolarge"}
  /\ answer \in {"none", "result", "toolarge", "error"}
  /\ res \in Results

\* Which ends go with which causes.
Endings ==
  /\ proc = "running" <=> end = "none"
  /\ end = "zero" => endedBy = "self"
  /\ end = "nonzero" => endedBy = "self" \/ (~HasSignals /\ endedBy = "request")

\* Nobody is asked to go without a reason.
Requests ==
  /\ asked # {} \/ watch \in {"asked", "killed"} => RunCtxDone
  /\ endedBy = "request" => asked # {}

\* Wait of os/exec: the process, the watcher, the copy.
WaitOrder ==
  /\ waitPc # "process" => proc = "reaped"
  /\ waitPc \in {"copiers", "returned"} => (waitErr = "exit" <=> end # "zero")
  /\ waitPc = "returned" => copier = "done"
  /\ copier # "none"

\* What the buffer holds, and what was printed once it was too much.
Buffer ==
  /\ kept + keptLate <= Limit /\ spent <= LateWrites
  /\ ~over => wrote = kept + piped
  /\ ~over => keptLate + late <= spent \/ (Chatty /\ spent = LateWrites)
  /\ over => wrote + spent > Limit

\* The run is cancelled for one of two causes, and the first stands.
Causes ==
  /\ cancelled => over
  /\ over => cause # "none"
  /\ timedOut => cause # "none"
  /\ cause = "deadline" => timedOut
  /\ cause = "toolarge" => over

CopyEnd == copier = "done" => RunCtxDone \/ (piped = 0 /\ proc # "running")

\* What run returned says how the command ended.
Outcome ==
  /\ answer # "none" => main = "returned"
  /\ answer = "result" =>
       /\ waitPc = "returned" /\ cause # "toolarge"
       /\ res.exit = "zero" <=> end = "zero"
       /\ res.cut <=> end = "signal" \/ (end # "zero" /\ ~HasSignals /\ timedOut)
  /\ answer = "toolarge" => cause = "toolarge"

CInv == TypeOK /\ Endings /\ Requests /\ WaitOrder /\ Buffer /\ Causes /\ CopyEnd /\ Outcome

-----------------------------------------------------------------------------

\* Every step is one of these.
LEMMA Steps ==
  ASSUME [Next]_vars
  PROVE  \/ OfExec(ChildWrites)
         \/ OfExec(ChildLeavesHeir)
         \/ OfExec(ChildExits)
         \/ OfExec(ChildDies)
         \/ OfExec(ChildHandlesTerm)
         \/ OfExec(HeirWrites)
         \/ OfExec(HeirCloses)
         \/ OfExec(TermEndsChild)
         \/ OfExec(KillEndsChild)
         \/ OfExec(WatchAsks)
         \/ OfExec(WatchKills)
         \/ OfExec(WaitReaps)
         \/ OfExec(WaitHearsWatch)
         \/ OfExec(WaitReturns)
         \/ OfExec(GivesUp)
         \/ CannotStart
         \/ Start
         \/ DeadlineCancels
         \/ CopyOwn
         \/ CopyLate
         \/ CopyEnds
         \/ RunReturns
         \/ UNCHANGED vars
  BY DEF Next, Outside, Exec, Copying, Calling, Returned, ChildEnv, ChildSystem, OfExec

USE DEF procVars, pipeVars, ctxVars, execVars, childVars, bufVars

\* A run begins with nothing read.
LEMMA InitCInv == Init => CInv
<1> SUFFICES ASSUME Init PROVE CInv
  OBVIOUS
<1>1. copier = "copying"
  BY CollectAssumption DEF CollectAssumption, Init, ChildInit
<1>2. ChildTypeOK
  BY <1>1 DEF Init, ChildInit, ChildTypeOK
<1>3. TypeOK /\ Endings /\ Requests /\ WaitOrder
  BY <1>1, <1>2 DEF Init, ChildInit, TypeOK, NoResult, Results, Endings, Requests, WaitOrder
<1>4. Buffer /\ Causes /\ CopyEnd /\ Outcome
  BY <1>1, CollectAssumption, ChildAssumption
  DEF CollectAssumption, ChildAssumption, Init, ChildInit, Buffer, Causes, CopyEnd, Outcome
<1> QED
  BY <1>3, <1>4 DEF CInv

\* How a command ends keeps the types of what is known of it.
LEMMA EndedType ==
  ASSUME TypeOK
  PROVE  /\ ended.ok \in BOOLEAN /\ ended.left \in BOOLEAN /\ ended.signal \in BOOLEAN
         /\ ended.cut \in BOOLEAN /\ ended.exit \in {"zero", "nonzero"}
         /\ ended.cut <=> waitErr = "exit" /\ (end = "signal" \/ (~HasSignals /\ timedOut))
         /\ ended.exit = "zero" <=> waitErr # "exit"
<1>1. CASE waitErr = "exit"
  BY <1>1 DEF ended
<1>2. CASE waitErr \in {"nil", "delay", "ctx"}
  BY <1>2 DEF ended
<1> QED
  BY <1>1, <1>2 DEF TypeOK, ChildTypeOK

\* Every step of the runner keeps the types.
LEMMA TypeStep == TypeOK /\ [Next]_vars => TypeOK'
<1> SUFFICES ASSUME TypeOK, [Next]_vars PROVE TypeOK'
  OBVIOUS
<1>1. CASE OfExec(ChildWrites)
  BY <1>1 DEF ChildWrites, OfExec, RoomInPipe, InPipe, TypeOK, ChildTypeOK
<1>2. CASE OfExec(ChildLeavesHeir)
  BY <1>2 DEF ChildLeavesHeir, OfExec, TypeOK, ChildTypeOK
<1>3. CASE OfExec(ChildExits)
  BY <1>3 DEF ChildExits, OfExec, Ends, TypeOK, ChildTypeOK
<1>4. CASE OfExec(ChildDies)
  BY <1>4 DEF ChildDies, OfExec, Ends, TypeOK, ChildTypeOK
<1>5. CASE OfExec(ChildHandlesTerm)
  BY <1>5 DEF ChildHandlesTerm, OfExec, Ends, TypeOK, ChildTypeOK
<1>6. CASE OfExec(HeirWrites)
  BY <1>6 DEF HeirWrites, OfExec, RoomInPipe, InPipe, TypeOK, ChildTypeOK
<1>7. CASE OfExec(HeirCloses)
  BY <1>7 DEF HeirCloses, OfExec, TypeOK, ChildTypeOK
<1>8. CASE OfExec(TermEndsChild)
  BY <1>8 DEF TermEndsChild, OfExec, Ends, TypeOK, ChildTypeOK
<1>9. CASE OfExec(KillEndsChild)
  BY <1>9 DEF KillEndsChild, OfExec, Ends, TypeOK, ChildTypeOK
<1>10. CASE OfExec(WatchAsks)
  <2>1. asked' \subseteq {"term", "kill"} /\ watchErr' \in {"nil", "ctx"}
    <3>1. (IF HasSignals THEN "term" ELSE "kill") \in {"term", "kill"}
      OBVIOUS
    <3> QED
      BY <1>10, <3>1 DEF OfExec, WatchAsks, TypeOK, ChildTypeOK
  <2> QED
    BY <1>10, <2>1 DEF OfExec, WatchAsks, TypeOK, ChildTypeOK
<1>11. CASE OfExec(WatchKills)
  BY <1>11 DEF WatchKills, OfExec, TypeOK, ChildTypeOK
<1>12. CASE OfExec(WaitReaps)
  BY <1>12 DEF WaitReaps, OfExec, TypeOK, ChildTypeOK
<1>13. CASE OfExec(WaitHearsWatch)
  BY <1>13 DEF WaitHearsWatch, OfExec, TypeOK, ChildTypeOK
<1>14. CASE OfExec(WaitReturns)
  BY <1>14 DEF WaitReturns, OfExec, TypeOK, ChildTypeOK
<1>15. CASE OfExec(GivesUp)
  BY <1>15 DEF GivesUp, OfExec, WaitGivesUp, TypeOK, ChildTypeOK
<1>16. CASE CannotStart
  BY <1>16 DEF CannotStart, TypeOK, ChildTypeOK
<1>17. CASE Start
  BY <1>17 DEF Start, TypeOK, ChildTypeOK
<1>18. CASE DeadlineCancels
  BY <1>18 DEF DeadlineCancels, DeadlinePasses, TypeOK, ChildTypeOK
<1>19. CASE CopyOwn
  BY <1>19 DEF CopyOwn, Write, TooMuch, TypeOK, ChildTypeOK
<1>20. CASE CopyLate
  BY <1>20 DEF CopyLate, Write, TooMuch, TypeOK, ChildTypeOK
<1>21. CASE CopyEnds
  BY <1>21 DEF CopyEnds, InPipe, WriterLeft, TypeOK, ChildTypeOK
<1>22. CASE RunReturns
  <2>1. answer' \in {"toolarge", "result", "error"} /\ res' \in Results
    BY <1>22, EndedType DEF RunReturns, TypeOK, Results
  <2> QED
    BY <1>22, <2>1 DEF RunReturns, TypeOK, ChildTypeOK
<1>23. CASE UNCHANGED vars
  BY <1>23 DEF vars, TypeOK, ChildTypeOK
<1> QED
  BY <1>1, <1>2, <1>3, <1>4, <1>5, <1>6, <1>7, <1>8, <1>9, <1>10, <1>11, <1>12, <1>13, <1>14,
     <1>15, <1>16, <1>17, <1>18, <1>19, <1>20, <1>21, <1>22, <1>23, Steps

\* How the command ends and how os/exec waits for it.
LEMMA WaitStep ==
  ASSUME CInv, [Next]_vars
  PROVE  Endings' /\ Requests' /\ WaitOrder'
<1>0. TypeOK'
  BY TypeStep DEF CInv
<1>1. CASE OfExec(ChildWrites)
  BY <1>1, <1>0 DEF ChildWrites, OfExec, RoomInPipe, InPipe, CInv, Endings, Requests, WaitOrder,
     Started, RunCtxDone, TypeOK, ChildTypeOK
<1>2. CASE OfExec(ChildLeavesHeir)
  BY <1>2, <1>0 DEF ChildLeavesHeir, OfExec, CInv, Endings, Requests, WaitOrder, Started,
     RunCtxDone, TypeOK, ChildTypeOK
<1>3. CASE OfExec(ChildExits)
  BY <1>3, <1>0 DEF ChildExits, OfExec, Ends, CInv, Endings, Requests, WaitOrder, Started,
     RunCtxDone, TypeOK, ChildTypeOK
<1>4. CASE OfExec(ChildDies)
  BY <1>4, <1>0 DEF ChildDies, OfExec, Ends, CInv, Endings, Requests, WaitOrder, Started,
     RunCtxDone, TypeOK, ChildTypeOK
<1>5. CASE OfExec(ChildHandlesTerm)
  BY <1>5, <1>0 DEF ChildHandlesTerm, OfExec, Ends, CInv, Endings, Requests, WaitOrder, Started,
     RunCtxDone, TypeOK, ChildTypeOK
<1>6. CASE OfExec(HeirWrites)
  BY <1>6, <1>0 DEF HeirWrites, OfExec, RoomInPipe, InPipe, CInv, Endings, Requests, WaitOrder,
     Started, RunCtxDone, TypeOK, ChildTypeOK
<1>7. CASE OfExec(HeirCloses)
  BY <1>7, <1>0 DEF HeirCloses, OfExec, CInv, Endings, Requests, WaitOrder, Started, RunCtxDone,
     TypeOK, ChildTypeOK
<1>8. CASE OfExec(TermEndsChild)
  BY <1>8, <1>0 DEF TermEndsChild, OfExec, Ends, CInv, Endings, Requests, WaitOrder, Started,
     RunCtxDone, TypeOK, ChildTypeOK
<1>9. CASE OfExec(KillEndsChild)
  BY <1>9, <1>0 DEF KillEndsChild, OfExec, Ends, CInv, Endings, Requests, WaitOrder, Started,
     RunCtxDone, TypeOK, ChildTypeOK
<1>10. CASE OfExec(WatchAsks)
  BY <1>10, <1>0 DEF WatchAsks, OfExec, CInv, Endings, Requests, WaitOrder, Started, RunCtxDone,
     TypeOK, ChildTypeOK
<1>11. CASE OfExec(WatchKills)
  BY <1>11, <1>0 DEF WatchKills, OfExec, CInv, Endings, Requests, WaitOrder, Started, RunCtxDone,
     TypeOK, ChildTypeOK
<1>12. CASE OfExec(WaitReaps)
  BY <1>12, <1>0 DEF WaitReaps, OfExec, CInv, Endings, Requests, WaitOrder, Started, RunCtxDone,
     TypeOK, ChildTypeOK
<1>13. CASE OfExec(WaitHearsWatch)
  BY <1>13, <1>0 DEF WaitHearsWatch, OfExec, CInv, Endings, Requests, WaitOrder, Started,
     RunCtxDone, TypeOK, ChildTypeOK
<1>14. CASE OfExec(WaitReturns)
  BY <1>14, <1>0 DEF WaitReturns, OfExec, CInv, Endings, Requests, WaitOrder, Started, RunCtxDone,
     TypeOK, ChildTypeOK
<1>15. CASE OfExec(GivesUp)
  BY <1>15, <1>0 DEF GivesUp, OfExec, WaitGivesUp, CInv, Endings, Requests, WaitOrder, Started,
     RunCtxDone, TypeOK, ChildTypeOK
<1>16. CASE CannotStart
  BY <1>16, <1>0 DEF CannotStart, CInv, Endings, Requests, WaitOrder, Started, RunCtxDone, TypeOK,
     ChildTypeOK
<1>17. CASE Start
  BY <1>17, <1>0 DEF Start, CInv, Endings, Requests, WaitOrder, Started, RunCtxDone, TypeOK,
     ChildTypeOK
<1>18. CASE DeadlineCancels
  BY <1>18, <1>0 DEF DeadlineCancels, DeadlinePasses, CInv, Endings, Requests, WaitOrder, Started,
     RunCtxDone, TypeOK, ChildTypeOK
<1>19. CASE CopyOwn
  BY <1>19, <1>0 DEF CopyOwn, Write, TooMuch, CInv, Endings, Requests, WaitOrder, Started,
     RunCtxDone, TypeOK, ChildTypeOK
<1>20. CASE CopyLate
  BY <1>20, <1>0 DEF CopyLate, Write, TooMuch, CInv, Endings, Requests, WaitOrder, Started,
     RunCtxDone, TypeOK, ChildTypeOK
<1>21. CASE CopyEnds
  BY <1>21, <1>0 DEF CopyEnds, InPipe, WriterLeft, CInv, Endings, Requests, WaitOrder, Started,
     RunCtxDone, TypeOK, ChildTypeOK
<1>22. CASE RunReturns
  BY <1>22, <1>0 DEF RunReturns, CInv, Endings, Requests, WaitOrder, Started, RunCtxDone, TypeOK,
     ChildTypeOK
<1>23. CASE UNCHANGED vars
  BY <1>23 DEF vars, CInv, Endings, Requests, WaitOrder, Started, RunCtxDone, TypeOK, ChildTypeOK
<1> QED
  BY <1>1, <1>2, <1>3, <1>4, <1>5, <1>6, <1>7, <1>8, <1>9, <1>10, <1>11, <1>12, <1>13, <1>14,
     <1>15, <1>16, <1>17, <1>18, <1>19, <1>20, <1>21, <1>22, <1>23, Steps

\* What the buffer holds.
LEMMA BufferStep ==
  ASSUME CInv, [Next]_vars
  PROVE  Buffer'
<1>1. CASE OfExec(ChildWrites)
  BY <1>1, CollectAssumption, ChildAssumption DEF ChildWrites, OfExec, RoomInPipe, InPipe,
     CollectAssumption, ChildAssumption, CInv, TypeOK, ChildTypeOK, Buffer
<1>2. CASE OfExec(ChildLeavesHeir)
  BY <1>2 DEF ChildLeavesHeir, OfExec, CInv, Buffer
<1>3. CASE OfExec(ChildExits)
  BY <1>3 DEF ChildExits, OfExec, Ends, CInv, Buffer
<1>4. CASE OfExec(ChildDies)
  BY <1>4 DEF ChildDies, OfExec, Ends, CInv, Buffer
<1>5. CASE OfExec(ChildHandlesTerm)
  BY <1>5 DEF ChildHandlesTerm, OfExec, Ends, CInv, Buffer
<1>6. CASE OfExec(HeirWrites)
  BY <1>6, CollectAssumption, ChildAssumption DEF HeirWrites, OfExec, RoomInPipe, InPipe,
     CollectAssumption, ChildAssumption, CInv, TypeOK, ChildTypeOK, Buffer
<1>7. CASE OfExec(HeirCloses)
  BY <1>7 DEF HeirCloses, OfExec, CInv, Buffer
<1>8. CASE OfExec(TermEndsChild)
  BY <1>8 DEF TermEndsChild, OfExec, Ends, CInv, Buffer
<1>9. CASE OfExec(KillEndsChild)
  BY <1>9 DEF KillEndsChild, OfExec, Ends, CInv, Buffer
<1>10. CASE OfExec(WatchAsks)
  BY <1>10 DEF WatchAsks, OfExec, CInv, Buffer
<1>11. CASE OfExec(WatchKills)
  BY <1>11 DEF WatchKills, OfExec, CInv, Buffer
<1>12. CASE OfExec(WaitReaps)
  BY <1>12 DEF WaitReaps, OfExec, CInv, Buffer
<1>13. CASE OfExec(WaitHearsWatch)
  BY <1>13 DEF WaitHearsWatch, OfExec, CInv, Buffer
<1>14. CASE OfExec(WaitReturns)
  BY <1>14 DEF WaitReturns, OfExec, CInv, Buffer
<1>15. CASE OfExec(GivesUp)
  BY <1>15 DEF GivesUp, OfExec, WaitGivesUp, CInv, Buffer
<1>16. CASE CannotStart
  BY <1>16 DEF CannotStart, CInv, Buffer
<1>17. CASE Start
  BY <1>17 DEF Start, CInv, Buffer
<1>18. CASE DeadlineCancels
  BY <1>18 DEF DeadlineCancels, DeadlinePasses, CInv, Buffer
<1>19. CASE CopyOwn
  <2>0. /\ kept \in Nat /\ keptLate \in Nat /\ wrote \in Nat /\ spent \in Nat /\ piped \in Nat
        /\ late \in Nat /\ Limit \in Nat /\ LateWrites \in Nat /\ (Chatty => LateWrites > Limit)
    BY CollectAssumption, ChildAssumption
    DEF CollectAssumption, ChildAssumption, CInv, TypeOK, ChildTypeOK
  <2>1. /\ piped > 0 /\ piped' = piped - 1 /\ UNCHANGED <<wrote, spent, late, keptLate>>
        /\ over' = (over \/ TooMuch) /\ kept' = IF over' THEN kept ELSE kept + 1
    BY <1>19 DEF CopyOwn, Write
  <2>2. CASE over
    BY <2>0, <2>1, <2>2 DEF CInv, Buffer
  <2>3. CASE ~over /\ TooMuch
    <3>1. over' /\ kept' = kept
      BY <2>1, <2>3
    <3>2. /\ wrote = kept + piped /\ kept + keptLate + 1 > Limit /\ kept + keptLate <= Limit
          /\ spent <= LateWrites /\ (keptLate + late <= spent \/ (Chatty /\ spent = LateWrites))
      BY <2>3 DEF CInv, Buffer, TooMuch
    <3>3. wrote + spent > Limit
      BY <2>0, <2>1, <3>2
    <3> QED
      BY <2>1, <3>1, <3>2, <3>3 DEF Buffer
  <2>4. CASE ~over /\ ~TooMuch
    <3>1. ~over' /\ kept' = kept + 1
      BY <2>1, <2>4
    <3>2. /\ wrote = kept + piped /\ kept + keptLate + 1 <= Limit
          /\ spent <= LateWrites /\ (keptLate + late <= spent \/ (Chatty /\ spent = LateWrites))
      BY <2>0, <2>4 DEF CInv, Buffer, TooMuch
    <3> QED
      BY <2>0, <2>1, <3>1, <3>2 DEF Buffer
  <2> QED
    BY <2>2, <2>3, <2>4
<1>20. CASE CopyLate
  <2>0. /\ kept \in Nat /\ keptLate \in Nat /\ wrote \in Nat /\ spent \in Nat /\ piped \in Nat
        /\ late \in Nat /\ Limit \in Nat /\ LateWrites \in Nat /\ (Chatty => LateWrites > Limit)
    BY CollectAssumption, ChildAssumption
    DEF CollectAssumption, ChildAssumption, CInv, TypeOK, ChildTypeOK
  <2>1. /\ late > 0 /\ late' = late - 1 /\ UNCHANGED <<wrote, spent, piped, kept>>
        /\ over' = (over \/ TooMuch) /\ keptLate' = IF over' THEN keptLate ELSE keptLate + 1
    BY <1>20 DEF CopyLate, Write
  <2>2. CASE over
    BY <2>0, <2>1, <2>2 DEF CInv, Buffer
  <2>3. CASE ~over /\ TooMuch
    <3>1. over' /\ keptLate' = keptLate
      BY <2>1, <2>3
    <3>2. /\ wrote = kept + piped /\ kept + keptLate + 1 > Limit /\ kept + keptLate <= Limit
          /\ spent <= LateWrites /\ (keptLate + late <= spent \/ (Chatty /\ spent = LateWrites))
      BY <2>3 DEF CInv, Buffer, TooMuch
    <3>3. wrote + spent > Limit
      BY <2>0, <2>1, <3>2
    <3> QED
      BY <2>1, <3>1, <3>2, <3>3 DEF Buffer
  <2>4. CASE ~over /\ ~TooMuch
    <3>1. ~over' /\ keptLate' = keptLate + 1
      BY <2>1, <2>4
    <3>2. /\ wrote = kept + piped /\ kept + keptLate + 1 <= Limit
          /\ spent <= LateWrites /\ (keptLate + late <= spent \/ (Chatty /\ spent = LateWrites))
      BY <2>0, <2>4 DEF CInv, Buffer, TooMuch
    <3> QED
      BY <2>0, <2>1, <3>1, <3>2 DEF Buffer
  <2> QED
    BY <2>2, <2>3, <2>4
<1>21. CASE CopyEnds
  BY <1>21 DEF CopyEnds, InPipe, WriterLeft, CInv, Buffer
<1>22. CASE RunReturns
  BY <1>22 DEF RunReturns, CInv, Buffer
<1>23. CASE UNCHANGED vars
  BY <1>23 DEF vars, CInv, Buffer
<1> QED
  BY <1>1, <1>2, <1>3, <1>4, <1>5, <1>6, <1>7, <1>8, <1>9, <1>10, <1>11, <1>12, <1>13, <1>14,
     <1>15, <1>16, <1>17, <1>18, <1>19, <1>20, <1>21, <1>22, <1>23, Steps

\* Why the run is cancelled and how the copy ends.
LEMMA CauseStep ==
  ASSUME CInv, [Next]_vars
  PROVE  Causes' /\ CopyEnd'
<1>1. CASE OfExec(ChildWrites)
  BY <1>1 DEF ChildWrites, OfExec, RoomInPipe, InPipe, CInv, Causes, CopyEnd, TypeOK, ChildTypeOK,
     Requests, WaitOrder, Started, RunCtxDone
<1>2. CASE OfExec(ChildLeavesHeir)
  BY <1>2 DEF ChildLeavesHeir, OfExec, CInv, Causes, CopyEnd, TypeOK, ChildTypeOK, Requests,
     WaitOrder, Started, RunCtxDone
<1>3. CASE OfExec(ChildExits)
  BY <1>3 DEF ChildExits, OfExec, Ends, CInv, Causes, CopyEnd, TypeOK, ChildTypeOK, Requests,
     WaitOrder, Started, RunCtxDone
<1>4. CASE OfExec(ChildDies)
  BY <1>4 DEF ChildDies, OfExec, Ends, CInv, Causes, CopyEnd, TypeOK, ChildTypeOK, Requests,
     WaitOrder, Started, RunCtxDone
<1>5. CASE OfExec(ChildHandlesTerm)
  BY <1>5 DEF ChildHandlesTerm, OfExec, Ends, CInv, Causes, CopyEnd, TypeOK, ChildTypeOK,
     Requests, WaitOrder, Started, RunCtxDone
<1>6. CASE OfExec(HeirWrites)
  BY <1>6 DEF HeirWrites, OfExec, RoomInPipe, InPipe, CInv, Causes, CopyEnd, TypeOK, ChildTypeOK,
     Requests, WaitOrder, Started, RunCtxDone
<1>7. CASE OfExec(HeirCloses)
  BY <1>7 DEF HeirCloses, OfExec, CInv, Causes, CopyEnd, TypeOK, ChildTypeOK, Requests, WaitOrder,
     Started, RunCtxDone
<1>8. CASE OfExec(TermEndsChild)
  BY <1>8 DEF TermEndsChild, OfExec, Ends, CInv, Causes, CopyEnd, TypeOK, ChildTypeOK, Requests,
     WaitOrder, Started, RunCtxDone
<1>9. CASE OfExec(KillEndsChild)
  BY <1>9 DEF KillEndsChild, OfExec, Ends, CInv, Causes, CopyEnd, TypeOK, ChildTypeOK, Requests,
     WaitOrder, Started, RunCtxDone
<1>10. CASE OfExec(WatchAsks)
  BY <1>10 DEF WatchAsks, OfExec, CInv, Causes, CopyEnd, TypeOK, ChildTypeOK, Requests, WaitOrder,
     Started, RunCtxDone
<1>11. CASE OfExec(WatchKills)
  BY <1>11 DEF WatchKills, OfExec, CInv, Causes, CopyEnd, TypeOK, ChildTypeOK, Requests,
     WaitOrder, Started, RunCtxDone
<1>12. CASE OfExec(WaitReaps)
  BY <1>12 DEF WaitReaps, OfExec, CInv, Causes, CopyEnd, TypeOK, ChildTypeOK, Requests, WaitOrder,
     Started, RunCtxDone
<1>13. CASE OfExec(WaitHearsWatch)
  BY <1>13 DEF WaitHearsWatch, OfExec, CInv, Causes, CopyEnd, TypeOK, ChildTypeOK, Requests,
     WaitOrder, Started, RunCtxDone
<1>14. CASE OfExec(WaitReturns)
  BY <1>14 DEF WaitReturns, OfExec, CInv, Causes, CopyEnd, TypeOK, ChildTypeOK, Requests,
     WaitOrder, Started, RunCtxDone
<1>15. CASE OfExec(GivesUp)
  BY <1>15 DEF GivesUp, OfExec, WaitGivesUp, CInv, Causes, CopyEnd, TypeOK, ChildTypeOK, Requests,
     WaitOrder, Started, RunCtxDone
<1>16. CASE CannotStart
  BY <1>16 DEF CannotStart, CInv, Causes, CopyEnd, TypeOK, ChildTypeOK, Requests, WaitOrder,
     Started, RunCtxDone
<1>17. CASE Start
  BY <1>17 DEF Start, CInv, Causes, CopyEnd, TypeOK, ChildTypeOK, Requests, WaitOrder, Started,
     RunCtxDone
<1>18. CASE DeadlineCancels
  BY <1>18 DEF DeadlineCancels, DeadlinePasses, CInv, Causes, CopyEnd, TypeOK, ChildTypeOK,
     Requests, WaitOrder, Started, RunCtxDone
<1>19. CASE CopyOwn
  BY <1>19 DEF CopyOwn, Write, TooMuch, CInv, Causes, CopyEnd, TypeOK, ChildTypeOK, Requests,
     WaitOrder, Started, RunCtxDone
<1>20. CASE CopyLate
  BY <1>20 DEF CopyLate, Write, TooMuch, CInv, Causes, CopyEnd, TypeOK, ChildTypeOK, Requests,
     WaitOrder, Started, RunCtxDone
<1>21. CASE CopyEnds
  BY <1>21 DEF CopyEnds, InPipe, WriterLeft, CInv, Causes, CopyEnd, TypeOK, ChildTypeOK, Requests,
     WaitOrder, Started, RunCtxDone
<1>22. CASE RunReturns
  BY <1>22 DEF RunReturns, CInv, Causes, CopyEnd, TypeOK, ChildTypeOK, Requests, WaitOrder,
     Started, RunCtxDone
<1>23. CASE UNCHANGED vars
  BY <1>23 DEF vars, CInv, Causes, CopyEnd, TypeOK, ChildTypeOK, Requests, WaitOrder, Started,
     RunCtxDone
<1> QED
  BY <1>1, <1>2, <1>3, <1>4, <1>5, <1>6, <1>7, <1>8, <1>9, <1>10, <1>11, <1>12, <1>13, <1>14,
     <1>15, <1>16, <1>17, <1>18, <1>19, <1>20, <1>21, <1>22, <1>23, Steps

\* What run returns.
LEMMA OutcomeStep ==
  ASSUME CInv, [Next]_vars
  PROVE  Outcome'
<1>1. CASE OfExec(ChildWrites)
  BY <1>1 DEF ChildWrites, OfExec, RoomInPipe, InPipe, CInv, Outcome, WaitOrder, Causes, Started,
     TypeOK, ChildTypeOK
<1>2. CASE OfExec(ChildLeavesHeir)
  BY <1>2 DEF ChildLeavesHeir, OfExec, CInv, Outcome, WaitOrder, Causes, Started, TypeOK,
     ChildTypeOK
<1>3. CASE OfExec(ChildExits)
  BY <1>3 DEF ChildExits, OfExec, Ends, CInv, Outcome, WaitOrder, Causes, Started, TypeOK,
     ChildTypeOK
<1>4. CASE OfExec(ChildDies)
  BY <1>4 DEF ChildDies, OfExec, Ends, CInv, Outcome, WaitOrder, Causes, Started, TypeOK,
     ChildTypeOK
<1>5. CASE OfExec(ChildHandlesTerm)
  BY <1>5 DEF ChildHandlesTerm, OfExec, Ends, CInv, Outcome, WaitOrder, Causes, Started, TypeOK,
     ChildTypeOK
<1>6. CASE OfExec(HeirWrites)
  BY <1>6 DEF HeirWrites, OfExec, RoomInPipe, InPipe, CInv, Outcome, WaitOrder, Causes, Started,
     TypeOK, ChildTypeOK
<1>7. CASE OfExec(HeirCloses)
  BY <1>7 DEF HeirCloses, OfExec, CInv, Outcome, WaitOrder, Causes, Started, TypeOK, ChildTypeOK
<1>8. CASE OfExec(TermEndsChild)
  BY <1>8 DEF TermEndsChild, OfExec, Ends, CInv, Outcome, WaitOrder, Causes, Started, TypeOK,
     ChildTypeOK
<1>9. CASE OfExec(KillEndsChild)
  BY <1>9 DEF KillEndsChild, OfExec, Ends, CInv, Outcome, WaitOrder, Causes, Started, TypeOK,
     ChildTypeOK
<1>10. CASE OfExec(WatchAsks)
  BY <1>10 DEF WatchAsks, OfExec, CInv, Outcome, WaitOrder, Causes, Started, TypeOK, ChildTypeOK
<1>11. CASE OfExec(WatchKills)
  BY <1>11 DEF WatchKills, OfExec, CInv, Outcome, WaitOrder, Causes, Started, TypeOK, ChildTypeOK
<1>12. CASE OfExec(WaitReaps)
  BY <1>12 DEF WaitReaps, OfExec, CInv, Outcome, WaitOrder, Causes, Started, TypeOK, ChildTypeOK
<1>13. CASE OfExec(WaitHearsWatch)
  BY <1>13 DEF WaitHearsWatch, OfExec, CInv, Outcome, WaitOrder, Causes, Started, TypeOK,
     ChildTypeOK
<1>14. CASE OfExec(WaitReturns)
  BY <1>14 DEF WaitReturns, OfExec, CInv, Outcome, WaitOrder, Causes, Started, TypeOK, ChildTypeOK
<1>15. CASE OfExec(GivesUp)
  BY <1>15 DEF GivesUp, OfExec, WaitGivesUp, CInv, Outcome, WaitOrder, Causes, Started, TypeOK,
     ChildTypeOK
<1>16. CASE CannotStart
  BY <1>16 DEF CannotStart, CInv, Outcome, WaitOrder, Causes, Started, TypeOK, ChildTypeOK
<1>17. CASE Start
  BY <1>17 DEF Start, CInv, Outcome, WaitOrder, Causes, Started, TypeOK, ChildTypeOK
<1>18. CASE DeadlineCancels
  BY <1>18 DEF DeadlineCancels, DeadlinePasses, CInv, Outcome, WaitOrder, Causes, Started, TypeOK,
     ChildTypeOK
<1>19. CASE CopyOwn
  BY <1>19 DEF CopyOwn, Write, TooMuch, CInv, Outcome, WaitOrder, Causes, Started, TypeOK,
     ChildTypeOK
<1>20. CASE CopyLate
  BY <1>20 DEF CopyLate, Write, TooMuch, CInv, Outcome, WaitOrder, Causes, Started, TypeOK,
     ChildTypeOK
<1>21. CASE CopyEnds
  BY <1>21 DEF CopyEnds, InPipe, WriterLeft, CInv, Outcome, WaitOrder, Causes, Started, TypeOK,
     ChildTypeOK
<1>22. CASE RunReturns
  <2>1. UNCHANGED childVars /\ UNCHANGED cause /\ main' = "returned" /\ waitPc = "returned"
    BY <1>22 DEF RunReturns
  <2>2. answer' = "toolarge" => cause = "toolarge"
    BY <1>22 DEF RunReturns
  <2>3. answer' = "result" =>
          cause # "toolarge" /\ res'.cut = ended.cut /\ res'.exit = ended.exit
    BY <1>22 DEF RunReturns
  <2> QED
    BY <2>1, <2>2, <2>3, EndedType DEF Outcome, CInv, WaitOrder, TypeOK, ChildTypeOK
<1>23. CASE UNCHANGED vars
  BY <1>23 DEF vars, CInv, Outcome, WaitOrder, Causes, Started, TypeOK, ChildTypeOK
<1> QED
  BY <1>1, <1>2, <1>3, <1>4, <1>5, <1>6, <1>7, <1>8, <1>9, <1>10, <1>11, <1>12, <1>13, <1>14,
     <1>15, <1>16, <1>17, <1>18, <1>19, <1>20, <1>21, <1>22, <1>23, Steps

\* What is known of the runner holds throughout.
LEMMA Invariance == Spec => []CInv
<1>1. CInv /\ [Next]_vars => CInv'
  BY TypeStep, WaitStep, BufferStep, CauseStep, OutcomeStep DEF CInv
<1> QED
  BY <1>1, InitCInv, PTL DEF Spec

-----------------------------------------------------------------------------
(* What readRun and runReading make of it.                                 *)

\* The status of jz comes with a document, and both are of the result.
ReadInv ==
  /\ document # "none" => exit # "none" /\ answer = "result" /\ ~res.cut
  /\ chooses /\ document = "empty" => res.exit = "zero"
  /\ exit = "zero" => document # "none" /\ res.exit = "zero"
  /\ exit # "none" /\ answer = "result" /\ res.exit # "zero" => exit = "child"
  /\ exit # "none" => main = "returned"
  /\ res.cut /\ answer = "result" => res.exit # "zero"

\* Reading the result keeps it, and what is made of the result.
LEMMA RunStep ==
  ASSUME CInv, ReadInv, [RunNext]_runVars
  PROVE  CInv' /\ ReadInv'
<1>1. [Next]_vars
  BY DEF RunNext, RunReads, NotRun, CutShort, PrintedNothing, ReadsOutput, ReadsAsGiven, Finishes,
         Finished, runVars
<1>2. CInv'
  BY <1>1, TypeStep, WaitStep, BufferStep, CauseStep, OutcomeStep DEF CInv
<1>3. res.cut /\ answer = "result" => res.exit # "zero"
  BY DEF ReadInv
<1>4. res.exit \in {"zero", "nonzero"}
  BY DEF CInv, TypeOK, Results
<1>5. CASE Next /\ main # "returned" /\ UNCHANGED readVars
  <2>1. exit = "none" /\ document = "none"
    BY <1>5 DEF ReadInv
  <2>2. res'.cut /\ answer' = "result" => res'.exit # "zero"
    BY <1>2 DEF CInv, Outcome
  <2> QED
    BY <1>2, <1>5, <2>1, <2>2 DEF ReadInv, readVars
<1>6. CASE NotRun
  BY <1>2, <1>3, <1>6 DEF NotRun, MayRead, Finishes, ReadInv, vars
<1>7. CASE CutShort
  BY <1>2, <1>3, <1>7 DEF CutShort, HasResult, MayRead, Finishes, Child, ReadInv, vars
<1>8. CASE PrintedNothing
  BY <1>2, <1>3, <1>4, <1>8 DEF PrintedNothing, Failures, Readable, HasResult, MayRead, Finishes,
     ReadInv, vars
<1>9. CASE ReadsOutput
  BY <1>2, <1>3, <1>4, <1>9 DEF ReadsOutput, Failures, Readable, HasResult, MayRead, Finishes,
     Child, OrChild, ReadInv, vars
<1>10. CASE ReadsAsGiven
  BY <1>2, <1>3, <1>4, <1>10 DEF ReadsAsGiven, Failures, Readable, HasResult, MayRead, Finishes,
     Child, OrChild, ReadInv, vars
<1>11. CASE UNCHANGED runVars
  BY <1>2, <1>11 DEF runVars, vars, readVars, ReadInv
<1> QED
  BY <1>2, <1>5, <1>6, <1>7, <1>8, <1>9, <1>10, <1>11 DEF RunNext, RunReads, Finished

\* It holds of the whole of jz run as well.
LEMMA RunInvariance == RunSpec => [](CInv /\ ReadInv)
<1>1. RunInit => CInv /\ ReadInv
  BY InitCInv DEF RunInit, Init, NoResult, ReadInv
<1> QED
  BY <1>1, RunStep, PTL DEF RunSpec

-----------------------------------------------------------------------------

\* A run nothing cut short returns everything the command printed.
THEOREM WholeIsKept == RunSpec => []KeptWhole
<1>1. CInv => KeptWhole
  <2> SUFFICES ASSUME CInv, answer = "result", cause = "none" PROVE kept = wrote
    BY DEF KeptWhole
  <2>1. ~over /\ ~timedOut /\ ~cancelled
    BY DEF CInv, Causes, TypeOK, ChildTypeOK
  <2>2. copier = "done"
    BY DEF CInv, Outcome, WaitOrder
  <2>3. piped = 0
    BY <2>1, <2>2 DEF CInv, CopyEnd, RunCtxDone
  <2> QED
    BY <2>1, <2>3 DEF CInv, Buffer, TypeOK, ChildTypeOK
<1> QED
  BY <1>1, RunInvariance, PTL

\* The buffer never holds more than the limit, and a run fails for it only
\* if more was printed.
THEOREM LimitHolds == RunSpec => []LimitIsExact
<1>1. CInv => LimitIsExact
  BY DEF CInv, Buffer, Causes, Outcome, LimitIsExact
<1> QED
  BY <1>1, RunInvariance, PTL

\* A document is one of output the command ended by itself and, short of the
\* deadline, of all of it; status zero always comes with one.
THEOREM DocumentsAreWhole == RunSpec => []DocumentIsWhole
<1>1. CInv /\ ReadInv => DocumentIsWhole
  <2> SUFFICES ASSUME CInv, ReadInv PROVE DocumentIsWhole
    OBVIOUS
  <2>1. ASSUME document # "none"
        PROVE  endedBy = "self" /\ (cause = "none" => kept = wrote)
    <3>1. answer = "result" /\ ~res.cut
      BY <2>1 DEF ReadInv
    <3>2. proc # "running" /\ end # "signal" /\ (end # "zero" /\ ~HasSignals => ~timedOut)
      BY <3>1 DEF CInv, Outcome, WaitOrder
    <3>3. cause = "none" \/ timedOut
      BY <3>1 DEF CInv, Outcome, Causes, TypeOK
    <3>4. endedBy = "request" => timedOut
      BY <3>3 DEF CInv, Requests, RunCtxDone, Causes
    <3>5. endedBy = "self"
      BY <3>2, <3>4 DEF CInv, Endings, TypeOK, ChildTypeOK
    <3>6. cause = "none" => kept = wrote
      <4> SUFFICES ASSUME cause = "none" PROVE kept = wrote
        OBVIOUS
      <4>1. ~over /\ ~timedOut /\ ~cancelled
        BY DEF CInv, Causes, TypeOK, ChildTypeOK
      <4>2. piped = 0
        BY <3>1, <4>1 DEF CInv, Outcome, WaitOrder, CopyEnd, RunCtxDone
      <4> QED
        BY <4>1, <4>2 DEF CInv, Buffer, TypeOK, ChildTypeOK
    <3> QED
      BY <3>5, <3>6
  <2>2. chooses /\ document = "empty" => end = "zero"
    BY DEF ReadInv, CInv, Outcome
  <2>3. exit = "zero" => document # "none" /\ end = "zero"
    BY DEF ReadInv, CInv, Outcome
  <2> QED
    BY <2>1, <2>2, <2>3 DEF DocumentIsWhole
<1> QED
  BY <1>1, RunInvariance, PTL

\* A command that failed is mirrored, whatever became of its output.
THEOREM FailuresAreMirrored == RunSpec => []FailureIsMirrored
<1>1. CInv /\ ReadInv => FailureIsMirrored
  BY DEF CInv, Outcome, ReadInv, FailureIsMirrored
<1> QED
  BY <1>1, RunInvariance, PTL
=============================================================================
