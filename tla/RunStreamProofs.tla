-------------------------- MODULE RunStreamProofs --------------------------
(***************************************************************************)
(* What StreamRunner's runs, and those of jz run --stream with it, check   *)
(* on small instances, proved for every number of chunks, every pipe, with *)
(* and without signals, and with heirs that print without end.             *)
(*                                                                         *)
(* The argument for the runner.  Until the consumer has returned, what the *)
(* command has printed is what the consumer was given and what the pipe    *)
(* still holds (Accounted).  A read ends the output only when the pipe     *)
(* holds nothing and the command has ended, so nothing can be added        *)
(* afterwards (AtEnd).  By then the waiter has recorded how the command    *)
(* ended, and only a request the runner itself made can have gone          *)
(* unrecorded, which needs a consumer that has already returned (Recorded, *)
(* Requests).                                                              *)
(*                                                                         *)
(* The argument for jz.  Every step of RunStream but one is a step of      *)
(* StreamRunner or leaves it alone; FormatChosen lets the consumer ask     *)
(* again for output that has ended, which StreamRunner's inductive         *)
(* invariant allows.  So what was proved of the runner holds of jz, and on *)
(* top of it: what the stream came to is what the consumer told the runner *)
(* (Codes); only a stream that failed, or the deadline, asks the command   *)
(* to go (Asking); so the result names as stopped exactly the commands     *)
(* that were (Verdict).                                                    *)
(***************************************************************************)
EXTENDS RunStream, TLAPS

\* Which ends go with which causes.
Endings ==
  /\ proc = "running" <=> end = "none"
  /\ proc = "running" <=> endedBy = "none"
  /\ end = "zero" => endedBy = "self"
  /\ end = "nonzero" /\ HasSignals => endedBy = "self"
  /\ end = "nonzero" => endedBy # "outsider"
  /\ end = "signal" => endedBy # "self"

\* Nobody is asked to go without a reason, and the runner's own reason is
\* a consumer that has returned.
Requests ==
  /\ asked # {} \/ watch \in {"asked", "killed"} => RunCtxDone
  /\ endedBy = "request" => asked # {}
  /\ cancelled => main \in {"waiting", "returned"}

\* The waiting goroutine follows exec's Wait.
WaitOrder ==
  /\ waitPc # "process" => proc = "reaped"
  /\ waitPc \in {"copiers", "returned"} => (waitErr = "exit" <=> end # "zero")
  /\ waiter # "waiting" => waitPc = "returned"

\* What the waiter has recorded by the time it closes.
Recorded ==
  waiter \in {"recording", "closed"} =>
    /\ ~resCut => endedBy = "self" \/ cancelled
    /\ resCut /\ HasSignals => end = "signal"
    /\ resSignal <=> end = "signal"
    /\ resExit = "zero" <=> end = "zero"
    /\ resCut => end # "zero"
    /\ end # "zero" => waitedOK

\* The consumer reads only inside consume; at the end of the output it may
\* ask again.
ReadOrder ==
  /\ reader \in {"reading", "ateof", "attimeout"} => main = "consuming"
  /\ main = "starting" => reader = "idle"
  /\ main = "consuming" /\ reader = "done" => feed # "open"

Accounted == main \in {"starting", "consuming"} => wrote = ownRead + piped

AtEnd ==
  /\ reader \in {"ateof", "attimeout"} => piped = 0 /\ proc # "running"
  /\ feed # "open" => Waited /\ proc # "running" /\ ownRead = wrote /\ (feed = "cut" <=> resCut)

Answers == answer = "result" => Waited

IInv == /\ TypeOK /\ Endings /\ Requests /\ WaitOrder /\ Recorded
        /\ ReadOrder /\ Accounted /\ AtEnd /\ EndIsHonest
        /\ Answers /\ StatusKept

-----------------------------------------------------------------------------

\* Every step is one of these.
LEMMA Steps ==
  ASSUME [Next]_vars
  PROVE  \/ OfExec(ChildWrites)
         \/ OfExec(ChildLeavesHeir)
         \/ OfExec(ChildExits)
         \/ OfExec(ChildDies)
         \/ OfExec(ChildHandlesTerm)
         \/ OfExec(HeirWrites)
         \/ OfExec(HeirCloses)
         \/ OfExec(DeadlinePasses)
         \/ OfExec(TermEndsChild)
         \/ OfExec(KillEndsChild)
         \/ OfExec(WatchAsks)
         \/ OfExec(WatchKills)
         \/ OfExec(WaitReaps)
         \/ OfExec(WaitHearsWatch)
         \/ OfExec(WaitReturns)
         \/ OfExec(WaitGivesUp)
         \/ CannotStart
         \/ Start
         \/ WaiterSetsDeadline
         \/ WaiterRecords
         \/ WaiterCloses
         \/ GracePasses
         \/ StderrCopied
         \/ BeginRead
         \/ ReadOwn
         \/ ReadLate
         \/ ReadEOF
         \/ ReadTimesOut
         \/ ReadEnds
         \/ ConsumerReturns
         \/ Drain
         \/ StreamReturns
         \/ UNCHANGED vars
  BY DEF Next, Outside, Exec, Waiting, Reading, Calling, Returned, ChildEnv, ChildSystem, OfExec

USE DEF procVars, pipeVars, ctxVars, execVars, childVars, resVars, mainVars, readVars, waiterVars

LEMMA TypeInit == Init => TypeOK
<1> SUFFICES ASSUME Init PROVE TypeOK
  OBVIOUS
<1>1. copier \in {"none", "copying", "done"}
  <2>1. CASE Copied
    BY <2>1 DEF Init, ChildInit
  <2>2. CASE ~Copied
    BY <2>2 DEF Init, ChildInit
  <2> QED
    BY <2>1, <2>2
<1>2. ChildTypeOK
  BY <1>1 DEF Init, ChildInit, ChildTypeOK
<1> QED
  BY <1>2 DEF Init, TypeOK

\* What is recorded of a command is of the types the Result gives it.
LEMMA EndedType ==
  ASSUME TypeOK
  PROVE  /\ ended.ok \in BOOLEAN /\ ended.left \in BOOLEAN /\ ended.signal \in BOOLEAN
         /\ ended.cut \in BOOLEAN /\ ended.exit \in {"zero", "nonzero"}
<1>1. CASE waitErr = "exit"
  BY <1>1 DEF ended
<1>2. CASE waitErr \in {"nil", "delay", "ctx"}
  BY <1>2 DEF ended
<1> QED
  BY <1>1, <1>2 DEF TypeOK, ChildTypeOK

\* Only the exit error makes a command signalled, cut or failed.
LEMMA EndedValues ==
  ASSUME TypeOK
  PROVE  /\ ended.signal <=> waitErr = "exit" /\ end = "signal"
         /\ ended.cut <=> waitErr = "exit" /\ (end = "signal" \/ (~HasSignals /\ timedOut))
         /\ ended.exit = "zero" <=> waitErr # "exit"
         /\ waitErr = "exit" => ended.ok
<1>1. CASE waitErr = "exit"
  BY <1>1 DEF ended
<1>2. CASE waitErr \in {"nil", "delay", "ctx"}
  BY <1>2 DEF ended
<1> QED
  BY <1>1, <1>2 DEF TypeOK, ChildTypeOK

LEMMA TypeStep == TypeOK /\ [Next]_vars => TypeOK'
<1> SUFFICES ASSUME TypeOK, [Next]_vars PROVE TypeOK'
  OBVIOUS
<1>1. CASE OfExec(ChildWrites)
  BY <1>1, ChildAssumption DEF ChildAssumption, TypeOK, ChildTypeOK, Started, ChildWrites, OfExec, OwnVars, RoomInPipe, InPipe
<1>2. CASE OfExec(ChildLeavesHeir)
  BY <1>2, ChildAssumption DEF ChildAssumption, TypeOK, ChildTypeOK, Started, ChildLeavesHeir, OfExec, OwnVars
<1>3. CASE OfExec(ChildExits)
  BY <1>3, ChildAssumption DEF ChildAssumption, TypeOK, ChildTypeOK, Started, ChildExits, OfExec, OwnVars, Ends
<1>4. CASE OfExec(ChildDies)
  BY <1>4, ChildAssumption DEF ChildAssumption, TypeOK, ChildTypeOK, Started, ChildDies, OfExec, OwnVars, Ends
<1>5. CASE OfExec(ChildHandlesTerm)
  BY <1>5, ChildAssumption DEF ChildAssumption, TypeOK, ChildTypeOK, Started, ChildHandlesTerm, OfExec, OwnVars, Ends
<1>6. CASE OfExec(HeirWrites)
  BY <1>6, ChildAssumption DEF ChildAssumption, TypeOK, ChildTypeOK, Started, HeirWrites, OfExec, OwnVars, RoomInPipe, InPipe
<1>7. CASE OfExec(HeirCloses)
  BY <1>7, ChildAssumption DEF ChildAssumption, TypeOK, ChildTypeOK, Started, HeirCloses, OfExec, OwnVars
<1>8. CASE OfExec(DeadlinePasses)
  BY <1>8, ChildAssumption DEF ChildAssumption, TypeOK, ChildTypeOK, Started, DeadlinePasses, OfExec, OwnVars
<1>9. CASE OfExec(TermEndsChild)
  BY <1>9, ChildAssumption DEF ChildAssumption, TypeOK, ChildTypeOK, Started, TermEndsChild, OfExec, OwnVars, Ends
<1>10. CASE OfExec(KillEndsChild)
  BY <1>10, ChildAssumption DEF ChildAssumption, TypeOK, ChildTypeOK, Started, KillEndsChild, OfExec, OwnVars, Ends
<1>11. CASE OfExec(WatchAsks)
  <2>1. asked' \subseteq {"term", "kill"} /\ watchErr' \in {"nil", "ctx"}
    <3>1. (IF HasSignals THEN "term" ELSE "kill") \in {"term", "kill"}
      OBVIOUS
    <3> QED
      BY <1>11, <3>1 DEF OfExec, WatchAsks, TypeOK, ChildTypeOK
  <2> QED
    BY <1>11, <2>1 DEF TypeOK, ChildTypeOK, OfExec, OwnVars, WatchAsks
<1>12. CASE OfExec(WatchKills)
  BY <1>12, ChildAssumption DEF ChildAssumption, TypeOK, ChildTypeOK, Started, WatchKills, OfExec, OwnVars
<1>13. CASE OfExec(WaitReaps)
  BY <1>13, ChildAssumption DEF ChildAssumption, TypeOK, ChildTypeOK, Started, WaitReaps, OfExec, OwnVars
<1>14. CASE OfExec(WaitHearsWatch)
  BY <1>14, ChildAssumption DEF ChildAssumption, TypeOK, ChildTypeOK, Started, WaitHearsWatch, OfExec, OwnVars
<1>15. CASE OfExec(WaitReturns)
  BY <1>15, ChildAssumption DEF ChildAssumption, TypeOK, ChildTypeOK, Started, WaitReturns, OfExec, OwnVars
<1>16. CASE OfExec(WaitGivesUp)
  BY <1>16, ChildAssumption DEF ChildAssumption, TypeOK, ChildTypeOK, Started, WaitGivesUp, OfExec, OwnVars
<1>17. CASE CannotStart
  BY <1>17, ChildAssumption DEF ChildAssumption, TypeOK, ChildTypeOK, Started, CannotStart
<1>18. CASE Start
  BY <1>18, ChildAssumption DEF ChildAssumption, TypeOK, ChildTypeOK, Started, Start
<1>19. CASE WaiterSetsDeadline
  BY <1>19, ChildAssumption DEF ChildAssumption, TypeOK, ChildTypeOK, Started, WaiterSetsDeadline
<1>20. CASE WaiterRecords
  BY <1>20, EndedType DEF TypeOK, ChildTypeOK, WaiterRecords
<1>21. CASE WaiterCloses
  BY <1>21, ChildAssumption DEF ChildAssumption, TypeOK, ChildTypeOK, Started, WaiterCloses
<1>22. CASE GracePasses
  BY <1>22, ChildAssumption DEF ChildAssumption, TypeOK, ChildTypeOK, Started, GracePasses
<1>23. CASE StderrCopied
  BY <1>23, ChildAssumption DEF ChildAssumption, TypeOK, ChildTypeOK, Started, StderrCopied
<1>24. CASE BeginRead
  BY <1>24, ChildAssumption DEF ChildAssumption, TypeOK, ChildTypeOK, Started, BeginRead
<1>25. CASE ReadOwn
  BY <1>25, ChildAssumption DEF ChildAssumption, TypeOK, ChildTypeOK, Started, ReadOwn
<1>26. CASE ReadLate
  BY <1>26, ChildAssumption DEF ChildAssumption, TypeOK, ChildTypeOK, Started, ReadLate
<1>27. CASE ReadEOF
  BY <1>27, ChildAssumption DEF ChildAssumption, TypeOK, ChildTypeOK, Started, ReadEOF, InPipe, WriterLeft
<1>28. CASE ReadTimesOut
  BY <1>28, ChildAssumption DEF ChildAssumption, TypeOK, ChildTypeOK, Started, ReadTimesOut, InPipe, WriterLeft, DeadlineSet
<1>29. CASE ReadEnds
  <2>1. PICK left \in BOOLEAN : EndOfOutput(left)
    BY <1>29 DEF ReadEnds
  <2>2. resLeftOpen' \in BOOLEAN /\ feed' \in {"whole", "cut"}
    BY <2>1 DEF EndOfOutput, TypeOK
  <2> QED
    BY <2>1, <2>2 DEF TypeOK, ChildTypeOK, EndOfOutput
<1>30. CASE ConsumerReturns
  BY <1>30, ChildAssumption DEF ChildAssumption, TypeOK, ChildTypeOK, Started, ConsumerReturns, ConsumeReturns
<1>31. CASE Drain
  BY <1>31, ChildAssumption DEF ChildAssumption, TypeOK, ChildTypeOK, Started, Drain
<1>32. CASE StreamReturns
  BY <1>32, ChildAssumption DEF ChildAssumption, TypeOK, ChildTypeOK, Started, StreamReturns
<1>33. CASE UNCHANGED vars
  BY <1>33 DEF vars, ChildAssumption, TypeOK, ChildTypeOK, Started
<1> QED
  BY <1>1, <1>2, <1>3, <1>4, <1>5, <1>6, <1>7, <1>8, <1>9, <1>10, <1>11, <1>12, <1>13, <1>14, <1>15, <1>16, <1>17, <1>18, <1>19, <1>20, <1>21, <1>22, <1>23, <1>24, <1>25, <1>26, <1>27, <1>28, <1>29, <1>30, <1>31, <1>32, <1>33, Steps

\* The state of the command, its pipe, the goroutines and the result stays
\* of its type.
THEOREM TypeCorrect == Spec => []TypeOK
  BY TypeInit, TypeStep, PTL DEF Spec

LEMMA IndInit == Init => IInv
  BY TypeInit DEF Init, ChildInit, IInv, Endings, Requests, WaitOrder, Recorded, ReadOrder, Accounted, AtEnd, EndIsHonest, Answers, StatusKept, Waited, RunCtxDone, Started

LEMMA IndStep == IInv /\ [Next]_vars => IInv'
<1> SUFFICES ASSUME IInv, [Next]_vars PROVE IInv'
  OBVIOUS
<1>0. TypeOK'
  BY TypeStep DEF IInv
<1>1. CASE OfExec(ChildWrites)
  BY <1>1, <1>0 DEF IInv, TypeOK, ChildTypeOK, Endings, Requests, WaitOrder, Recorded, ReadOrder, Accounted, AtEnd, EndIsHonest, Answers, StatusKept, Waited, RunCtxDone, Started, ChildWrites, OfExec, OwnVars, RoomInPipe, InPipe
<1>2. CASE OfExec(ChildLeavesHeir)
  BY <1>2, <1>0 DEF IInv, TypeOK, ChildTypeOK, Endings, Requests, WaitOrder, Recorded, ReadOrder, Accounted, AtEnd, EndIsHonest, Answers, StatusKept, Waited, RunCtxDone, Started, ChildLeavesHeir, OfExec, OwnVars
<1>3. CASE OfExec(ChildExits)
  BY <1>3, <1>0 DEF IInv, TypeOK, ChildTypeOK, Endings, Requests, WaitOrder, Recorded, ReadOrder, Accounted, AtEnd, EndIsHonest, Answers, StatusKept, Waited, RunCtxDone, Started, ChildExits, OfExec, OwnVars, Ends
<1>4. CASE OfExec(ChildDies)
  BY <1>4, <1>0 DEF IInv, TypeOK, ChildTypeOK, Endings, Requests, WaitOrder, Recorded, ReadOrder, Accounted, AtEnd, EndIsHonest, Answers, StatusKept, Waited, RunCtxDone, Started, ChildDies, OfExec, OwnVars, Ends
<1>5. CASE OfExec(ChildHandlesTerm)
  BY <1>5, <1>0 DEF IInv, TypeOK, ChildTypeOK, Endings, Requests, WaitOrder, Recorded, ReadOrder, Accounted, AtEnd, EndIsHonest, Answers, StatusKept, Waited, RunCtxDone, Started, ChildHandlesTerm, OfExec, OwnVars, Ends
<1>6. CASE OfExec(HeirWrites)
  BY <1>6, <1>0 DEF IInv, TypeOK, ChildTypeOK, Endings, Requests, WaitOrder, Recorded, ReadOrder, Accounted, AtEnd, EndIsHonest, Answers, StatusKept, Waited, RunCtxDone, Started, HeirWrites, OfExec, OwnVars, RoomInPipe, InPipe
<1>7. CASE OfExec(HeirCloses)
  BY <1>7, <1>0 DEF IInv, TypeOK, ChildTypeOK, Endings, Requests, WaitOrder, Recorded, ReadOrder, Accounted, AtEnd, EndIsHonest, Answers, StatusKept, Waited, RunCtxDone, Started, HeirCloses, OfExec, OwnVars
<1>8. CASE OfExec(DeadlinePasses)
  BY <1>8, <1>0 DEF IInv, TypeOK, ChildTypeOK, Endings, Requests, WaitOrder, Recorded, ReadOrder, Accounted, AtEnd, EndIsHonest, Answers, StatusKept, Waited, RunCtxDone, Started, DeadlinePasses, OfExec, OwnVars
<1>9. CASE OfExec(TermEndsChild)
  BY <1>9, <1>0 DEF IInv, TypeOK, ChildTypeOK, Endings, Requests, WaitOrder, Recorded, ReadOrder, Accounted, AtEnd, EndIsHonest, Answers, StatusKept, Waited, RunCtxDone, Started, TermEndsChild, OfExec, OwnVars, Ends
<1>10. CASE OfExec(KillEndsChild)
  BY <1>10, <1>0 DEF IInv, TypeOK, ChildTypeOK, Endings, Requests, WaitOrder, Recorded, ReadOrder, Accounted, AtEnd, EndIsHonest, Answers, StatusKept, Waited, RunCtxDone, Started, KillEndsChild, OfExec, OwnVars, Ends
<1>11. CASE OfExec(WatchAsks)
  BY <1>11, <1>0 DEF IInv, TypeOK, ChildTypeOK, Endings, Requests, WaitOrder, Recorded, ReadOrder, Accounted, AtEnd, EndIsHonest, Answers, StatusKept, Waited, RunCtxDone, Started, WatchAsks, OfExec, OwnVars
<1>12. CASE OfExec(WatchKills)
  <2>1. RunCtxDone
    BY <1>12 DEF OfExec, WatchKills, IInv, Requests, RunCtxDone
  <2> QED
    BY <1>12, <2>1, <1>0 DEF IInv, TypeOK, ChildTypeOK, Endings, Requests, WaitOrder, Recorded, ReadOrder, Accounted, AtEnd, EndIsHonest, Answers, StatusKept, Waited, RunCtxDone, Started, WatchKills, OfExec, OwnVars
<1>13. CASE OfExec(WaitReaps)
  BY <1>13, <1>0 DEF IInv, TypeOK, ChildTypeOK, Endings, Requests, WaitOrder, Recorded, ReadOrder, Accounted, AtEnd, EndIsHonest, Answers, StatusKept, Waited, RunCtxDone, Started, WaitReaps, OfExec, OwnVars
<1>14. CASE OfExec(WaitHearsWatch)
  BY <1>14, <1>0 DEF IInv, TypeOK, ChildTypeOK, Endings, Requests, WaitOrder, Recorded, ReadOrder, Accounted, AtEnd, EndIsHonest, Answers, StatusKept, Waited, RunCtxDone, Started, WaitHearsWatch, OfExec, OwnVars
<1>15. CASE OfExec(WaitReturns)
  BY <1>15, <1>0 DEF IInv, TypeOK, ChildTypeOK, Endings, Requests, WaitOrder, Recorded, ReadOrder, Accounted, AtEnd, EndIsHonest, Answers, StatusKept, Waited, RunCtxDone, Started, WaitReturns, OfExec, OwnVars
<1>16. CASE OfExec(WaitGivesUp)
  BY <1>16, <1>0 DEF IInv, TypeOK, ChildTypeOK, Endings, Requests, WaitOrder, Recorded, ReadOrder, Accounted, AtEnd, EndIsHonest, Answers, StatusKept, Waited, RunCtxDone, Started, WaitGivesUp, OfExec, OwnVars
<1>17. CASE CannotStart
  BY <1>17, <1>0 DEF IInv, TypeOK, ChildTypeOK, Endings, Requests, WaitOrder, Recorded, ReadOrder, Accounted, AtEnd, EndIsHonest, Answers, StatusKept, Waited, RunCtxDone, Started, CannotStart
<1>18. CASE Start
  BY <1>18, <1>0 DEF IInv, TypeOK, ChildTypeOK, Endings, Requests, WaitOrder, Recorded, ReadOrder, Accounted, AtEnd, EndIsHonest, Answers, StatusKept, Waited, RunCtxDone, Started, Start
<1>19. CASE WaiterSetsDeadline
  BY <1>19, <1>0 DEF IInv, TypeOK, ChildTypeOK, Endings, Requests, WaitOrder, Recorded, ReadOrder, Accounted, AtEnd, EndIsHonest, Answers, StatusKept, Waited, RunCtxDone, Started, WaiterSetsDeadline
<1>20. CASE WaiterRecords
  <2>1. waitErr = "exit" <=> end # "zero"
    BY <1>20 DEF WaiterRecords, IInv, WaitOrder
  <2>2. /\ resCut' <=> end # "zero" /\ (end = "signal" \/ (~HasSignals /\ timedOut))
        /\ resSignal' <=> end = "signal"
        /\ resExit' = "zero" <=> end = "zero"
        /\ end # "zero" => waitedOK'
    BY <1>20, <2>1, EndedValues DEF WaiterRecords, IInv
  <2>3. proc = "reaped"
    BY <1>20 DEF WaiterRecords, IInv, WaitOrder
  <2>4. ~resCut' => endedBy = "self" \/ cancelled
    BY <2>2, <2>3 DEF IInv, TypeOK, ChildTypeOK, Endings, Requests, RunCtxDone
  <2>5. Recorded'
    BY <1>20, <2>2, <2>4 DEF WaiterRecords, Recorded
  <2>6. Endings' /\ Requests' /\ WaitOrder' /\ ReadOrder' /\ Accounted' /\ AtEnd' /\ EndIsHonest'
    BY <1>20 DEF IInv, Endings, Requests, WaitOrder, ReadOrder, Accounted, AtEnd, EndIsHonest,
                 WaiterRecords, RunCtxDone, Waited
  <2>7. Answers' /\ StatusKept'
    BY <1>20 DEF IInv, Answers, StatusKept, WaiterRecords, Waited
  <2> QED
    BY <1>0, <2>5, <2>6, <2>7 DEF IInv
<1>21. CASE WaiterCloses
  BY <1>21, <1>0 DEF IInv, TypeOK, ChildTypeOK, Endings, Requests, WaitOrder, Recorded, ReadOrder, Accounted, AtEnd, EndIsHonest, Answers, StatusKept, Waited, RunCtxDone, Started, WaiterCloses
<1>22. CASE GracePasses
  BY <1>22, <1>0 DEF IInv, TypeOK, ChildTypeOK, Endings, Requests, WaitOrder, Recorded, ReadOrder, Accounted, AtEnd, EndIsHonest, Answers, StatusKept, Waited, RunCtxDone, Started, GracePasses
<1>23. CASE StderrCopied
  BY <1>23, <1>0 DEF IInv, TypeOK, ChildTypeOK, Endings, Requests, WaitOrder, Recorded, ReadOrder, Accounted, AtEnd, EndIsHonest, Answers, StatusKept, Waited, RunCtxDone, Started, StderrCopied
<1>24. CASE BeginRead
  BY <1>24, <1>0 DEF IInv, TypeOK, ChildTypeOK, Endings, Requests, WaitOrder, Recorded, ReadOrder, Accounted, AtEnd, EndIsHonest, Answers, StatusKept, Waited, RunCtxDone, Started, BeginRead
<1>25. CASE ReadOwn
  BY <1>25, <1>0 DEF IInv, TypeOK, ChildTypeOK, Endings, Requests, WaitOrder, Recorded, ReadOrder, Accounted, AtEnd, EndIsHonest, Answers, StatusKept, Waited, RunCtxDone, Started, ReadOwn
<1>26. CASE ReadLate
  BY <1>26, <1>0 DEF IInv, TypeOK, ChildTypeOK, Endings, Requests, WaitOrder, Recorded, ReadOrder, Accounted, AtEnd, EndIsHonest, Answers, StatusKept, Waited, RunCtxDone, Started, ReadLate
<1>27. CASE ReadEOF
  BY <1>27, <1>0 DEF IInv, TypeOK, ChildTypeOK, Endings, Requests, WaitOrder, Recorded, ReadOrder, Accounted, AtEnd, EndIsHonest, Answers, StatusKept, Waited, RunCtxDone, Started, ReadEOF, InPipe, WriterLeft
<1>28. CASE ReadTimesOut
  BY <1>28, <1>0 DEF IInv, TypeOK, ChildTypeOK, Endings, Requests, WaitOrder, Recorded, ReadOrder, Accounted, AtEnd, EndIsHonest, Answers, StatusKept, Waited, RunCtxDone, Started, ReadTimesOut, InPipe, WriterLeft, DeadlineSet
<1>29. CASE ReadEnds
  <2>1. PICK left \in BOOLEAN : EndOfOutput(left)
    BY <1>29 DEF ReadEnds
  <2>2. main = "consuming" /\ piped = 0 /\ proc # "running"
    BY <1>29 DEF ReadEnds, IInv, ReadOrder, AtEnd
  <2>3. ~resCut => endedBy = "self"
    BY <2>1, <2>2 DEF EndOfOutput, Waited, IInv, Recorded, Requests
  <2>4. EndIsHonest' /\ feed' # "open"
    BY <2>1, <2>3 DEF EndOfOutput, EndIsHonest
  <2>5. AtEnd' /\ Accounted' /\ ReadOrder'
    BY <2>1, <2>2 DEF EndOfOutput, IInv, TypeOK, ChildTypeOK, AtEnd, Accounted, ReadOrder, Waited
  <2>6. Endings' /\ Requests' /\ WaitOrder' /\ Recorded' /\ Answers' /\ StatusKept'
    BY <2>1 DEF EndOfOutput, IInv, Endings, Requests, WaitOrder, Recorded, Answers, StatusKept,
                Waited, RunCtxDone
  <2> QED
    BY <1>0, <2>4, <2>5, <2>6 DEF IInv
<1>30. CASE ConsumerReturns
  BY <1>30, <1>0 DEF IInv, TypeOK, ChildTypeOK, Endings, Requests, WaitOrder, Recorded, ReadOrder, Accounted, AtEnd, EndIsHonest, Answers, StatusKept, Waited, RunCtxDone, Started, ConsumerReturns, ConsumeReturns
<1>31. CASE Drain
  BY <1>31, <1>0 DEF IInv, TypeOK, ChildTypeOK, Endings, Requests, WaitOrder, Recorded, ReadOrder, Accounted, AtEnd, EndIsHonest, Answers, StatusKept, Waited, RunCtxDone, Started, Drain
<1>32. CASE StreamReturns
  BY <1>32, <1>0 DEF IInv, TypeOK, ChildTypeOK, Endings, Requests, WaitOrder, Recorded, ReadOrder, Accounted, AtEnd, EndIsHonest, Answers, StatusKept, Waited, RunCtxDone, Started, StreamReturns
<1>33. CASE UNCHANGED vars
  BY <1>33 DEF vars, IInv, TypeOK, ChildTypeOK, Endings, Requests, WaitOrder, Recorded, ReadOrder, Accounted, AtEnd, EndIsHonest, Answers, StatusKept, Waited, RunCtxDone, Started
<1> QED
  BY <1>1, <1>2, <1>3, <1>4, <1>5, <1>6, <1>7, <1>8, <1>9, <1>10, <1>11, <1>12, <1>13, <1>14, <1>15, <1>16, <1>17, <1>18, <1>19, <1>20, <1>21, <1>22, <1>23, <1>24, <1>25, <1>26, <1>27, <1>28, <1>29, <1>30, <1>31, <1>32, <1>33, Steps

LEMMA Invariance == Spec => []IInv
  BY IndInit, IndStep, PTL DEF Spec

\* Output that ends as a whole is output the command finished.
THEOREM EndsAreHonest == Spec => []EndIsHonest
  BY Invariance, PTL DEF IInv

\* When the output has ended, the consumer was given everything the command
\* printed, for every command, pipe and heir.
THEOREM NothingIsLost == Spec => []NothingLost
<1>1. IInv => NothingLost
  BY DEF IInv, AtEnd, NothingLost
<1> QED
  BY <1>1, Invariance, PTL

\* A command that ended by itself keeps its status.
THEOREM StatusIsKept == Spec => []StatusKept
  BY Invariance, PTL DEF IInv

-----------------------------------------------------------------------------
(* Refinement: every step of StreamRunner prints, ends, gives or closes    *)
(* the output as OutputFeed does, or leaves it alone.                      *)

FeedVars == <<wrote, proc, endedBy, ownRead, feed>>

\* What leaves these alone leaves the feed alone.
LEMMA FeedStutters ==
  ASSUME UNCHANGED FeedVars
  PROVE  UNCHANGED Feed!vars
  BY DEF FeedVars, Feed!vars

LEMMA FeedInit == Init => Feed!Init
  BY DEF Init, ChildInit, Feed!Init

LEMMA FeedStep ==
  ASSUME IInv, [Next]_vars
  PROVE  [Feed!Next]_(Feed!vars)
<1>1. CASE OfExec(ChildWrites)
  <2>1. Feed!Prints
    BY <1>1 DEF ChildWrites, OfExec, OwnVars, Feed!Prints
  <2> QED
    BY <2>1 DEF Feed!Next
<1>2. CASE OfExec(ChildLeavesHeir)
  BY <1>2, FeedStutters DEF ChildLeavesHeir, OfExec, OwnVars, FeedVars
<1>3. CASE OfExec(ChildExits)
  <2>1. Feed!Stop
    BY <1>3 DEF ChildExits, OfExec, OwnVars, Ends, Feed!Stop
  <2> QED
    BY <2>1 DEF Feed!Next
<1>4. CASE OfExec(ChildDies)
  <2>1. Feed!Stop
    BY <1>4 DEF ChildDies, OfExec, OwnVars, Ends, Feed!Stop
  <2> QED
    BY <2>1 DEF Feed!Next
<1>5. CASE OfExec(ChildHandlesTerm)
  <2>1. Feed!Stop
    BY <1>5 DEF ChildHandlesTerm, OfExec, OwnVars, Ends, Feed!Stop
  <2> QED
    BY <2>1 DEF Feed!Next
<1>6. CASE OfExec(HeirWrites)
  BY <1>6, FeedStutters DEF HeirWrites, OfExec, OwnVars, FeedVars
<1>7. CASE OfExec(HeirCloses)
  BY <1>7, FeedStutters DEF HeirCloses, OfExec, OwnVars, FeedVars
<1>8. CASE OfExec(DeadlinePasses)
  BY <1>8, FeedStutters DEF DeadlinePasses, OfExec, OwnVars, FeedVars
<1>9. CASE OfExec(TermEndsChild)
  <2>1. Feed!Stop
    BY <1>9 DEF TermEndsChild, OfExec, OwnVars, Ends, Feed!Stop
  <2> QED
    BY <2>1 DEF Feed!Next
<1>10. CASE OfExec(KillEndsChild)
  <2>1. Feed!Stop
    BY <1>10 DEF KillEndsChild, OfExec, OwnVars, Ends, Feed!Stop
  <2> QED
    BY <2>1 DEF Feed!Next
<1>11. CASE OfExec(WatchAsks)
  BY <1>11, FeedStutters DEF WatchAsks, OfExec, OwnVars, FeedVars
<1>12. CASE OfExec(WatchKills)
  BY <1>12, FeedStutters DEF WatchKills, OfExec, OwnVars, FeedVars
<1>13. CASE OfExec(WaitReaps)
  BY <1>13 DEF WaitReaps, OfExec, OwnVars, Feed!vars
<1>14. CASE OfExec(WaitHearsWatch)
  BY <1>14, FeedStutters DEF WaitHearsWatch, OfExec, OwnVars, FeedVars
<1>15. CASE OfExec(WaitReturns)
  BY <1>15, FeedStutters DEF WaitReturns, OfExec, OwnVars, FeedVars
<1>16. CASE OfExec(WaitGivesUp)
  BY <1>16, FeedStutters DEF WaitGivesUp, OfExec, OwnVars, FeedVars
<1>17. CASE CannotStart
  BY <1>17, FeedStutters DEF CannotStart, FeedVars
<1>18. CASE Start
  BY <1>18, FeedStutters DEF Start, FeedVars
<1>19. CASE WaiterSetsDeadline
  BY <1>19, FeedStutters DEF WaiterSetsDeadline, FeedVars
<1>20. CASE WaiterRecords
  BY <1>20, FeedStutters DEF WaiterRecords, FeedVars
<1>21. CASE WaiterCloses
  BY <1>21, FeedStutters DEF WaiterCloses, FeedVars
<1>22. CASE GracePasses
  BY <1>22, FeedStutters DEF GracePasses, FeedVars
<1>23. CASE StderrCopied
  BY <1>23, FeedStutters DEF StderrCopied, FeedVars
<1>24. CASE BeginRead
  BY <1>24, FeedStutters DEF BeginRead, FeedVars
<1>25. CASE ReadOwn
  <2>1. main = "consuming" /\ feed = "open" /\ ownRead < wrote
    BY <1>25 DEF ReadOwn, IInv, TypeOK, ChildTypeOK, ReadOrder, Accounted, AtEnd
  <2>2. Feed!Give
    BY <1>25, <2>1 DEF ReadOwn, Feed!Give
  <2> QED
    BY <2>2 DEF Feed!Next
<1>26. CASE ReadLate
  BY <1>26, FeedStutters DEF ReadLate, FeedVars
<1>27. CASE ReadEOF
  BY <1>27, FeedStutters DEF ReadEOF, FeedVars
<1>28. CASE ReadTimesOut
  BY <1>28, FeedStutters DEF ReadTimesOut, FeedVars
<1>29. CASE ReadEnds
  <2>1. PICK left \in BOOLEAN : reader \in {"ateof", "attimeout"} /\ EndOfOutput(left)
    BY <1>29 DEF ReadEnds
  <2>2. main = "consuming" /\ piped = 0 /\ proc # "running" /\ ownRead = wrote
    BY <2>1 DEF IInv, TypeOK, ChildTypeOK, ReadOrder, AtEnd, Accounted
  <2>3. (~resCut => endedBy = "self") /\ (resCut /\ HasSignals => endedBy # "self")
    BY <2>1, <2>2 DEF EndOfOutput, Waited, IInv, Recorded, Requests, Endings
  <2>4. feed' = IF resCut THEN "cut" ELSE "whole"
    BY <2>1 DEF EndOfOutput
  <2>5. CASE feed = "open"
    <3>1. Feed!Close
      BY <2>1, <2>2, <2>3, <2>4, <2>5, ChildAssumption
      DEF ChildAssumption, EndOfOutput, IInv, TypeOK, Feed!Close
    <3> QED
      BY <3>1 DEF Feed!Next
  <2>6. CASE feed # "open"
    <3>1. feed' = feed
      BY <2>4, <2>6 DEF IInv, TypeOK, AtEnd
    <3> QED
      BY <2>1, <3>1, FeedStutters DEF EndOfOutput, FeedVars
  <2> QED
    BY <2>5, <2>6
<1>30. CASE ConsumerReturns
  BY <1>30, FeedStutters DEF ConsumerReturns, ConsumeReturns, FeedVars
<1>31. CASE Drain
  BY <1>31, FeedStutters DEF Drain, FeedVars
<1>32. CASE StreamReturns
  BY <1>32, FeedStutters DEF StreamReturns, FeedVars
<1>33. CASE UNCHANGED vars
  BY <1>33, FeedStutters DEF vars, FeedVars
<1> QED
  BY <1>1, <1>2, <1>3, <1>4, <1>5, <1>6, <1>7, <1>8, <1>9, <1>10, <1>11, <1>12, <1>13, <1>14, <1>15, <1>16, <1>17, <1>18, <1>19, <1>20, <1>21, <1>22, <1>23, <1>24, <1>25, <1>26, <1>27, <1>28, <1>29, <1>30, <1>31, <1>32, <1>33, Steps

\* The consumer of a streamed command sees what OutputFeed promises.
THEOREM FeedImplemented == Spec => ImplementsFeed
<1>1. IInv /\ [Next]_vars => [Feed!Next]_(Feed!vars)
  BY FeedStep
<1> QED
  BY <1>1, FeedInit, Invariance, PTL DEF Spec, ImplementsFeed, Feed!Spec
-----------------------------------------------------------------------------
(* jz run --stream on top of the runner. *)

RTypeOK ==
  /\ stage \in {"head", "records"} /\ text \in BOOLEAN
  /\ code \in {"none", "ok", "nothing"} \union Failures
  /\ exit \in {"none", "zero", "child"} \union Failures

\* What consume returned is what the stream came to.  It came to nothing
\* only at the end of the output.
Codes ==
  /\ consumeErr = "none" <=> code = "none"
  /\ consumeErr = "nil" <=> code \in {"ok", "nothing"}
  /\ code = "nothing" => feed # "open"

\* Stream returns after consume.
Order ==
  /\ main = "starting" => proc = "running"
  /\ main \in {"starting", "consuming"} => consumeErr = "none"
  /\ main = "waiting" => consumeErr # "none"
  /\ main = "returned" <=> answer # "none"
  /\ answer = "result" => consumeErr # "none"
  /\ answer = "error" => end \in {"none", "zero"}

\* Until Stream has returned only a stream that failed cancels the run.
Asking ==
  /\ cancelled /\ main # "returned" => consumeErr = "err"
  /\ asked # {} => timedOut \/ consumeErr = "err"
  /\ watch \in {"asked", "killed"} => timedOut \/ consumeErr = "err" \/ main = "returned"
  /\ endedBy = "request" => timedOut \/ consumeErr = "err"

\* A command is called stopped by the stream that failed when it was.
Verdict ==
  answer = "result" =>
    (resStopped <=> /\ waitedOK /\ waitErr # "nil" /\ consumeErr = "err"
                    /\ ~timedOut /\ (resSignal \/ ~HasSignals))

\* The status of jz is worked out from the result, once.
Answered ==
  exit # "none" =>
    \/ answer = "error" /\ exit = "failed"
    \/ /\ answer = "result" /\ code = "nothing"
       /\ IF resExit # "zero" THEN exit = "child" ELSE exit \in EmptyForms
    \/ answer = "result" /\ code # "nothing" /\ exit = StreamStatus

RInv == IInv /\ RTypeOK /\ Codes /\ Order /\ Asking /\ Verdict /\ Answered

-----------------------------------------------------------------------------

\* jz begins with nothing said and nothing written.
LEMMA RunInitInv == RunInit => RInv
  BY IndInit DEF RunInit, Init, ChildInit, RInv, RTypeOK, Codes, Order, Asking, Verdict, Answered

\* A consumer that asks again leaves all that is known of the run true.
LEMMA ChosenKeeps == RInv /\ FormatChosen => RInv'
<1> SUFFICES ASSUME RInv, FormatChosen PROVE RInv'
  OBVIOUS
<1>1. TypeOK'
  BY DEF RInv, IInv, TypeOK, ChildTypeOK, FormatChosen
<1>2. Endings' /\ Requests' /\ WaitOrder' /\ Recorded' /\ Answers' /\ StatusKept'
  BY DEF RInv, IInv, Endings, Requests, WaitOrder, Recorded, Answers, StatusKept, Waited,
         RunCtxDone, FormatChosen
<1>3. ReadOrder' /\ Accounted' /\ AtEnd' /\ EndIsHonest'
  BY DEF RInv, IInv, ReadOrder, Accounted, AtEnd, EndIsHonest, Waited, FormatChosen
<1>4. RTypeOK' /\ Codes' /\ Order' /\ Asking' /\ Verdict' /\ Answered'
  BY DEF RInv, RTypeOK, Codes, Order, Asking, Verdict, Answered, StreamStatus, Status, FormatChosen
<1> QED
  BY <1>1, <1>2, <1>3, <1>4 DEF RInv, IInv

\* All that the status of jz is worked out from, and who was asked to go.
StatusVars == <<main, consumeErr, answer, feed, timedOut, cancelled, asked, watch,
                proc, end, endedBy, resVars, waitErr>>

\* Steps of the runner that neither end it nor ask the command to go.
LEMMA QuietKeeps ==
  ASSUME RInv, IInv', UNCHANGED StatusVars, UNCHANGED streamVars
  PROVE  RInv'
<1>1. RTypeOK' /\ Codes' /\ Order'
  BY DEF RInv, RTypeOK, Codes, Order, StatusVars, streamVars
<1>2. Asking' /\ Verdict'
  BY DEF RInv, Asking, Verdict, StatusVars
<1>3. Answered'
  BY DEF RInv, Answered, StreamStatus, Status, StatusVars, streamVars
<1> QED
  BY <1>1, <1>2, <1>3 DEF RInv

\* The steps of the runner that the conversion has no part in.
LEMMA RunnerKeeps == RInv /\ RunnerSteps => RInv'
<1> SUFFICES ASSUME RInv, RunnerSteps PROVE RInv'
  OBVIOUS
<1>0. IInv' /\ UNCHANGED streamVars
  BY IndStep DEF RInv, RunnerSteps, Next, Calling
<1>1. CASE OfExec(ChildWrites)
  BY <1>1, <1>0, QuietKeeps DEF ChildWrites, OfExec, OwnVars, StatusVars
<1>2. CASE OfExec(ChildLeavesHeir)
  BY <1>2, <1>0, QuietKeeps DEF ChildLeavesHeir, OfExec, OwnVars, StatusVars
<1>3. CASE OfExec(ChildExits)
  BY <1>3, <1>0 DEF RInv, Codes, Order, Asking, Verdict, Answered, Started, RTypeOK,
     streamVars, ChildExits, OfExec, OwnVars, Ends
<1>4. CASE OfExec(ChildDies)
  BY <1>4, <1>0 DEF RInv, Codes, Order, Asking, Verdict, Answered, Started, RTypeOK,
     streamVars, ChildDies, OfExec, OwnVars, Ends
<1>5. CASE OfExec(ChildHandlesTerm)
  BY <1>5, <1>0 DEF RInv, Codes, Order, Asking, Verdict, Answered, Started, RTypeOK,
     streamVars, ChildHandlesTerm, OfExec, OwnVars, Ends
<1>6. CASE OfExec(HeirWrites)
  BY <1>6, <1>0, QuietKeeps DEF HeirWrites, OfExec, OwnVars, StatusVars
<1>7. CASE OfExec(HeirCloses)
  BY <1>7, <1>0, QuietKeeps DEF HeirCloses, OfExec, OwnVars, StatusVars
<1>8. CASE OfExec(DeadlinePasses)
  BY <1>8, <1>0 DEF RInv, Codes, Order, Asking, Verdict, Answered, Started, RTypeOK,
     streamVars, DeadlinePasses, OfExec, OwnVars
<1>9. CASE OfExec(TermEndsChild)
  BY <1>9, <1>0 DEF RInv, Codes, Order, Asking, Verdict, Answered, Started, RTypeOK,
     streamVars, TermEndsChild, OfExec, OwnVars, Ends
<1>10. CASE OfExec(KillEndsChild)
  BY <1>10, <1>0 DEF RInv, Codes, Order, Asking, Verdict, Answered, Started, RTypeOK,
     streamVars, KillEndsChild, OfExec, OwnVars, Ends
<1>11. CASE OfExec(WatchAsks)
  BY <1>11, <1>0 DEF RInv, Codes, Order, Asking, Verdict, Answered, Started, RTypeOK,
     streamVars, WatchAsks, OfExec, OwnVars, RunCtxDone
<1>12. CASE OfExec(WatchKills)
  BY <1>12, <1>0 DEF RInv, Codes, Order, Asking, Verdict, Answered, Started, RTypeOK,
     streamVars, WatchKills, OfExec, OwnVars, RunCtxDone
<1>13. CASE OfExec(WaitReaps)
  BY <1>13, <1>0 DEF RInv, Codes, Order, Asking, Verdict, Answered, Started, RTypeOK,
     streamVars, WaitReaps, OfExec, OwnVars
<1>14. CASE OfExec(WaitHearsWatch)
  BY <1>14, <1>0 DEF RInv, Codes, Order, Asking, Verdict, Answered, Started, RTypeOK,
     streamVars, WaitHearsWatch, OfExec, OwnVars
<1>15. CASE OfExec(WaitReturns)
  BY <1>15, <1>0, QuietKeeps DEF WaitReturns, OfExec, OwnVars, StatusVars
<1>16. CASE OfExec(WaitGivesUp)
  BY <1>16, <1>0 DEF RInv, Codes, Order, Asking, Verdict, Answered, Started, RTypeOK,
     streamVars, WaitGivesUp, OfExec, OwnVars
<1>17. CASE CannotStart
  BY <1>17, <1>0 DEF RInv, Codes, Order, Asking, Verdict, Answered, Started, RTypeOK,
     streamVars, CannotStart, IInv, Endings
<1>18. CASE Start
  BY <1>18, <1>0 DEF RInv, Codes, Order, Asking, Verdict, Answered, Started, RTypeOK,
     streamVars, Start
<1>19. CASE WaiterSetsDeadline
  BY <1>19, <1>0, QuietKeeps DEF WaiterSetsDeadline, StatusVars
<1>20. CASE Started /\ WaiterRecords
  BY <1>20, <1>0 DEF RInv, Codes, Order, Asking, Verdict, Answered, Started, RTypeOK,
     streamVars, WaiterRecords
<1>21. CASE WaiterCloses
  BY <1>21, <1>0, QuietKeeps DEF WaiterCloses, StatusVars
<1>22. CASE GracePasses
  BY <1>22, <1>0, QuietKeeps DEF GracePasses, StatusVars
<1>23. CASE StderrCopied
  BY <1>23, <1>0, QuietKeeps DEF StderrCopied, StatusVars
<1>24. CASE Drain
  BY <1>24, <1>0, QuietKeeps DEF Drain, StatusVars
<1>25. CASE StreamReturns
  BY <1>25, <1>0 DEF RInv, Codes, Order, Asking, Verdict, Answered, Started, RTypeOK,
     streamVars, StreamReturns, IInv, Recorded, Waited
<1> QED
  BY <1>1, <1>2, <1>3, <1>4, <1>5, <1>6, <1>7, <1>8, <1>9, <1>10, <1>11, <1>12, <1>13, <1>14,
     <1>15, <1>16, <1>17, <1>18, <1>19, <1>20, <1>21, <1>22, <1>23, <1>24,
     <1>25 DEF RunnerSteps, Outside, Exec, Waiting, ChildEnv, ChildSystem, OfExec

\* What consume comes to stops the command, or leaves it alone.
LEMMA ConvertsKeeps ==
  ASSUME RInv, NEW c \in Failures \union {"ok", "nothing"}, Converts(c),
         c = "nothing" => reader = "done"
  PROVE  RInv'
<1>1. IInv'
  <2>1. ConsumerReturns
    BY DEF Converts, ConsumerReturns
  <2> QED
    BY <2>1, IndStep DEF RInv, Next, Calling
<1>2. consumeErr' = (IF c \in {"ok", "nothing"} THEN "nil" ELSE "err") /\ code' = c
  BY DEF Converts, ConsumeReturns
<1>3. main = "consuming" /\ main' = "waiting" /\ UNCHANGED <<feed, answer, proc, end>>
  BY DEF Converts, ConsumeReturns
<1>4. RTypeOK' /\ Codes' /\ Order'
  BY <1>2, <1>3 DEF RInv, IInv, ReadOrder, RTypeOK, Codes, Order, Converts, Failures
<1>5. Asking'
  BY <1>2, <1>3 DEF RInv, Asking, Order, Converts, ConsumeReturns
<1>6. Verdict' /\ Answered'
  BY <1>3 DEF RInv, Verdict, Answered, Order, Converts
<1> QED
  BY <1>1, <1>4, <1>5, <1>6 DEF RInv

\* What the consumer makes of a chunk keeps what the result will say.
LEMMA ConsumesKeeps == RInv /\ Consumes => RInv'
<1> SUFFICES ASSUME RInv, Consumes PROVE RInv'
  OBVIOUS
<1>1. CASE FormatChosen
  BY <1>1, ChosenKeeps
<1>2. CASE PrintedNothing
  BY <1>2, ConvertsKeeps DEF PrintedNothing
<1>3. CASE HeadFails \/ FormatNotChosen \/ RecordsEndEarly \/ RecordsEnd
  <2>1. PICK c \in Failures \union {"ok"} : Converts(c)
    BY <1>3 DEF HeadFails, FormatNotChosen, RecordsEndEarly, RecordsEnd, Failures
  <2> QED
    BY <2>1, ConvertsKeeps DEF Failures
<1> QED
  BY <1>1, <1>2, <1>3 DEF Consumes

\* So does reading the output, or its end.
LEMMA ReadsKeeps == RInv /\ Reads => RInv'
<1> SUFFICES ASSUME RInv, Reads PROVE RInv'
  OBVIOUS
<1>1. IInv'
  BY IndStep DEF RInv, Reads, Next, Reading
<1>2. RTypeOK' /\ UNCHANGED <<stage, code, exit>>
  BY DEF RInv, RTypeOK, Reads, streamVars
<1>3. CASE ReadEnds
  <2>1. PICK left \in BOOLEAN : EndOfOutput(left) /\ reader \in {"ateof", "attimeout"}
    BY <1>3 DEF ReadEnds
  <2>2. main = "consuming" /\ feed' # "open"
    BY <2>1 DEF EndOfOutput, RInv, IInv, ReadOrder
  <2>3. Codes' /\ Order'
    BY <1>2, <2>1, <2>2 DEF RInv, Codes, Order, EndOfOutput
  <2>4. Asking' /\ Verdict' /\ Answered'
    BY <1>2, <2>1, <2>2 DEF RInv, Asking, Order, Verdict, Answered, EndOfOutput
  <2> QED
    BY <1>1, <1>2, <2>3, <2>4 DEF RInv
<1>4. CASE BeginRead \/ ReadOwn \/ ReadLate \/ ReadEOF \/ ReadTimesOut
  <2>1. UNCHANGED StatusVars
    BY <1>4 DEF BeginRead, ReadOwn, ReadLate, ReadEOF, ReadTimesOut, StatusVars
  <2>2. Codes' /\ Order' /\ Asking' /\ Verdict'
    BY <1>2, <2>1 DEF RInv, Codes, Order, Asking, Verdict, StatusVars
  <2>3. Answered'
    BY <1>2, <2>1 DEF RInv, Answered, StreamStatus, Status, StatusVars
  <2> QED
    BY <1>1, <1>2, <2>2, <2>3 DEF RInv
<1> QED
  BY <1>3, <1>4 DEF Reads

\* The status jz ends with is worked out from what is known by then.
LEMMA EndsKeeps == RInv /\ RunStreamEnds => RInv'
<1> SUFFICES ASSUME RInv, RunStreamEnds PROVE RInv'
  OBVIOUS
<1>1. IInv'
  BY IndStep DEF RInv, RunStreamEnds
<1>2. answer \in {"result", "error"}
  BY DEF RInv, IInv, TypeOK, Order, RunStreamEnds
<1>3. Codes' /\ Order' /\ Asking' /\ Verdict'
  BY DEF RInv, Codes, Order, Asking, Verdict, RunStreamEnds, vars
<1>4. CASE answer = "error"
  <2>1. exit' = "failed"
    BY <1>4 DEF RunStreamEnds
  <2> QED
    BY <1>1, <1>3, <1>4, <2>1 DEF RInv, RTypeOK, Answered, RunStreamEnds, vars, Failures
<1>5. CASE answer = "result" /\ code = "nothing"
  <2>1. exit' \in (IF resExit # "zero" THEN {"child"} ELSE EmptyForms)
    BY <1>5 DEF RunStreamEnds
  <2> QED
    BY <1>1, <1>3, <1>5, <2>1 DEF RInv, RTypeOK, Answered, RunStreamEnds, vars, Failures, EmptyForms
<1>6. CASE answer = "result" /\ code # "nothing"
  <2>1. exit' = StreamStatus
    BY <1>6 DEF RunStreamEnds
  <2>2. code \in Failures \union {"ok"}
    BY <1>6 DEF RInv, RTypeOK, Codes, Order
  <2>3. resStopped => code \in Failures
    BY <1>6, <2>2 DEF RInv, Verdict, Codes
  <2>4. exit' \in {"zero", "child"} \union Failures
    BY <2>1, <2>2, <2>3 DEF StreamStatus, Status
  <2>5. Answered'
    BY <1>6, <2>1 DEF Answered, StreamStatus, Status, RunStreamEnds, vars
  <2> QED
    BY <1>1, <1>3, <2>4, <2>5 DEF RInv, RTypeOK, RunStreamEnds
<1> QED
  BY <1>2, <1>4, <1>5, <1>6

\* All of it holds throughout.
LEMMA RunInvariance == RunSpec => []RInv
<1>1. RInv /\ [RunNext]_runVars => RInv'
  <2> SUFFICES ASSUME RInv, [RunNext]_runVars PROVE RInv'
    OBVIOUS
  <2>1. CASE UNCHANGED runVars
    <3>1. UNCHANGED StatusVars /\ UNCHANGED streamVars /\ UNCHANGED vars
      BY <2>1 DEF runVars, vars, StatusVars
    <3>2. IInv'
      BY <3>1, IndStep DEF RInv
    <3> QED
      BY <3>1, <3>2, QuietKeeps
  <2> QED
    BY <2>1, RunnerKeeps, ReadsKeeps, ConsumesKeeps, EndsKeeps DEF RunNext, Finished
<1> QED
  BY <1>1, RunInitInv, PTL DEF RunSpec

-----------------------------------------------------------------------------

\* jz ends with status zero only for a command that did, whose output was
\* read to its end.
THEOREM ZeroIsOfTheWhole == RunSpec => []ZeroIsWhole
<1>1. RInv => ZeroIsWhole
  <2> SUFFICES ASSUME RInv, exit = "zero"
      PROVE  /\ end = "zero" /\ feed # "cut" /\ code \in {"ok", "nothing"}
             /\ code = "nothing" => ownRead = wrote
    BY DEF ZeroIsWhole
  <2>1. answer = "result" /\ resExit = "zero" /\ code \in {"ok", "nothing"}
    BY DEF RInv, RTypeOK, Answered, StreamStatus, Status, Codes, Verdict, Failures
  <2>2. end = "zero" /\ ~resCut
    BY <2>1 DEF RInv, IInv, Answers, Recorded, Waited
  <2> QED
    BY <2>1, <2>2 DEF RInv, IInv, AtEnd, Codes
<1> QED
  BY <1>1, RunInvariance, PTL

\* A command that failed by itself is mirrored, and so is one a signal ended
\* while its output was read without failure.
THEOREM FailuresAreMirrored == RunSpec => []FailureIsMirrored
<1>1. RInv => FailureIsMirrored
  <2> SUFFICES ASSUME RInv, exit # "none", answer = "result", HasSignals,
                      end = "nonzero" \/ (end = "signal" /\ code \in {"ok", "nothing"})
      PROVE  exit = "child"
    BY DEF FailureIsMirrored
  <2>1. resExit # "zero" /\ (resSignal <=> end = "signal")
    BY DEF RInv, IInv, Answers, Recorded, Waited
  <2>2. ~resStopped
    BY <2>1 DEF RInv, Verdict, Codes
  <2> QED
    BY <2>1, <2>2 DEF RInv, Answered, StreamStatus, Status
<1> QED
  BY <1>1, RunInvariance, PTL

\* A command jz stopped because its stream had failed is not blamed for it.
THEOREM StopsAreNotBlamed == RunSpec => []StopIsNotBlamed
<1>1. RInv => StopIsNotBlamed
  <2> SUFFICES ASSUME RInv, exit # "none", endedBy = "request", ~timedOut
      PROVE  exit = code
    BY DEF StopIsNotBlamed
  <2>1. end \in {"nonzero", "signal"} /\ consumeErr = "err" /\ (HasSignals => end = "signal")
    BY DEF RInv, IInv, TypeOK, ChildTypeOK, Endings, Asking
  <2>2. answer = "result"
    BY <2>1 DEF RInv, Order, Answered
  <2>3. waitedOK /\ waitErr = "exit" /\ (resSignal <=> end = "signal")
    BY <2>1, <2>2 DEF RInv, IInv, Answers, Recorded, Waited, WaitOrder
  <2>4. resStopped /\ code # "nothing"
    BY <2>1, <2>2, <2>3 DEF RInv, Verdict, Codes
  <2> QED
    BY <2>2, <2>4 DEF RInv, Answered, StreamStatus
<1> QED
  BY <1>1, RunInvariance, PTL

\* What was proved of the runner by itself holds of jz, whose consumer may
\* ask for more after the end.
THEOREM RunnerIsKept == RunSpec => [](TypeOK /\ NothingLost /\ EndIsHonest /\ StatusKept)
<1>1. RInv => TypeOK /\ NothingLost /\ EndIsHonest /\ StatusKept
  BY DEF RInv, IInv, AtEnd, NothingLost
<1> QED
  BY <1>1, RunInvariance, PTL

\* jz, too, sees an output that OutputFeed allows.
THEOREM RunImplementsFeed == RunSpec => ImplementsFeed
<1>1. RunInit => Feed!Init
  BY FeedInit DEF RunInit
<1>2. RInv /\ [RunNext]_runVars => [Feed!Next]_(Feed!vars)
  <2> SUFFICES ASSUME RInv, [RunNext]_runVars PROVE [Feed!Next]_(Feed!vars)
    OBVIOUS
  <2>1. CASE FormatChosen
    BY <2>1, FeedStutters DEF FormatChosen, FeedVars
  <2>2. CASE ~FormatChosen
    <3>1. [Next]_vars
      <4>1. CASE RunnerSteps \/ Reads
        BY <4>1 DEF RunnerSteps, Reads, Next, Calling, Reading
      <4>2. CASE Consumes
        BY <4>2, <2>2 DEF Consumes, HeadFails, PrintedNothing, FormatNotChosen, RecordsEndEarly,
                          RecordsEnd, Converts, ConsumerReturns, Next, Calling
      <4>3. CASE RunStreamEnds \/ Finished \/ UNCHANGED runVars
        BY <4>3 DEF RunStreamEnds, Finished, runVars
      <4> QED
        BY <4>1, <4>2, <4>3 DEF RunNext
    <3> QED
      BY <3>1, FeedStep DEF RInv
  <2> QED
    BY <2>1, <2>2
<1> QED
  BY <1>1, <1>2, RunInvariance, PTL DEF RunSpec, ImplementsFeed, Feed!Spec
=============================================================================
