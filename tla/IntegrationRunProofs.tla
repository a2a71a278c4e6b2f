------------------------ MODULE IntegrationRunProofs ------------------------
(***************************************************************************)
(* Theorems about IntegrationRun, for every number of polls, every         *)
(* environment of the script, any behaviour of the two servers and a       *)
(* signal at any of its commands.                                          *)
(***************************************************************************)
EXTENDS IntegrationRun, TLAPS

\* The mock is only built and started when it is asked for.
MockAsked == pc \in {"build", "start mock", "mock pid", "poll mock"} => ~args.skipMock

PhaseInv == PhasesOK /\ MockAsked

TypeInv == PhaseInv /\ DataOK

\* A mock the trap does not know of is not there, but for the one command
\* between its start and the assignment of its process id; and the trap gets
\* past a mock it knows of only once it is gone.
MockAccounted ==
    /\ rc # "signal" /\ "mock" \notin known /\ pc # "mock pid" => mock = "absent"
    /\ pc \in {"remove socket", "ended"} /\ "mock" \in known => mock = "gone"

\* The same of a worker the script started; one it was given is never known.
WorkerAccounted ==
    /\ Borrowed => /\ worker \in {"ready", "gone"} /\ "worker" \notin known
                   /\ pc \notin {"start worker", "worker pid", "poll worker"}
    /\ ~Borrowed /\ rc # "signal" /\ "worker" \notin known /\ pc # "worker pid" =>
           worker = "absent"
    /\ pc \in {"stop mock", "await mock", "remove socket", "ended"} /\ "worker" \in known =>
           worker = "gone"

\* A socket file is that of a worker on the unix transport, whose path the trap
\* knows before the worker is started.
SocketAccounted ==
    /\ sock => args.transport = "unix" /\ worker # "absent"
    /\ args.transport = "unix" /\ (worker # "absent" \/ pc = "start worker") =>
           "socket" \in known
    /\ pc = "ended" /\ (rc # "signal" \/ "worker" \in known) => ~sock

\* What the trap (70-78) knows of accounts for all that the script started.
Accounted ==
    /\ pc = "start" => known = {}
    /\ rc # "signal" => ~orphan
    /\ MockAccounted /\ WorkerAccounted /\ SocketAccounted

\* Status 0 is that of a suite that ran to its end, and nothing runs after it.
VerdictStands ==
    /\ \A t \in Tests : outcome[t] = "skipped" =>
           args.transport = "http" \/ (t = "tls" /\ args.skipMock)
    /\ rc = "0" => /\ Ran("failed") = {} /\ Ran("pending") = {}
                   /\ args.pattern # {} => Ran("skipped") # args.pattern

----------------------------------------------------------------------------
(* Types.                                                                  *)

LEMMA TypeInit == Init => TypeInv
<1> SUFFICES ASSUME Init PROVE TypeInv
  OBVIOUS
<1>1. PhaseInv
  BY DEF Init, PhaseInv, PhasesOK, MockAsked, States, Cleanup, Foreground
<1>2. args \in Args /\ known \subseteq {"mock", "worker", "socket"} /\ printed \subseteq {"mock", "worker"}
  BY DEF Init
<1>3. tries \in 0..(MockTries + WorkerTries)
  BY TriesAssumption DEF Init
<1>4. outcome \in [Tests -> {"pending", "passed", "failed", "skipped"}]
  BY DEF Init
<1> QED
  BY <1>1, <1>2, <1>3, <1>4 DEF Init, TypeInv, DataOK

LEMMA PhaseStep == TypeInv /\ [Next]_vars => PhaseInv'
<1> SUFFICES ASSUME TypeInv, [Next]_vars PROVE PhaseInv'
  OBVIOUS
<1> USE DEF TypeInv, PhaseInv, PhasesOK, MockAsked, States, Cleanup, Foreground
<1>0. CASE SetupFails
  BY <1>0 DEF SetupFails, Goto
<1>1. CASE RejectTransport
  BY <1>1 DEF RejectTransport, Goto
<1>2. CASE Begin
  BY <1>2 DEF Begin, Goto
<1>3. CASE BuildEnds
  BY <1>3 DEF BuildEnds, Goto, Exit
<1>4. CASE StartMock
  BY <1>4 DEF StartMock, Goto, Exit, Mock!Launch
<1>5. CASE MockPid
  BY <1>5 DEF MockPid, Goto
<1>6. CASE PollMock
  BY <1>6 DEF PollMock, Goto, Exit
<1>7. CASE ChooseTransport
  BY <1>7 DEF ChooseTransport, Goto
<1>8. CASE StartWorker
  BY <1>8 DEF StartWorker, Goto, Exit, Worker!Launch
<1>9. CASE WorkerPid
  BY <1>9 DEF WorkerPid, Goto
<1>10. CASE PollWorker
  BY <1>10 DEF PollWorker, Goto, Exit, WorkerReady, Worker!Alive
<1>11. CASE Stage
  BY <1>11 DEF Stage, Goto, Exit
<1>12. CASE WarmEnds
  BY <1>12 DEF WarmEnds, Goto, Exit
<1>13. ASSUME NEW t \in Tests, RunTest(t) PROVE PhaseInv'
  BY <1>13 DEF RunTest
<1>14. CASE SuiteEnds
  BY <1>14 DEF SuiteEnds, Goto, Exit, Verdict, RunnerStatus
<1>15. CASE StopWorker
  BY <1>15 DEF StopWorker, Goto, Worker!Alive, Worker!Tell
<1>16. CASE AwaitWorker
  BY <1>16 DEF AwaitWorker, Goto
<1>17. CASE StopMock
  BY <1>17 DEF StopMock, Goto, Mock!Alive, Mock!Tell
<1>18. CASE AwaitMock
  BY <1>18 DEF AwaitMock, Goto
<1>19. CASE RemoveSocket
  BY <1>19 DEF RemoveSocket, Goto
<1>20. CASE MockReports
  BY <1>20 DEF MockReports, Mock!Report, Rest
<1>21. CASE MockDies
  BY <1>21 DEF MockDies, Mock!Die, Mock!Alive, Rest
<1>22. CASE WorkerBinds
  BY <1>22 DEF WorkerBinds, Rest
<1>23. CASE WorkerReports
  BY <1>23 DEF WorkerReports, Worker!Report, Rest
<1>24. CASE WorkerDies
  BY <1>24 DEF WorkerDies, Worker!Die, Worker!Alive, Rest
<1>25. CASE Interrupt
  BY <1>25 DEF Interrupt, Foreground
<1>26. CASE UNCHANGED vars
  BY <1>26 DEF vars
<1> QED
  BY <1>0, <1>1, <1>2, <1>3, <1>4, <1>5, <1>6, <1>7, <1>8, <1>9,
     <1>10, <1>11, <1>12, <1>13, <1>14, <1>15, <1>16, <1>17, <1>18,
     <1>19, <1>20, <1>21, <1>22, <1>23, <1>24, <1>25, <1>26
  DEF Next, Script, Ended

LEMMA DataStep == TypeInv /\ [Next]_vars => DataOK'
<1> SUFFICES ASSUME TypeInv, [Next]_vars PROVE DataOK'
  OBVIOUS
<1> USE DEF TypeInv, DataOK
<1>0. CASE SetupFails
  BY <1>0 DEF SetupFails, Goto
<1>1. CASE RejectTransport
  BY <1>1 DEF RejectTransport, Goto
<1>2. CASE Begin
  BY <1>2 DEF Begin, Goto
<1>3. CASE BuildEnds
  BY <1>3 DEF BuildEnds, Goto, Exit
<1>4. CASE StartMock
  BY <1>4 DEF StartMock, Goto, Exit, Mock!Launch
<1>5. CASE MockPid
  <2>1. tries' \in 0..(MockTries + WorkerTries)
    <3>1. tries' = MockTries
      BY <1>5 DEF MockPid
    <3> QED
      BY <3>1, TriesAssumption
  <2>2. known' \subseteq {"mock", "worker", "socket"}
    BY <1>5 DEF MockPid, TypeInv, DataOK
  <2>3. UNCHANGED <<args, sock, printed, outcome, orphan>>
    BY <1>5 DEF MockPid
  <2> QED
    BY <2>1, <2>2, <2>3
<1>6. CASE PollMock
  <2>1. tries' = tries \/ (tries > 0 /\ tries' = tries - 1)
    BY <1>6 DEF PollMock
  <2>2. tries' \in 0..(MockTries + WorkerTries)
    BY <2>1, TriesAssumption DEF TypeInv, DataOK
  <2>3. UNCHANGED <<args, sock, known, printed, outcome, orphan>>
    BY <1>6 DEF PollMock
  <2> QED
    BY <2>2, <2>3
<1>7. CASE ChooseTransport
  BY <1>7 DEF ChooseTransport, Goto
<1>8. CASE StartWorker
  BY <1>8 DEF StartWorker, Goto, Exit, Worker!Launch
<1>9. CASE WorkerPid
  <2>1. tries' \in 0..(MockTries + WorkerTries)
    <3>1. tries' = WorkerTries
      BY <1>9 DEF WorkerPid
    <3> QED
      BY <3>1, TriesAssumption
  <2>2. known' \subseteq {"mock", "worker", "socket"}
    BY <1>9 DEF WorkerPid, TypeInv, DataOK
  <2>3. UNCHANGED <<args, sock, printed, outcome, orphan>>
    BY <1>9 DEF WorkerPid
  <2> QED
    BY <2>1, <2>2, <2>3
<1>10. CASE PollWorker
  <2>1. tries' = tries \/ (tries > 0 /\ tries' = tries - 1)
    BY <1>10 DEF PollWorker
  <2>2. tries' \in 0..(MockTries + WorkerTries)
    BY <2>1, TriesAssumption DEF TypeInv, DataOK
  <2>3. UNCHANGED <<args, sock, known, printed, outcome, orphan>>
    BY <1>10 DEF PollWorker
  <2> QED
    BY <2>2, <2>3
<1>11. CASE Stage
  BY <1>11 DEF Stage, Goto, Exit
<1>12. CASE WarmEnds
  BY <1>12 DEF WarmEnds, Goto, Exit
<1>13. ASSUME NEW t \in Tests, RunTest(t) PROVE DataOK'
  <2>1. Outcomes(t) \subseteq {"pending", "passed", "failed", "skipped"}
    BY DEF Outcomes
  <2> QED
    BY <1>13, <2>1 DEF RunTest
<1>14. CASE SuiteEnds
  BY <1>14 DEF SuiteEnds, Goto, Exit, Verdict, RunnerStatus
<1>15. CASE StopWorker
  BY <1>15 DEF StopWorker, Goto, Worker!Alive, Worker!Tell
<1>16. CASE AwaitWorker
  BY <1>16 DEF AwaitWorker, Goto
<1>17. CASE StopMock
  BY <1>17 DEF StopMock, Goto, Mock!Alive, Mock!Tell
<1>18. CASE AwaitMock
  BY <1>18 DEF AwaitMock, Goto
<1>19. CASE RemoveSocket
  BY <1>19 DEF RemoveSocket, Goto
<1>20. CASE MockReports
  BY <1>20 DEF MockReports, Mock!Report, Rest
<1>21. CASE MockDies
  BY <1>21 DEF MockDies, Mock!Die, Mock!Alive, Rest
<1>22. CASE WorkerBinds
  BY <1>22 DEF WorkerBinds, Rest
<1>23. CASE WorkerReports
  BY <1>23 DEF WorkerReports, Worker!Report, Rest
<1>24. CASE WorkerDies
  BY <1>24 DEF WorkerDies, Worker!Die, Worker!Alive, Rest
<1>25. CASE Interrupt
  <2>1. orphan' \in BOOLEAN
    <3>1. orphan' = (pc \in Foreground)
      BY <1>25, Zenon DEF Interrupt
    <3>2. (pc \in Foreground) \in BOOLEAN
      OBVIOUS
    <3> QED
      BY <3>1, <3>2, Zenon
  <2>2. UNCHANGED <<args, sock, known, printed, tries, outcome>>
    BY <1>25 DEF Interrupt
  <2> QED
    BY <2>1, <2>2
<1>26. CASE UNCHANGED vars
  BY <1>26 DEF vars
<1> QED
  BY <1>0, <1>1, <1>2, <1>3, <1>4, <1>5, <1>6, <1>7, <1>8, <1>9,
     <1>10, <1>11, <1>12, <1>13, <1>14, <1>15, <1>16, <1>17, <1>18,
     <1>19, <1>20, <1>21, <1>22, <1>23, <1>24, <1>25, <1>26
  DEF Next, Script, Ended

LEMMA TypeStep == TypeInv /\ [Next]_vars => TypeInv'
BY PhaseStep, DataStep DEF TypeInv

\* Every reachable state of the run is well typed.
THEOREM TypeCorrect == Spec => []TypeOK
<1>1. TypeInv => TypeOK
  BY DEF TypeInv, PhaseInv, TypeOK
<1> QED
  BY <1>1, TypeInit, TypeStep, PTL DEF Spec

----------------------------------------------------------------------------
(* What the trap knows.                                                    *)

LEMMA AccountedInit == Init => Accounted
BY DEF Init, Accounted, MockAccounted, WorkerAccounted, SocketAccounted, Borrowed

LEMMA AccountedStep == TypeInv /\ Accounted /\ [Next]_vars => Accounted'
<1> SUFFICES ASSUME TypeInv, Accounted, [Next]_vars PROVE Accounted'
  OBVIOUS
<1> USE DEF TypeInv, PhaseInv, PhasesOK, DataOK, MockAsked, States, Cleanup, Accounted,
         MockAccounted, WorkerAccounted, SocketAccounted, Borrowed
<1>0. CASE SetupFails
  BY <1>0 DEF SetupFails, Goto
<1>1. CASE RejectTransport
  BY <1>1 DEF RejectTransport, Goto
<1>2. CASE Begin
  BY <1>2 DEF Begin, Goto
<1>3. CASE BuildEnds
  BY <1>3 DEF BuildEnds, Goto, Exit
<1>4. CASE StartMock
  BY <1>4 DEF StartMock, Goto, Exit, Mock!Launch
<1>5. CASE MockPid
  BY <1>5 DEF MockPid, Goto
<1>6. CASE PollMock
  BY <1>6 DEF PollMock, Goto, Exit
<1>7. CASE ChooseTransport
  BY <1>7 DEF ChooseTransport, Goto
<1>8. CASE StartWorker
  BY <1>8 DEF StartWorker, Goto, Exit, Worker!Launch
<1>9. CASE WorkerPid
  BY <1>9 DEF WorkerPid, Goto
<1>10. CASE PollWorker
  BY <1>10 DEF PollWorker, Goto, Exit, WorkerReady, Worker!Alive
<1>11. CASE Stage
  BY <1>11 DEF Stage, Goto, Exit
<1>12. CASE WarmEnds
  BY <1>12 DEF WarmEnds, Goto, Exit
<1>13. ASSUME NEW t \in Tests, RunTest(t) PROVE Accounted'
  BY <1>13 DEF RunTest
<1>14. CASE SuiteEnds
  BY <1>14 DEF SuiteEnds, Goto, Exit, Verdict, RunnerStatus
<1>15. CASE StopWorker
  BY <1>15 DEF StopWorker, Goto, Worker!Alive, Worker!Tell
<1>16. CASE AwaitWorker
  BY <1>16 DEF AwaitWorker, Goto
<1>17. CASE StopMock
  BY <1>17 DEF StopMock, Goto, Mock!Alive, Mock!Tell
<1>18. CASE AwaitMock
  BY <1>18 DEF AwaitMock, Goto
<1>19. CASE RemoveSocket
  BY <1>19 DEF RemoveSocket, Goto
<1>20. CASE MockReports
  BY <1>20 DEF MockReports, Mock!Report, Rest
<1>21. CASE MockDies
  BY <1>21 DEF MockDies, Mock!Die, Mock!Alive, Rest
<1>22. CASE WorkerBinds
  BY <1>22 DEF WorkerBinds, Rest
<1>23. CASE WorkerReports
  BY <1>23 DEF WorkerReports, Worker!Report, Rest
<1>24. CASE WorkerDies
  BY <1>24 DEF WorkerDies, Worker!Die, Worker!Alive, Rest
<1>25. CASE Interrupt
  BY <1>25 DEF Interrupt, Foreground
<1>26. CASE UNCHANGED vars
  BY <1>26 DEF vars
<1> QED
  BY <1>0, <1>1, <1>2, <1>3, <1>4, <1>5, <1>6, <1>7, <1>8, <1>9,
     <1>10, <1>11, <1>12, <1>13, <1>14, <1>15, <1>16, <1>17, <1>18,
     <1>19, <1>20, <1>21, <1>22, <1>23, <1>24, <1>25, <1>26
  DEF Next, Script, Ended

\* The script stops all it has started and knows of, whatever fails, reports
\* late or dies, and never a worker it was given.
THEOREM TrapCleansUp == Spec => []CleansUpItsOwn
<1>1. TypeInv /\ Accounted => CleansUpItsOwn
  BY DEF TypeInv, PhaseInv, PhasesOK, DataOK, Accounted, MockAccounted, WorkerAccounted, SocketAccounted,
         CleansUpItsOwn, Over
<1>2. Spec => []TypeInv
  BY TypeInit, TypeStep, PTL DEF Spec
<1>3. TypeInv /\ Accounted /\ [Next]_vars => Accounted'
  BY AccountedStep
<1> QED
  BY <1>1, <1>2, <1>3, AccountedInit, PTL DEF Spec

----------------------------------------------------------------------------
(* The exit status.                                                        *)

LEMMA VerdictInit == Init => VerdictStands
BY DEF Init, VerdictStands

LEMMA VerdictStep == TypeInv /\ VerdictStands /\ [Next]_vars => VerdictStands'
<1> SUFFICES ASSUME TypeInv, VerdictStands, [Next]_vars PROVE VerdictStands'
  OBVIOUS
<1> USE DEF TypeInv, PhaseInv, PhasesOK, DataOK, Cleanup, VerdictStands, Ran
<1>0. CASE SetupFails
  BY <1>0 DEF SetupFails, Goto
<1>1. CASE RejectTransport
  BY <1>1 DEF RejectTransport, Goto
<1>2. CASE Begin
  BY <1>2 DEF Begin, Goto
<1>3. CASE BuildEnds
  BY <1>3 DEF BuildEnds, Goto, Exit
<1>4. CASE StartMock
  BY <1>4 DEF StartMock, Goto, Exit, Mock!Launch
<1>5. CASE MockPid
  BY <1>5 DEF MockPid, Goto
<1>6. CASE PollMock
  BY <1>6 DEF PollMock, Goto, Exit
<1>7. CASE ChooseTransport
  BY <1>7 DEF ChooseTransport, Goto
<1>8. CASE StartWorker
  BY <1>8 DEF StartWorker, Goto, Exit, Worker!Launch
<1>9. CASE WorkerPid
  BY <1>9 DEF WorkerPid, Goto
<1>10. CASE PollWorker
  BY <1>10 DEF PollWorker, Goto, Exit, WorkerReady, Worker!Alive
<1>11. CASE Stage
  BY <1>11 DEF Stage, Goto, Exit
<1>12. CASE WarmEnds
  BY <1>12 DEF WarmEnds, Goto, Exit
<1>13. ASSUME NEW t \in Tests, RunTest(t) PROVE VerdictStands'
  BY <1>13 DEF RunTest, Outcomes, WorkerServes
<1>14. CASE SuiteEnds
  BY <1>14 DEF SuiteEnds, Goto, Exit, Verdict, RunnerStatus
<1>15. CASE StopWorker
  BY <1>15 DEF StopWorker, Goto, Worker!Alive, Worker!Tell
<1>16. CASE AwaitWorker
  BY <1>16 DEF AwaitWorker, Goto
<1>17. CASE StopMock
  BY <1>17 DEF StopMock, Goto, Mock!Alive, Mock!Tell
<1>18. CASE AwaitMock
  BY <1>18 DEF AwaitMock, Goto
<1>19. CASE RemoveSocket
  BY <1>19 DEF RemoveSocket, Goto
<1>20. CASE MockReports
  BY <1>20 DEF MockReports, Mock!Report, Rest
<1>21. CASE MockDies
  BY <1>21 DEF MockDies, Mock!Die, Mock!Alive, Rest
<1>22. CASE WorkerBinds
  BY <1>22 DEF WorkerBinds, Rest
<1>23. CASE WorkerReports
  BY <1>23 DEF WorkerReports, Worker!Report, Rest
<1>24. CASE WorkerDies
  BY <1>24 DEF WorkerDies, Worker!Die, Worker!Alive, Rest
<1>25. CASE Interrupt
  BY <1>25 DEF Interrupt, Foreground
<1>26. CASE UNCHANGED vars
  BY <1>26 DEF vars
<1> QED
  BY <1>0, <1>1, <1>2, <1>3, <1>4, <1>5, <1>6, <1>7, <1>8, <1>9,
     <1>10, <1>11, <1>12, <1>13, <1>14, <1>15, <1>16, <1>17, <1>18,
     <1>19, <1>20, <1>21, <1>22, <1>23, <1>24, <1>25, <1>26
  DEF Next, Script, Ended

\* Exit status 0 is never that of a suite that failed or did not run.
THEOREM GreenIsEarned == Spec => []GreenMeansTested
<1>1. TypeInv /\ VerdictStands => GreenMeansTested
  BY DEF TypeInv, PhaseInv, PhasesOK, DataOK, Args, VerdictStands, GreenMeansTested, Ran
<1>2. Spec => []TypeInv
  BY TypeInit, TypeStep, PTL DEF Spec
<1>3. TypeInv /\ VerdictStands /\ [Next]_vars => VerdictStands'
  BY VerdictStep
<1> QED
  BY <1>1, <1>2, <1>3, VerdictInit, PTL DEF Spec
=============================================================================
