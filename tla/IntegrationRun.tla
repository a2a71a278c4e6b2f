--------------------------- MODULE IntegrationRun ---------------------------
(***************************************************************************)
(* ci/run-integration.sh: build and start the mock TLS server, start a     *)
(* worker on the transport asked for, run the SQL suite against them, and  *)
(* stop what was started from a trap on EXIT.  The script is one process;  *)
(* the mock and the worker are others, which may be slow, never report, or *)
(* die; a signal may end the script between any two of its commands.       *)
(***************************************************************************)
EXTENDS Naturals, FiniteSets

CONSTANTS
    MockTries,    \* looks at the mock's output (30 in the script)
    WorkerTries   \* looks at the worker's output (50 in the script)

ASSUME TriesAssumption == MockTries \in Nat \ {0} /\ WorkerTries \in Nat \ {0}

VARIABLES
    args,      \* the environment variables the script is called with
    pc,        \* the command the script is at
    mock,      \* the mock server's process
    worker,    \* the worker's process, when it is not the runner's own child
    sock,      \* whether the worker's socket file exists
    known,     \* which of MOCK_PID, WORKER_PID and UNIX_SOCK are set
    printed,   \* whose PORT or UNIX line is in its output file
    tries,     \* looks left in the polling loop
    outcome,   \* test file -> what the runner made of it
    rc,        \* "running", then the script's exit status
    orphan     \* a foreground child was left running

vars == <<args, pc, mock, worker, sock, known, printed, tries, outcome, rc, orphan>>

Mock   == INSTANCE ServerProcess WITH proc <- mock
Worker == INSTANCE ServerProcess WITH proc <- worker

\* cert_offline.test and tls_inspect.test
Tests == {"offline", "tls"}

\* TEST_PATTERN may match any of them, or no file at all.
Args == [transport : {"subprocess", "http", "unix", "unknown"}, prelaunched : BOOLEAN,
         skipMock : BOOLEAN, pattern : SUBSET Tests]

\* TRANSPORT=http and a VGI_X509_WORKER that is a URL: somebody else's worker.
Borrowed == args.transport = "http" /\ args.prelaunched

Foreground == {"build", "warm", "suite"}
Cleanup    == {"stop worker", "await worker", "stop mock", "await mock", "remove socket"}
States     == {"absent", "starting", "ready", "told", "gone"}

PhasesOK ==
    /\ pc \in {"start", "start mock", "mock pid", "poll mock", "transport", "start worker",
               "worker pid", "poll worker", "stage", "ended"} \cup Foreground \cup Cleanup
    /\ rc \in {"running", "0", "1", "2", "signal"}
    /\ pc \in Cleanup \cup {"ended"} <=> rc # "running"
    /\ mock \in States /\ worker \in States
    /\ args.skipMock => mock = "absent"

DataOK ==
    /\ args \in Args
    /\ sock \in BOOLEAN /\ orphan \in BOOLEAN
    /\ known \subseteq {"mock", "worker", "socket"}
    /\ printed \subseteq {"mock", "worker"}
    /\ tries \in 0..(MockTries + WorkerTries)
    /\ outcome \in [Tests -> {"pending", "passed", "failed", "skipped"}]

TypeOK == PhasesOK /\ DataOK

Init ==
    /\ args \in Args
    /\ pc = "start" /\ mock = "absent"
    /\ worker \in IF Borrowed THEN {"ready", "gone"} ELSE {"absent"}
    /\ sock = FALSE /\ known = {} /\ printed = {} /\ tries = 0
    /\ outcome = [t \in Tests |-> "pending"]
    /\ rc = "running" /\ orphan = FALSE

----------------------------------------------------------------------------
(* The script.                                                             *)

Goto(from, to) == pc = from /\ pc' = to

\* exit, or a failing command under set -e: the trap runs.  Every step below
\* with a mktemp, mkdir, sed or rm in it may end so.
Exit(from, status) == Goto(from, "stop worker") /\ rc' = status

\* A variable that must be set is not, or there is no scratch directory; the
\* trap is not set yet.
SetupFails ==
    /\ Goto("start", "ended") /\ rc' = "1"
    /\ UNCHANGED <<args, mock, worker, sock, known, printed, tries, outcome, orphan>>

RejectTransport ==
    /\ args.transport = "unknown"
    /\ Goto("start", "ended") /\ rc' = "2"
    /\ UNCHANGED <<args, mock, worker, sock, known, printed, tries, outcome, orphan>>

\* Variant: SKIP_MOCK is not looked at.
BeginBuilds ==
    /\ args.transport # "unknown"
    /\ Goto("start", "build")
    /\ UNCHANGED <<args, mock, worker, sock, known, printed, tries, outcome, rc, orphan>>

Begin ==
    /\ args.transport # "unknown"
    /\ Goto("start", IF args.skipMock THEN "transport" ELSE "build")
    /\ UNCHANGED <<args, mock, worker, sock, known, printed, tries, outcome, rc, orphan>>

BuildEnds ==
    /\ \/ Goto("build", "start mock") /\ UNCHANGED rc
       \/ Exit("build", "1")
    /\ UNCHANGED <<args, mock, worker, sock, known, printed, tries, outcome, orphan>>

StartMock ==
    /\ \/ Goto("start mock", "mock pid") /\ Mock!Launch /\ UNCHANGED rc
       \/ Exit("start mock", "1") /\ UNCHANGED mock
    /\ UNCHANGED <<args, worker, sock, known, printed, tries, outcome, orphan>>

MockPid ==
    /\ Goto("mock pid", "poll mock")
    /\ known' = known \cup {"mock"}
    /\ tries' = MockTries
    /\ UNCHANGED <<args, mock, worker, sock, printed, outcome, rc, orphan>>

\* Variant: the loop looks for as long as it takes.
PollMockForever ==
    /\ IF "mock" \in printed THEN Goto("poll mock", "transport") ELSE Goto("poll mock", "poll mock")
    /\ UNCHANGED <<args, mock, worker, sock, known, printed, tries, outcome, rc, orphan>>

\* A number of looks for the PORT line, whether the mock is alive or not.  The
\* script ends when none is left, or when a command of the step fails.
PollMock ==
    /\ \/ /\ tries > 0 /\ "mock" \in printed
          /\ Goto("poll mock", "transport") /\ UNCHANGED <<tries, rc>>
       \/ /\ tries > 0 /\ "mock" \notin printed
          /\ Goto("poll mock", "poll mock") /\ tries' = tries - 1 /\ UNCHANGED rc
       \/ Exit("poll mock", "1") /\ UNCHANGED tries
    /\ UNCHANGED <<args, mock, worker, sock, known, printed, outcome, orphan>>

\* The unix case removes a stale socket and remembers the path to clean up.
ChooseTransport ==
    /\ Goto("transport", IF args.transport = "subprocess" \/ Borrowed
                         THEN "stage" ELSE "start worker")
    /\ known' = IF args.transport = "unix" THEN known \cup {"socket"} ELSE known
    /\ UNCHANGED <<args, mock, worker, sock, printed, tries, outcome, rc, orphan>>

StartWorker ==
    /\ \/ Goto("start worker", "worker pid") /\ Worker!Launch /\ UNCHANGED rc
       \/ Exit("start worker", "1") /\ UNCHANGED worker
    /\ UNCHANGED <<args, mock, sock, known, printed, tries, outcome, orphan>>

WorkerPid ==
    /\ Goto("worker pid", "poll worker")
    /\ known' = known \cup {"worker"}
    /\ tries' = WorkerTries
    /\ UNCHANGED <<args, mock, worker, sock, printed, outcome, rc, orphan>>

WorkerReady == "worker" \in printed /\ (args.transport = "unix" => sock)

\* Each look that finds nothing checks that the worker lives (kill -0).  The
\* script ends when it does not, when no look is left, or a command fails.
PollWorker ==
    /\ \/ /\ tries > 0 /\ WorkerReady
          /\ Goto("poll worker", "stage") /\ UNCHANGED <<tries, rc>>
       \/ /\ tries > 0 /\ ~WorkerReady /\ Worker!Alive
          /\ Goto("poll worker", "poll worker") /\ tries' = tries - 1 /\ UNCHANGED rc
       \/ Exit("poll worker", "1") /\ UNCHANGED tries
    /\ UNCHANGED <<args, mock, worker, sock, known, printed, outcome, orphan>>

Stage ==
    /\ \/ Goto("stage", "warm") /\ UNCHANGED rc
       \/ Exit("stage", "1")
    /\ UNCHANGED <<args, mock, worker, sock, known, printed, tries, outcome, orphan>>

\* A warm run that fails is only warned about; its file may not be written.
WarmEnds ==
    /\ \/ Goto("warm", "suite") /\ UNCHANGED rc
       \/ Exit("warm", "1")
    /\ UNCHANGED <<args, mock, worker, sock, known, printed, tries, outcome, orphan>>

----------------------------------------------------------------------------
(* The runner.  Without VGI_X509_TEST_ADDR tls_inspect.test skips itself;  *)
(* over http any error may be taken for one of the network, and skipped.   *)

WorkerServes == args.transport = "subprocess" \/ worker = "ready"

Outcomes(t) ==
    IF t = "tls" /\ args.skipMock THEN {"skipped"}
    ELSE IF WorkerServes /\ (t = "tls" => mock = "ready") THEN {"passed", "failed"}
    ELSE IF args.transport = "http" THEN {"failed", "skipped"} ELSE {"failed"}

RunTest(t) ==
    /\ pc = "suite"
    /\ t \in args.pattern /\ outcome[t] = "pending"
    /\ \E o \in Outcomes(t) : outcome' = [outcome EXCEPT ![t] = o]
    /\ UNCHANGED <<args, pc, mock, worker, sock, known, printed, tries, rc, orphan>>

Ran(o) == {t \in args.pattern : outcome[t] = o}

\* A failed test is an error; what no test at all is, the runner decides.
RunnerStatus == IF args.pattern = {} THEN {"0", "1"}
                ELSE IF Ran("failed") # {} THEN {"1"} ELSE {"0"}

\* Variant: the runner's exit status is all that is looked at.
VerdictOfRunner(status) == status

\* The runner's status, and a run that skipped everything is no success.
Verdict(status) ==
    IF status # "0" \/ (args.pattern # {} /\ Ran("skipped") = args.pattern) THEN "1" ELSE "0"

SuiteEnds ==
    /\ Ran("pending") = {}
    /\ \E status \in RunnerStatus : Exit("suite", Verdict(status))
    /\ UNCHANGED <<args, mock, worker, sock, known, printed, tries, outcome, orphan>>

----------------------------------------------------------------------------
(* The trap.                                                               *)

\* kill fails, and is ignored, when the process is already gone.
StopWorker ==
    /\ IF "worker" \in known
       THEN /\ Goto("stop worker", "await worker")
            /\ IF Worker!Alive THEN Worker!Tell ELSE UNCHANGED worker
       ELSE Goto("stop worker", "stop mock") /\ UNCHANGED worker
    /\ UNCHANGED <<args, mock, sock, known, printed, tries, outcome, rc, orphan>>

\* Variant: no "|| true" after wait, whose status is that of a killed process:
\* set -e ends the trap there.
AwaitWorkerFails ==
    /\ worker = "gone"
    /\ Goto("await worker", "ended")
    /\ UNCHANGED <<args, mock, worker, sock, known, printed, tries, outcome, rc, orphan>>

AwaitWorker ==
    /\ worker = "gone"
    /\ Goto("await worker", "stop mock")
    /\ UNCHANGED <<args, mock, worker, sock, known, printed, tries, outcome, rc, orphan>>

StopMock ==
    /\ IF "mock" \in known
       THEN /\ Goto("stop mock", "await mock")
            /\ IF Mock!Alive THEN Mock!Tell ELSE UNCHANGED mock
       ELSE Goto("stop mock", "remove socket") /\ UNCHANGED mock
    /\ UNCHANGED <<args, worker, sock, known, printed, tries, outcome, rc, orphan>>

AwaitMock ==
    /\ mock = "gone"
    /\ Goto("await mock", "remove socket")
    /\ UNCHANGED <<args, mock, worker, sock, known, printed, tries, outcome, rc, orphan>>

RemoveSocket ==
    /\ Goto("remove socket", "ended")
    /\ sock' = (sock /\ "socket" \notin known)
    /\ UNCHANGED <<args, mock, worker, known, printed, tries, outcome, rc, orphan>>

Script == \/ SetupFails \/ RejectTransport \/ Begin \/ BuildEnds \/ StartMock \/ MockPid \/ PollMock
          \/ ChooseTransport \/ StartWorker \/ WorkerPid \/ PollWorker \/ Stage \/ WarmEnds
          \/ (\E t \in Tests : RunTest(t)) \/ SuiteEnds
          \/ StopWorker \/ AwaitWorker \/ StopMock \/ AwaitMock \/ RemoveSocket

----------------------------------------------------------------------------
(* The two servers, and the signal.                                        *)

Rest == <<args, pc, known, tries, outcome, rc, orphan>>

MockReports == Mock!Report /\ printed' = printed \cup {"mock"} /\ UNCHANGED <<Rest, worker, sock>>
MockDies    == Mock!Die /\ UNCHANGED <<Rest, worker, sock, printed>>

\* The socket is made before the UNIX line is printed.
WorkerBinds ==
    /\ args.transport = "unix" /\ worker \in {"starting", "told"}
    /\ ~sock /\ sock' = TRUE
    /\ UNCHANGED <<Rest, mock, worker, printed>>

WorkerReports ==
    /\ args.transport = "unix" => sock
    /\ Worker!Report /\ printed' = printed \cup {"worker"}
    /\ UNCHANGED <<Rest, mock, sock>>

WorkerDies == Worker!Die /\ UNCHANGED <<Rest, mock, sock, printed>>

\* One signal, to the script alone, at any of its commands before the trap:
\* bash runs the trap at once and does not wait for its foreground child.
Interrupt ==
    /\ rc = "running"
    /\ pc' = "stop worker" /\ rc' = "signal" /\ orphan' = (pc \in Foreground)
    /\ UNCHANGED <<args, mock, worker, sock, known, printed, tries, outcome>>

Ended == pc = "ended" /\ UNCHANGED vars

Next == Script \/ MockReports \/ MockDies \/ WorkerBinds \/ WorkerReports \/ WorkerDies
        \/ Interrupt \/ Ended

Spec == Init /\ [][Next]_vars

\* The script goes on, its foreground children end, and a server told to stop
\* does; nobody has to report, to die unasked, or to interrupt.
Fairness == /\ WF_vars(Script)
            /\ WF_vars(mock = "told" /\ MockDies)
            /\ WF_vars(worker = "told" /\ WorkerDies)

FairSpec == Spec /\ Fairness

----------------------------------------------------------------------------
(* Properties.                                                             *)

Over(p) == p \in {"absent", "gone"}

\* "All started processes are trap-killed on exit." (run-integration.sh:22-23)
\* holds as far as this: whatever fails, reports late or dies, the trap
\* (70-78) leaves no server and no socket; after a signal, only a server whose
\* process id had not been assigned yet, or a foreground child, may be left;
\* and the trap never stops a worker that was running before the script.
CleansUpItsOwn ==
    /\ Borrowed => worker # "told"
    /\ pc = "ended" =>
        /\ rc # "signal" => ~orphan
        /\ rc # "signal" \/ "mock" \in known => Over(mock)
        /\ ~Borrowed /\ (rc # "signal" \/ "worker" \in known) => Over(worker) /\ ~sock

\* "All started processes are trap-killed on exit." (run-integration.sh:22-23),
\* taken at its word, of the two servers.
AllStartedAreStopped == pc = "ended" => Over(mock) /\ (~Borrowed => Over(worker))

\* Exit status 0 means that the suite was really run: no test failed, one at
\* least passed, and those skipped were skipped for want of the mock, as asked,
\* or by the runner's network rule over http (run-integration.sh:217-242).  A
\* pattern that matches no file is left to the runner's own status.
GreenMeansTested ==
    pc = "ended" /\ rc = "0" /\ args.pattern # {} =>
        /\ Ran("passed") # {}
        /\ \A t \in args.pattern \ Ran("passed") :
              /\ outcome[t] = "skipped"
              /\ args.transport = "http" \/ (t = "tls" /\ args.skipMock)

\* A server that never reports, reports late or dies does not keep the script
\* waiting for ever (run-integration.sh:92-101, 129-140, 156-168).
RunEnds == <>(pc = "ended")
=============================================================================
