# A TLA+ development of vgi-x509

vgi-x509 is a VGI worker in Go: DuckDB attaches it as a catalog and calls its
SQL functions, which parse X.509 certificates and inspect TLS endpoints. This
directory holds TLA+ models of its code, the TLC configurations that check them
on small instances, and proofs of the central results for every instance.

| File | What it is |
| --- | --- |
| `Certificate.tla` | pure operators: argument bytes, `ParseCertificate`, accessors, rows |
| `TestCA.tla` | the certificates of the tests and the forms they are handed out in |
| `ScanContract.tla` | what a table function promises a query, without any mechanism |
| `TableScan.tla` | the scan protocol of `cert_info` and `tls_inspect`, over every transport |
| `InspectTLS.tla` | one TLS inspection, from its arguments to its return |
| `ScalarBatch.tla` | a scalar function over one batch of rows |
| `Catalog.tla` | what the worker tells the engine of itself, and a session that relies on it |
| `WorkerFlags.tla` | the worker's start-up: argument filter, flag parser, transport |
| `MockServer.tla` | the mock TLS server of the SQL tests |
| `InspectMock.tla` | an inspection of the mock server: `InspectTLS` and `MockServer` composed |
| `ServerProcess.tla` | what a script that starts a server in the background may count on |
| `IntegrationRun.tla` | the integration script with the servers it starts |
| `CertificateProofs.tla` | lemmas about the operators of `Certificate` |
| `TableScanProofs.tla` | proofs about `TableScan`, its refinement of `ScanContract` included |
| `InspectTLSProofs.tla`, `ScalarBatchProofs.tla`, `IntegrationRunProofs.tla`, `WorkerFlagsProofs.tla`, `CatalogProofs.tla` | proofs about the modules they are named for |
| `InspectMockProofs.tla` | the composition refines `InspectTLS`, the server in it `ServerProcess`; its invariants |
| `MC_*.tla`, `*.cfg` | instances for TLC |
| `PROJECT.json` | the index: components, runs, mutants, map to the code, findings, hazards, theorems |

How they build on each other:

```
Certificate <- ScanContract, TableScan, ScalarBatch
Certificate <- TestCA <- Catalog
TestCA, InspectTLS, MockServer <- InspectMock     (refines InspectTLS)
TableScan                                         (refines ScanContract)
ServerProcess <- IntegrationRun
ServerProcess <- MockServer                       (refines ServerProcess)
```

Check a run with `tlc -config ScanHttp.cfg MC_TableScan`, a module's proofs with
`tlapm TableScanProofs.tla`.

## 1. Inventory

Lines are those of the files under `internal/x509worker/` unless a path is given.

### Certificate core (`cert.go`, `info.go`)

*State* none. *Operations* `ParseCertificate` takes bytes that are PEM text or
DER (cert.go:30-55); nine accessors read a certificate (57-121); `CertInfo`
flattens one into eleven rows (info.go:21-35). *Used by* every SQL function.
*Hard* the dispatch looks at the content, not at the SQL type; what the PEM
decoder skips is invisible to the caller; the validity window includes both its
ends. *Correct when* every malformed input is an error and a certificate's
answers are its own.

### Scalar functions (`functions.go:52-336`)

*State* a builder, its child buffer for lists, and `firstErr`, all local to one
call of `Process`. *Operations* four families, by result type (text, boolean,
timestamp, list), each a loop over the rows of an Arrow batch. *Interacts* with
the SDK (`MapColumn`, `BuildResultBatch`) and the clock (`cert_is_expired`).
*Hard* the loop goes on after a bad row, with a placeholder in its slot; a
timestamp or list builder gets NULL there and a text or boolean one gets `""` or
`false`; all lists of a column share one buffer. *Correct when* the column has one
slot per row, holding the value of that row's certificate, or the call fails
with the error of the first bad row.

### Table functions (`functions.go:342-652`)

*State* `certInfoState` and `tlsInspectState`: the rows of the whole scan, made
once by `NewState`, and `Offset`, the first row not yet emitted. The SDK
gob-encodes the state between `NewState` and `Process`. Over stdio and unix it
lives in the worker's memory between ticks; over http the worker keeps nothing,
and the state travels as a continuation token that the client sends back.
*Operations* `NewState` (parse, or inspect the endpoint), `Process` (one slice of
at most `rowsPerTick` rows, or the end). *Hard* where the position lives and when
it moves: a comment (342-357) tells of a bug in which a flag set after the emit
made every http scan endless, and no other transport showed it. Replays, lost
answers, crashes of the worker, and a source that changes while the scan runs.
*Correct when* the query gets each row once, in order, all from one reading of
the source, and the scan ends.

### TLS inspection (`tls.go`)

*State* of one call: a context with a deadline, a TCP connection, a TLS session,
the stack of deferred calls. *Operations* `InspectTLS`. *Interacts* with a peer
that owes it nothing, and with timers. *Hard* every step may fail or block; one
deadline covers two waits; what was opened must be closed on every way out, in
the right order; `timeout_ms` is converted without a range check. *Correct when*
it always returns within its timeout, leaves nothing open, and the chain it
returns is the one presented for the name asked for.

### Catalog (`functions.go:655-807`, `meta.go`, `cmd/vgi-x509-worker/main.go`)

*State* static tables, registered once at start-up. *Operations* none of its own;
the engine reads the tables, plans calls by them, and may evaluate a call declared
`StabilityConsistent` once for many executions. *Hard* four lists are kept by
hand in step: the scalars with their types and accessors, their examples, the
rows of the `cert_fields` view, and the fields `CertInfo` emits (a comment at
meta.go:319 asks for the lockstep). *Correct when* a client that calls what it was
told to call gets an answer, and the same one `cert_info` gives.

### Worker process (`cmd/vgi-x509-worker/main.go`)

*State* none after start-up. *Operations* `filterKnownFlags` drops the arguments
the launcher adds; the flags choose http, unix or stdio. *Hard* the filter and
the flag package must agree on which token is a flag and which is a value.

### Mock TLS server (`cmd/mockserver/main.go`) and `internal/testca`

*State* a listener, a goroutine per connection, a goroutine that waits for a
signal. *Interacts* with the inspections of the SQL tests, and with the script
that starts it, reads its port and kills it. *Hard* the handshake has no deadline,
any error of `Accept` ends the server, and a signal before `Notify` kills it.
*Correct when* a client that does its part is served whatever the others do, and a
signal ends it. `testca` generates its certificate.

### Integration run (`ci/run-integration.sh`)

*State* two background processes, the files they write `PORT:` or `UNIX:` to, the
process ids the script has noted, a cleanup trap. *Hard* bounded polling against
processes that start late or die; a trap under `set -e`; a worker that is somebody
else's; a signal at any command; a suite whose tests were all skipped must not
pass. *Correct when* it ends, leaves nothing of its own behind, and is green only
for a suite that ran.

### Container and release files

Packaging; the entry point only picks flags.

## 2. The models and the code

### `Certificate`

Arguments are abstracted to what `ParseCertificate` tells apart: empty or not,
leading white space or not, armor or not, a sequence of PEM blocks that decode or
do not and are of the right type or not, and what a DER parser makes of the
rest. The trim is used only to look for the armor, so white space before DER
stays and makes it unparsable (cert.go:38-47): the model keeps that. A
certificate keeps its validity window, its CA flag and its SAN lists; the text
accessors are functions of the certificate alone and share one value.
`encoding/pem`, `crypto/x509` and the Arrow arrays are modelled from how the code
uses them and marked external in the map.

### `TableScan` and `ScanContract`

| In the model | In the code |
| --- | --- |
| `State`, `Exported`, `GobRoundTrip` | the state structs and the gob rule (21-26, 389-395, 515-518) |
| `cursorBounds`, `Process` | the functions of those names (363-376, 469-483, 605-652) |
| `certInfoNewState`, `tlsInspectNewState` | the `NewState` methods (449-468, 575-604) |
| `ServeOpen`, `ServePull` | the worker answers a request: `NewState`, one tick of `Process` |
| `wire`, `held` | the one exchange a scan has in flight; the token its client holds |
| `live` | the state in a stdio or unix worker's memory |
| `Open`, `Pull`, `Receive` | the query engine's client |
| `Lose`, `Resend`, `GiveUp` | http: a lost request or answer, sent again or given up |
| `Crash` | stdio, unix: the worker process dies, its scans with it |
| `Rotate`, `ClockTick` | the endpoint gets other certificates; time passes |

`made`, a history variable, is the result of the last `NewState` that succeeded.
`tlsInspectNewState` may fail or return the chain served at that moment, which is
what `InspectTLS` promises; the call itself is the subject of its own module.

`ScanContract` states the promise in six actions: the source may be read again
until the scan starts and is frozen from then on; chunks are full but for the
last one; a scan ends when all of its rows have been given, or fails; a failure
may take several scans down at once. `KeepsPromise` says that `TableScan`
implements it, under the mapping `status <- Status, source <- made, given <- got`.

### `InspectTLS`

One action per step of the function: `RejectAddress`, `StartTimer`, `DialFails`,
`Connected`, `HandshakeFails`, `HandshakeCompletes`, `TakeChain`, and then the
deferred calls one by one (`RunDeferred`) and `Return`. The peer (`PeerStep`) may
accept, refuse, answer, abort, or do nothing. A Duration is a number of units and
wraps at plus and minus `Half`. The steps of the call take no time next to the waits, and
a timer fires when it is due (`Tick` waits for `Expire`), so "within the timeout"
is exact up to the scheduling of the process. When the peer's answer and the
timer coincide, both outcomes are possible. An address with an empty host part
(`":443"`) is not an input of the model.

### `ScalarBatch`

One action per kind of row (`NullRow`, `BadRow`, `GoodRow`), interleaved with the
clock, and `ProcessReturns`. `MapColumn`, which runs the loop of the text and boolean
families, may give up with an error of its own at any row (`MapFails`). The five families are the four structs of the code
with the two boolean accessors told apart. List slots carry the offset at which
their values begin, as an Arrow list builder keeps it, so that a list is read
back by cutting the shared buffer.

### `MockServer`

The main goroutine goes through `Generate`, `Listen`, `PrintPort`, `SpawnWatcher`
and then `Accept`s; each connection has a handler (`Handshake`, `Close`); the
signal goroutine (`Notify`, `CloseListener`, `OsExit`) may be scheduled at any time
after it is spawned. `Kill` is the caller's signal: before `Notify` its default
action ends the process, after it the signal waits to be received. Connections that
come before `Accept` wait in the kernel's backlog. Any error of `Accept` returns from
`main`. There are three causes: the listener is closed, or `MaxOpen` connections are open and
no descriptor is left, which the kernel notices whether anybody waits or not (`AcceptFails`);
or the system, not the process, is short of descriptors or buffers (`short`), and a call of
`Accept` may fail at any time (`AcceptErrs`). The system gets into such a shortage and out of it
by `Scarcity`. Talkers do their part of the handshake; the other clients may
stay silent for ever or go away.

`AsProcess` reads the state as that of a `ServerProcess`, the interface the scripts
count on, and `ActsAsServer` says that the server implements it, its liveness
included: told to end, it ends.

### `InspectMock` and `TestCA`

One call of `InspectTLS` and one `MockServer`, on the two ends of a connection, with
other clients about. The two modules are instantiated, not copied. `Net`, what the
call sees of its peer, is read off the server's tables: refused when the listener
is closed, accepted once a connection is queued, answered once the handler has
presented the certificate, aborted when the connection is closed without. What
the server sees of this client is read off the call: it connects while the call
dials, speaks while the call is in its handshake, and goes away when the call has
let its connection go. `LegalPeer` says that through `Net` the composition is a
behaviour of `InspectTLS`. The call uses the address the server printed, `insecure`
as in the SQL tests. The certificate is the one `testca` makes of the
server's options: `Template` is the template field by field, `AsPEM` and `AsDER` the
forms it is given out in.

### `Catalog`

The registry, the registration and the field lists are translated row by row (the
prose of the tags is not). A session generates a certificate, learns of a call from
the view, from an example of a function, from a schema example or by guessing, has
it planned, executes it as often as it likes, and dumps the same certificate with
`cert_info`; the clock moves between any two steps. The engine is external: `Plan`
may evaluate a call there and then when its function is declared consistent and
its arguments are constants. `ViewMatchesDump` allows `is_expired` to differ only if
the certificate's validity changed between the times at which the two were read.

### `IntegrationRun` and `ServerProcess`

One action per command of the script that matters to its processes, from `Begin`
to the five steps of the trap, with the starts of the two servers split in two: the
process runs before `$!` is assigned (`StartMock`, `MockPid`). A command that fails
under `set -e`, a `mktemp`, `sed` or `rm` between the starts included, runs the trap (`Exit`);
one that fails before the trap is set ends the script at once (`SetupFails`). The trap's own
`rm -f` of the socket (75) is taken to succeed. `TEST_PATTERN` may match any of the test
files or none; what the runner makes of none is left open (`RunnerStatus`). The servers are `ServerProcess`es: they report
late or never, and die at any moment. The unix worker makes its socket before it
prints its line. The runner is external: a test that needs a server that is gone
fails, or is skipped over http, where the runner takes errors for those of the
network. `Interrupt` is one signal to the script, at any command before the trap.

### `WorkerFlags`

`Drop` and `Keep` are the ways through the loop of `filterKnownFlags`; `SetFlag`,
`ParseError` and `ParseEnds` are the flag package's parser (external) over what the
filter kept; `Serve` applies the logging flags and picks the transport. A level or a format
that the SDK does not know ends the worker, and so may an error of `RunHttp` or `RunUnix`
(`Outcomes`); which levels and formats it knows is external, and one good and one bad value
stand for them. An argument is a number of dashes, a name and perhaps an inline value, which
may be empty (`--unix=`). The command line is made of
units, each with the flag its caller means to set and the value meant, which gives the
reference: `Intended` sets each of the worker's flags to the last value meant for it and
ignores everything else. A unit is well formed if its arguments say what it means
(`Sets`: the flag, with the value after it, in it, or left out of a boolean) or if no
argument in it is one of the worker's flags (`Foreign`). A foreign flag whose separate value
looks like one of the worker's own flags is not well formed: the filter cannot tell it
from that flag, and does not claim to. `exit2` is the flag package's exit on an error.

## 3. The runs

| Run | Instance | What it shows |
| --- | --- | --- |
| `ScanHttp` | 2 scans over http, 4 rows a tick, chains of 4 and 5 certificates, a certificate that expires, one loss sent again per scan | all promises of a scan, and that it ends, under replays, rotation and time |
| `ScanLive` | 2 scans over unix, every kind of call (good, NULL, malformed, unbindable), chains of 1, 4 and 5 | the abstract scan, and the end, with state in memory and a worker that may crash |
| `Inspect` | 3 addresses, 5 timeouts, both verification settings, 3 server names; an alias with another chain and a name with none | termination, timeout, clean release, the right chain |
| `Batch` | columns of up to 3 rows of 9 kinds of cell, 5 families, a certificate that expires during the batch | the column lines up with its rows, or the first bad row fails it |
| `Mock` | one inspection, a client that talks, one that may be silent, 2 descriptors, a system short of them at times, a signal at any time | speakers are served past a silent client; both sides' waits end; the call fails only with the server; an end unasked has its reason; the rows are the mock's; the server is a legal peer and a proper process |
| `Flags` | command lines of up to 3 units out of 19 | foreign flags neither abort the start nor change it; filter and parser agree |
| `Run` | 4 values of `TRANSPORT`, own and borrowed workers, with and without the mock, 4 patterns, 2 looks per poll | the script ends, cleans up what it knows of, and is green only when earned |
| `Catalog` | 3 certificates (valid, expiring, a CA to come), both encodings, either way of planning, 3 times | what the client is told to call works, and agrees with `cert_info` |
| `MockKill` | the mock alone, 3 clients | finding 3 |
| `InspectOverflow` | as `Inspect` | finding 1 |
| `BatchPure` | columns of good certificates | finding 2 |
| `RunSignal` | as `Run` | finding 4 |

**Bounds.** With four rows a tick, `cert_info`'s eleven rows take three ticks, the
last one short; chains of 1, 4 and 5 give a single short slice, an exactly full one, and
a full and a short one; a NULL argument gives none. So the run meets each case of
`cursorBounds` and the end both after a full and after a short slice. One resend
per scan is enough to repeat any tick or `NewState`; two scans share a worker, an
endpoint and a clock and nothing else. `MaxNow = 1` lets the certificate expire once,
before, between or after any steps. Six-bit integers and four units a millisecond
wrap a timeout of 9 ms to a negative Duration and one of 17 ms to four units, the
two ways a 64-bit product of milliseconds can go wrong; `MaxClock` exceeds every
timeout of the instance, so the clock never stops a wait. Three rows are enough
for a bad row before and after another one, and for a list between two lists. In
`Mock`, a silent client takes one of the two descriptors, so a talker or the call
finds it in the way; the two of them together hold every descriptor, so that `Accept` may fail
with nobody waiting or with the third client in the backlog; and a client that has gone
leaves its descriptor to the next, so that clients come one after another and together
in numbers below, at and above the limit. `Limit = 1` separates a call that
times out from one that does not; how timeouts are computed is the subject of
`Inspect`. Two looks per poll (`MockTries`, `WorkerTries`, 30 and 50 in the script)
give a server that has reported before the first look, between the two, after the
last, and never; the bounds are constants of the module, and the proofs hold for
all of them. `Catalog` has one certificate whose validity ends and one whose
validity begins within its three times. `Run` has the empty pattern beside those
that match one of its two test files, or both. Three units put a foreign or ill-formed one before,
between and after the worker's flags. The
proofs of section 5 remove the bounds for what they state; what only the runs show is
named at its end.

**Fairness.** `TableScan`: the engine goes on pulling a scan it has opened and reads
answers, the worker answers requests, and a client that has lost an exchange
gives up at last (`WF` of `Pull`, `Receive`, `ServeOpen \/ ServePull`, `GiveUp`).
Nothing is assumed of losses, crashes, rotation or the clock. A crash is possible over unix
only, where a scan that was running fails: `DoneIsComplete` is checked over http, and that
no crash passes for the end of the rows is part of `KeepsPromise` in `ScanLive`. That the worker
answers an open request rests on `InspectTLS` returning, which is `AlwaysReturns`.
`InspectTLS`: the Go scheduler runs the call and its timers, and time goes on; the
peer is owed no fairness, and none is assumed. `MockServer`: the scheduler runs main,
the signal goroutine and each handler, and talkers speak; nothing is assumed of the
other clients, of signals, or of shortages, which need neither come, end nor make a call fail. `InspectMock`: both of these, and the kernel lets a server
know at last that its client's end is closed, which is what frees its handler
(`HangsUp`). `IntegrationRun`: the shell goes on to its next command, its foreground
children end, and a server that has been told to end does; that a server reports
is not assumed, and the polls are bounded for that reason. `ServerProcess` is fair
only to a process told to end, and `ActsAsServer` shows that `MockServer`'s own
fairness suffices for it. `ScalarBatch`, `WorkerFlags` and `Catalog` have no liveness
property: they are bounded loops and a client's free choice.

**Deadlock.** Modules that model something that ends stutter explicitly after it
(`Returned`, `Started`, `Exited`, `Done`, `Ended`) and only then, so a state in which the
call, the server or the script is stuck would be reported. In `TableScan` the
endpoint can always rotate, and in `Catalog` the client can always ask again.

**Mutants.** The definitions marked "Variant" (`ProcessAdvancesLate`,
`cursorBoundsPastEnd`, `ConnectedRawLast`, ...) are plausible mistakes in the code;
with one put in place of the original, the run named in `PROJECT.json` reports the
property violated. `ProcessAdvancesLate` is the bug the comment at
functions.go:352-357 tells of.

## 4. What the runs found

1. **`timeout_ms` wraps** (`InspectOverflow`, functions.go:584). The int64 is
   multiplied into nanoseconds unchecked. Past about 292 years of milliseconds,
   such as a very large "no timeout", the product is negative and silently becomes
   the default of ten seconds, or wraps to something shorter than asked for.
2. **`cert_is_expired` is not a function of its arguments** (`BatchPure`,
   functions.go:737). It reads the clock at each row, while its family is called
   pure (functions.go:84) and declared `StabilityConsistent` (functions.go:156).
   Equal rows of one batch can differ. `cert_info` reads the clock once.
3. **A signal can still kill the mock server** (`MockKill`,
   cmd/mockserver/main.go:59). `signal.Notify` runs in a new goroutine, which may
   not have been scheduled when the port is already known; the comment at line 56
   says a `kill` is clean. Asking for the signal before printing the port would do.
4. **A signal can leave a server running** (`RunSignal`, ci/run-integration.sh:89).
   A server is started in one command and its id noted in the next; a signal in between
   runs a trap that finds the id empty. The header says that "all started processes are
   trap-killed on exit" (22-23). The same gap is at lines 127 and 154.

The runs that pass also fix how far some claims of the code go:

- Any error of `Accept` ends the mock server with status 0 (main.go:69-72), as an
  orderly end does. Without a signal, and on a system that is short of nothing, this takes as
  many goroutines at work at one time as the process has descriptors: however many clients
  have come and gone before, they do not add up (`EndsAskedOrStarved`).
- Finding 4 is the whole of what the trap misses of the two servers: on every exit but one by
  such a signal everything is stopped. A signal during a foreground command leaves that child
  (`CleansUpItsOwn`).
- The mock server is polled without a check that it lives (run-integration.sh:92-101), and one
  that dies after its line is out is noticed only by the test that needs it; the suite
  is then red, or over http skipped, and never green for nothing (`GreenMeansTested`
  allows a file skipped over http beside one that passed).
- A statement with `cert_is_expired` of a constant may be folded when it is planned
  (functions.go:156), so its answer is that of the planning however late it is executed, where the
  README says "*now*" (README.md:65). That is the whole of what the view and `cert_info` may
  differ in: every other field agrees however late it is read, and `is_expired` differs only
  if the verdict moved between the two readings (`ViewMatchesDump`, `VerdictMoved`).
- `pem.Decode` skips a block it cannot decode (cert.go:40), so text that begins with a corrupt
  block and goes on with a good one is an answer about the second certificate, where the README
  promises an error for a PEM body that is not base64 (README.md:50). `PemDecode` models it, and
  `Batch` has such a cell among its good ones.
- `tls_inspect` starts from `context.Background()` (functions.go:583): a query given up
  does not stop the inspection, and nothing but its own timeout does. That one does,
  and everything is released (`WithinTimeout`, `AlwaysReturns`, `NothingLeaks`).

## 5. The proofs

All are proved for every value of the constants that the named assumptions of the
module allow. Those assumptions say that the inputs are of their types, that bounds are
natural numbers, and, for `InspectTLS`, that names and chains are given consistently.

| Module | Theorem | Statement |
| --- | --- | --- |
| `TableScanProofs` | `TypeCorrect` | `Spec => []TypeOK` |
| | `ScansStayCoherent` | `Spec => []ScansCoherent` |
| | `ScansAreNotTorn` | `Spec => []NoTornScan` |
| | `ScansEndComplete` | `Spec => []DoneIsComplete` |
| | `TokensMatchRows` | `Spec => []TokenMatchesRows` |
| | `ScansKeepPromise` | `Spec => KeepsPromise`, the refinement of `ScanContract` |
| `InspectTLSProofs` | `TypeCorrect` | `Spec => []TypeOK` |
| | `CallStaysCoherent` | `Spec => []CallCoherent` |
| | `CallsEndInTime` | `Spec => []WithinTimeout` |
| | `CallsReleaseAll` | `Spec => []NothingLeaks` |
| | `SessionsCloseCleanly` | `Spec => []CloseIsClean` |
| | `ChainIsThePresentedOne` | `Spec => []ReturnsPresentedChain` |
| | `TimeoutsAreKeptWithoutOverflow` | `Spec => []NoEarlyTimeout` if no product of milliseconds overflows |
| `ScalarBatchProofs` | `TypeCorrect` | `Spec => []TypeOK` |
| | `BatchStaysCoherent` | `Spec => []BatchCoherent` |
| | `FirstBadRowFails` | `Spec => []FirstErrorWins` |
| | `PlaceholdersStayInside` | `Spec => []NoPlaceholderEscapes` |
| | `ColumnsLineUp` | `Spec => []ColumnMatchesRows` |
| `IntegrationRunProofs` | `TypeCorrect` | `Spec => []TypeOK` |
| | `TrapCleansUp` | `Spec => []CleansUpItsOwn` |
| | `GreenIsEarned` | `Spec => []GreenMeansTested` |
| `InspectMockProofs` | `MockStaysCoherent` | `Spec => []MockCoherent` |
| | `HandlersClose` | `Spec => []OnlySilentClientsHold` |
| | `ServerIsToBlame` | `Spec => []FailsOnlyWithServer` |
| | `MockIsLegalPeer` | `Spec => LegalPeer`, the refinement of `InspectTLS` |
| | `TypeCorrect` | `Spec => []TypeOK`, of the call and of the server |
| | `DescriptorsAreCounted` | `Spec => [](ControlTyped /\ AskedToClose /\ DescriptorsCounted)` |
| | `EndsForAReason` | `Spec => EndsAskedOrStarved`, an action property |
| | `RowsAreTheMocks` | `Spec => []RowsOfMock` |
| | `MockIsAProcess` | `Spec => Process!Init /\ [][Process!Next]_Life`, the safety part of `ActsAsServer` |
| `WorkerFlagsProofs` | `TypeCorrect` | `Spec => []TypeOK` |
| | `ParserReadsAllHolds` | `Spec => []ParserReadsAll` |
| | `LauncherFlagsToleratedHolds` | `Spec => []LauncherFlagsTolerated` |
| | `StartsAsIntendedHolds` | `Spec => []StartsAsIntended` |
| `CatalogProofs` | `TypeCorrect` | `Spec => []TypeOK` |
| | `SessionStaysCoherent` | `Spec => []SessionCoherent` |
| | `ViewIsInLockstep` | `Spec => []ViewMatchesDump` |
| | `ToldIsTrue` | `Spec => []ToldCallsWork` |

So every invariant that a passing run checks is also proved, and of the temporal
properties the two refinements and the action property.

### Scans

None of the last four theorems is inductive by itself: that a scan is not torn depends on what the
worker will make of a token, and the token may be in flight, held, or about to be
sent a second time. `ScansCoherent` says for each scan, in seven named parts, what the
exchange in flight may be in each phase, that a batch in flight is the slice after
the rows received, that the cursor that counts (in memory, in the answer in
flight, or in the token held) points at the first row not received or in flight,
that the token held points at the first row not received, and that the rows come
from one reading. It follows from `Init`, and each action preserves it
(`InvStep`): an action moves one scan, and the lemma `OneScanMoves` carries the
others over. The facts about the operators are lemmas: `FirstDecodable` and
`ParseCertificateType` in `CertificateProofs` (the parser is total and well typed), `GobRoundTripIsIdentity`
(all fields of the state are exported), `ProcessFact` (a tick ends exactly when
nothing is left, and otherwise gives a non-empty slice and the cursor after it),
`PrefixGrows` (a prefix followed by the next slice is a prefix). The refinement has one
step per action: `ServeOpen` maps to `Read`, the receipt of the first answer to
`Start`, of a batch to `Deliver`, of the end to `Finish`, an error, `GiveUp` and
`Crash` to `Fail`, and everything else to a stutter.

### Inspections

Nothing that holds of the return of a call is inductive, since it depends on the
deferred calls still due. `CallCoherent` ties the stack to the rest of the state:
`DefersInOrder` says what has been pushed in each phase, `HeldIsDue` that the timer, the
connection and the session are held exactly as long as the call that releases them
is due, `ChainNeedsSession` that a chain is on its way out only from a session that is
up until it is closed with its connection open, `TimeIsTimeouts` that the clock stays
within the timeout and a timeout is never early. The lemmas `Pushed` and `Popped` say
what `Append`, `\o` and `SubSeq` make of the three stacks there can be. `WrapInRange`
(a number within the range of an integer is not changed by `Wrap`) gives the last
theorem: overflow is the only cause of finding 1.

### Batches

A returned column is the work of all the rows before it, so `BatchCoherent` speaks of
the first `i` rows: the error noted is that of the first bad one, whether the batch then
returns it or `MapColumn` fails, the slots of the others are in place, and no slot's values reach beyond the buffer. A step appends one slot and
perhaps values, and the lemmas show that the slots already there still cut the same
values out of the longer buffer. Columns are of any length; the runs go to three rows.

### The integration run

`Accounted` says what the trap may rely on at every command: a server whose process id
is not noted is absent, but for the one command between its start and the assignment; one
that is noted is gone once the trap is past it; a borrowed worker is never noted; a socket
file belongs to a worker whose path was noted before its start. `VerdictStands` says the
same of the verdict: a file is skipped only for a reason, and status 0 leaves nothing
pending or failed. The exception for signals in `CleansUpItsOwn` is where
`MockAccounted` and `WorkerAccounted` have their gap.

### The composition

`MockCoherent` relates the tables of the server to each other (what is open is handled,
what is queued is new and queued once, what clients have came through a listener that
opens once) and to the call (the session is opened before the call speaks, and let
go before it is gone). `NetMoves` lists the four ways in which `Net` may change under
`InspectTLS`; `CallStepOrStutter` shows that each step of server and clients is one of
them. The interesting cases are a handshake that completes (only because the
connection is still open and the call has spoken) and the end of the process, which
is a refusal to a call yet to connect and an abort to one that is connected. With
it, what is proved of `InspectTLS` against an arbitrary peer holds against the mock.

That the server ends unasked only when starved is a property of the step that ends it, since
what is open is closed by that step. `AskedToClose` says that a running server's listener is
closed only by a signal, so an end without one, on a system that is short of nothing, is an
`Accept` that found `MaxOpen` connections open (`EndStep`). Each of those is held by a goroutine that
has not closed it yet (`BusyHold`, from `MockCoherent`): a goroutine that ended and left its
connection open would break the theorem, since its client would still count against the
descriptors and no longer among those at work. `ConnectionsStep` says what any step does to
the set of open connections, which grows one by one and only below the limit: with the library's facts on
cardinalities that makes `DescriptorsCounted` inductive. The backlog holds nobody twice, so
it is a bijection from its places to its members, which gives the type invariant its last part.
`FlightTaken` says that an insecure call gets past its handshake only with the server's
flight in hand, and `MockRows` computes what `tls_inspect` makes of the chain.
`MockIsAProcess` needs no more than types: each action moves `Life` along `ServerProcess`
or leaves it alone.

### The worker's start-up

Two programs walk two lists of arguments, and neither knows the units they were made of.
For any command line, `Agree` says that the list the filter builds is cut into flags, with
the argument after them if they need one, and that the parser is always at a cut: that is
`ParserReadsAll`, and needs no well-formedness. For well-formed lines `OnTrack` says
more. While the filter runs, it stands at the beginning of a unit, and what it has kept is
the flattening of the units before it that are the worker's; once it is through, the
parser too stands at the beginning of such a unit, and the settings are those meant by the units
before it (`MeantBefore`). Then no error can come up (`NoParseError`), the parser ends
at the end (`ParseEndsAtEnd`), and the settings are `Intended`. What it all rests on is
`FlattenTiles`: where each sequence begins in a flattened sequence of sequences. The library defines
flattening by recursion, and the lemma is an induction over its length, done for this one
predicate by its least counterexample (`LeastOf`); `ArgsLayout` and `KeptLayout` apply it
to the arguments and to what the filter keeps.

### The catalog

`ListsAligned`, `RegistryIsRegister` and `NamesDiffer` read the literal tables once: the fields of
the view are those of `cert_info`, place by place, the registered scalars are exactly the ones the view
names, with the types it says and the accessors `cert_info` uses, and no two share a
name. So a name determines type and accessor (`Lockstep`). `ParsesPEM` and `ParsesDER` say
that what `testca` encodes is parsed back to the certificate it made, in either form.
`SessionCoherent` carries this through a session: an answer is the accessor's value at some
moment from the planning to the execution, folded or not, and a dump's rows are those of one
moment. `ValuesAgree` then leaves `is_expired` as the only field whose two readings may
differ, and only if the verdict moved between them.

### Only model-checked

Liveness (`EveryScanEnds`, `AlwaysReturns`, `HandlerFreed`, `TalkersAreServed`, `RunEnds`,
and the fairness condition of `ActsAsServer`, of which only the safety part is proved) is
out of the prover's reach, as is `ENABLED`. Induction over data is available only for a
concrete predicate, by its least counterexample; nothing else in these modules needs it. The runs
that end in a violation refute what a comment says, and have no theorem.

## 6. What is not modelled

The SDK, Arrow, `crypto/tls`, `crypto/x509`, the flag package, the SQL engine and the test
runner appear only as the code uses them. The texts of names, errors and timestamps are
not modelled, nor is the prose of the catalog's tags, or the quoting in the SQL of the
view (no text of the registry holds a quote). The container image, its entry point and the
release workflow only build, or start the worker with flags. The `Makefile` target that
starts the mock does a part of what the script does, without its checks. Whether the
http client in fact sends a request again is up to DuckDB; the model allows it once
or more and the results hold either way. A scan whose query is cancelled while `NewState`
is in `InspectTLS` is not a composition of its own: the call does not look at the query,
so `InspectTLS` alone says what becomes of it.

## 7. Plan

1. `Certificate`, `ScanContract`, `TableScan` and its proofs - done.
2. `InspectTLS`, `ScalarBatch` and their proofs; `MockServer`, `WorkerFlags` - done.
3. `InspectMock` and the proof that it refines `InspectTLS` - done.
4. `ServerProcess`, `IntegrationRun` and its proofs; `Catalog`, `TestCA` - done.
5. The counting invariant of the mock server, the start-up for command lines of any length,
   the catalog for every certificate - done.
6. The mock server under a shortage of descriptors, the script's failing commands - done.
7. Open: what the runs that end in a violation leave standing, stated and proved (as
   `TimeoutsAreKeptWithoutOverflow` does for the first of them).
