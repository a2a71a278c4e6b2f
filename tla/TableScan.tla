------------------------------ MODULE TableScan ------------------------------
(***************************************************************************)
(* The scan protocol of the two table functions, cert_info and tls_inspect *)
(* (functions.go): NewState does all the work once, Process hands the rows *)
(* out one bounded batch per tick, and the position lives in the state.    *)
(*                                                                         *)
(* Over stdio and unix one worker process keeps a scan's state in memory   *)
(* between ticks.  Over http the worker keeps nothing: after each tick the *)
(* framework gob-encodes the state into a continuation token, the client   *)
(* holds it and sends it back with the next request.  Each scan has one    *)
(* exchange (a request or its response) in flight at most; over http it    *)
(* can be lost and the request sent again, so that the worker may run the  *)
(* same tick, or the same NewState, more than once.  Over stdio and unix   *)
(* the worker process may die, and its scans with it.                      *)
(***************************************************************************)
EXTENDS Certificate

CONSTANTS
    Scans,         \* the scans of one query; they run concurrently
    Calls,         \* the table-function calls a scan may be opened with
    Chains,        \* the certificate chains the inspected endpoint may serve
    Transport,     \* "stdio", "unix" or "http"
    RowsPerTick,   \* rowsPerTick (256 in the code)
    MaxNow,        \* bound: the clock runs from 0 to MaxNow
    MaxResends     \* bound: lost exchanges sent again, per scan

Call == [fn : {"cert_info", "tls_inspect"}, args : {"bad", "null", "value"},
         colType : ColumnTypes, cell : Cell]

ASSUME CallsAssumption  == Calls \subseteq Call
ASSUME ChainsAssumption == Chains # {} /\ Chains \subseteq Seq(Cert)
ASSUME TransportAssumption == Transport \in {"stdio", "unix", "http"}
ASSUME BoundsAssumption == /\ RowsPerTick \in Nat \ {0}
                           /\ MaxNow \in Nat
                           /\ MaxResends \in Nat

VARIABLES
    call,     \* scan -> the call it was opened with
    phase,    \* scan -> where its client is
    wire,     \* scan -> the exchange in flight
    held,     \* scan -> http: the continuation token the client holds
    live,     \* scan -> stdio, unix: the state in the worker's memory
    resends,  \* scan -> requests sent again so far
    got,      \* scan -> the rows its client has received
    made,     \* scan -> history: the rows NewState last built for it
    served,   \* the chain the endpoint serves now
    now       \* the clock

scanVars == <<call, phase, wire, held, live, resends, got, made>>
vars     == <<scanVars, served, now>>

Stateless == Transport = "http"

----------------------------------------------------------------------------
(* The state of a scan (certInfoState, tlsInspectState) and its encoding.  *)

State   == [rows : Seq(Row), offset : Nat]
NoState == [rows |-> <<>>, offset |-> 0]

\* Variant: the cursor is an unexported field.
ExportedRowsOnly == {"rows"}

\* The exported fields of the state structs: gob drops the others.
Exported == {"rows", "offset"}
GobRoundTrip(st) ==
    [f \in DOMAIN st |-> IF f \in Exported THEN st[f] ELSE NoState[f]]

\* Variant: a last slice shorter than RowsPerTick counts as consumed.
cursorBoundsNoTail(n, offset) ==
    IF offset + RowsPerTick > n
    THEN [start |-> 0, end |-> 0, done |-> TRUE, offset |-> offset]
    ELSE [start |-> offset, end |-> offset + RowsPerTick, done |-> FALSE,
          offset |-> offset + RowsPerTick]

\* Variant: off by one at the end, where the slice is empty and not done.
cursorBoundsPastEnd(n, offset) ==
    LET end == IF offset + RowsPerTick > n THEN n ELSE offset + RowsPerTick
    IN  [start |-> offset, end |-> end, done |-> offset > n, offset |-> end]

\* [start, end) of the next slice over n rows, the cursor after it, and
\* whether all rows have been consumed.
cursorBounds(n, offset) ==
    LET end == offset + RowsPerTick
    IN  IF offset >= n
        THEN [start |-> 0, end |-> 0, done |-> TRUE, offset |-> offset]
        ELSE LET upto == IF end > n THEN n ELSE end
             IN  [start |-> offset, end |-> upto, done |-> FALSE, offset |-> upto]

\* Variant: the cursor is moved only after the batch is emitted, as the bare
\* Done flag was: the state at Emit is the one the tick started from.
ProcessAdvancesLate(st) ==
    LET c == cursorBounds(Len(st.rows), st.offset)
    IN  [done |-> c.done, rows |-> SubSeq(st.rows, c.start + 1, c.end),
         atEmit |-> st, after |-> [st EXCEPT !.offset = c.offset]]

\* Variant: each tick inspects the endpoint again, NewState keeps no chain.
ProcessInspectsAgain(st) ==
    LET rows == IF \E chain \in Chains : st.rows = ChainRows(chain)
                THEN ChainRows(served) ELSE st.rows
        c == cursorBounds(Len(rows), st.offset)
        moved == [st EXCEPT !.offset = c.offset]
    IN  [done |-> c.done, rows |-> SubSeq(rows, c.start + 1, c.end),
         atEmit |-> moved, after |-> moved]

\* One tick: out.Finish(), or out.Emit of the slice.  The cursor is moved
\* before the batch is emitted, so the state at Emit is the state after it.
Process(st) ==
    LET c == cursorBounds(Len(st.rows), st.offset)
    IN  [done   |-> c.done,
         rows   |-> SubSeq(st.rows, c.start + 1, c.end),
         atEmit |-> [st EXCEPT !.offset = c.offset],
         after  |-> [st EXCEPT !.offset = c.offset]]

Failed    == [err |-> TRUE, rows |-> <<>>]
Built(rs) == [err |-> FALSE, rows |-> rs]

\* NewState of cert_info: one parse, one reading of the clock.
certInfoNewState(c, t) ==
    LET h == parseHandle(c.colType, c.cell)
    IN  CASE c.args = "bad"   -> {Failed}
          [] c.args = "null"  -> {Built(<<>>)}
          [] c.args = "value" -> {IF h.err # "none" THEN Failed ELSE Built(CertInfo(h.cert, t))}

\* NewState of tls_inspect: InspectTLS fails, or returns the served chain.
tlsInspectNewState(c, chain) ==
    CASE c.args = "bad"   -> {Failed}
      [] c.args = "null"  -> {Built(<<>>)}
      [] c.args = "value" -> {Failed, Built(ChainRows(chain))}

NewState(c, t, chain) == IF c.fn = "cert_info" THEN certInfoNewState(c, t)
                                               ELSE tlsInspectNewState(c, chain)

----------------------------------------------------------------------------
(* Exchanges.                                                              *)

Kinds == {"none", "lost", "open", "opened", "pull", "batch", "finish", "error"}
Requests  == {"open", "pull"}
Responses == {"opened", "batch", "finish", "error"}

Exchange == [kind : Kinds, rows : Seq(Row), st : State]
Msg(kind, rows, st) == [kind |-> kind, rows |-> rows, st |-> st]
Signal(kind) == Msg(kind, <<>>, NoState)

\* A token travels only over http.
Token(st) == IF Stateless THEN GobRoundTrip(st) ELSE NoState

TypeOK ==
    /\ call \in [Scans -> Calls]
    /\ phase \in [Scans -> {"idle", "opening", "ready", "pulling", "done", "failed"}]
    /\ wire \in [Scans -> Exchange]
    /\ held \in [Scans -> State]
    /\ live \in [Scans -> State]
    /\ resends \in [Scans -> 0..MaxResends]
    /\ got \in [Scans -> Seq(Row)]
    /\ made \in [Scans -> Seq(Row)]
    /\ served \in Chains
    /\ now \in 0..MaxNow

Init ==
    /\ call \in [Scans -> Calls]
    /\ phase = [s \in Scans |-> "idle"]
    /\ wire = [s \in Scans |-> Signal("none")]
    /\ held = [s \in Scans |-> NoState]
    /\ live = [s \in Scans |-> NoState]
    /\ resends = [s \in Scans |-> 0]
    /\ got = [s \in Scans |-> <<>>]
    /\ made = [s \in Scans |-> <<>>]
    /\ served \in Chains
    /\ now = 0

----------------------------------------------------------------------------
(* The client: opens a scan and pulls batches until the end.               *)

Open(s) ==
    /\ phase[s] = "idle"
    /\ phase' = [phase EXCEPT ![s] = "opening"]
    /\ wire' = [wire EXCEPT ![s] = Signal("open")]
    /\ UNCHANGED <<call, held, live, resends, got, made, served, now>>

Pull(s) ==
    /\ phase[s] = "ready"
    /\ phase' = [phase EXCEPT ![s] = "pulling"]
    /\ wire' = [wire EXCEPT ![s] = Msg("pull", <<>>, held[s])]
    /\ UNCHANGED <<call, held, live, resends, got, made, served, now>>

\* An answer reaches the client: its rows, its token, and what comes next.
AnsweredPhase == [opened |-> "ready", batch |-> "ready",
                  finish |-> "done", error |-> "failed"]

Receive(s) ==
    /\ wire[s].kind \in Responses
    /\ phase' = [phase EXCEPT ![s] = AnsweredPhase[wire[s].kind]]
    /\ got' = [got EXCEPT ![s] = @ \o wire[s].rows]
    /\ held' = [held EXCEPT ![s] = wire[s].st]
    /\ wire' = [wire EXCEPT ![s] = Signal("none")]
    /\ UNCHANGED <<call, live, resends, made, served, now>>

----------------------------------------------------------------------------
(* The worker.                                                             *)

\* NewState, whose result is gob-encoded before the first Process.
ServeOpen(s) ==
    /\ wire[s].kind = "open"
    /\ \E r \in NewState(call[s], now, served) :
          LET st == GobRoundTrip([rows |-> r.rows, offset |-> 0])
          IN  IF r.err
              THEN /\ wire' = [wire EXCEPT ![s] = Signal("error")]
                   /\ UNCHANGED <<live, made>>
              ELSE /\ wire' = [wire EXCEPT ![s] = Msg("opened", <<>>, Token(st))]
                   /\ live' = [live EXCEPT ![s] = IF Stateless THEN @ ELSE st]
                   /\ made' = [made EXCEPT ![s] = r.rows]
    /\ UNCHANGED <<call, phase, held, resends, got, served, now>>

\* One tick, from the token of the request or from memory.
ServePull(s) ==
    /\ wire[s].kind = "pull"
    /\ LET p == Process(IF Stateless THEN wire[s].st ELSE live[s])
       IN  /\ wire' = [wire EXCEPT ![s] =
                         IF p.done THEN Signal("finish")
                                   ELSE Msg("batch", p.rows, Token(p.atEmit))]
           /\ live' = [live EXCEPT ![s] = IF Stateless THEN @ ELSE p.after]
    /\ UNCHANGED <<call, phase, held, resends, got, made, served, now>>

----------------------------------------------------------------------------
(* Failures.                                                               *)

\* http: a request or a response is lost (a worker restart, a dropped
\* connection); the client can send the request again, or give up.
Lose(s) ==
    /\ Stateless
    /\ wire[s].kind \in Requests \cup Responses
    /\ wire' = [wire EXCEPT ![s] = Signal("lost")]
    /\ UNCHANGED <<call, phase, held, live, resends, got, made, served, now>>

Resend(s) ==
    /\ wire[s].kind = "lost"
    /\ resends[s] < MaxResends
    /\ resends' = [resends EXCEPT ![s] = @ + 1]
    /\ wire' = [wire EXCEPT ![s] = IF phase[s] = "opening" THEN Signal("open")
                                   ELSE Msg("pull", <<>>, held[s])]
    /\ UNCHANGED <<call, phase, held, live, got, made, served, now>>

GiveUp(s) ==
    /\ wire[s].kind = "lost"
    /\ phase' = [phase EXCEPT ![s] = "failed"]
    /\ wire' = [wire EXCEPT ![s] = Signal("none")]
    /\ UNCHANGED <<call, held, live, resends, got, made, served, now>>

Running == {s \in Scans : phase[s] \in {"opening", "ready", "pulling"}}

\* stdio, unix: the worker process dies; every scan it was running fails.
Crash ==
    /\ ~Stateless
    /\ Running # {}
    /\ phase' = [s \in Scans |-> IF s \in Running THEN "failed" ELSE phase[s]]
    /\ wire' = [s \in Scans |-> Signal("none")]
    /\ live' = [s \in Scans |-> NoState]
    /\ UNCHANGED <<call, held, resends, got, made, served, now>>

----------------------------------------------------------------------------
(* The world: the endpoint's certificates rotate, time passes.             *)

Rotate ==
    /\ served' \in Chains \ {served}
    /\ UNCHANGED <<scanVars, now>>

ClockTick ==
    /\ now < MaxNow
    /\ now' = now + 1
    /\ UNCHANGED <<scanVars, served>>

Next ==
    \/ \E s \in Scans : \/ Open(s) \/ Pull(s) \/ Receive(s)
                        \/ ServeOpen(s) \/ ServePull(s)
                        \/ Lose(s) \/ Resend(s) \/ GiveUp(s)
    \/ Crash
    \/ Rotate
    \/ ClockTick

Spec == Init /\ [][Next]_vars

\* The engine keeps pulling a scan it has opened and reads every answer, the
\* worker answers every request, and an exchange that stays lost is given up.
Fairness == \A s \in Scans : /\ WF_vars(Pull(s))
                             /\ WF_vars(Receive(s))
                             /\ WF_vars(ServeOpen(s) \/ ServePull(s))
                             /\ WF_vars(GiveUp(s))

FairSpec == Spec /\ Fairness

----------------------------------------------------------------------------
(* Properties.                                                             *)

IsPrefixOf(p, q) == Len(p) <= Len(q) /\ p = SubSeq(q, 1, Len(p))

\* What NewState may have made of a call at some moment up to now.
Readings(c) == UNION {NewState(c, t, chain) : t \in 0..now, chain \in Chains}

\* No scan is torn: whatever rotations, clock ticks, replays and losses come
\* between its ticks, the rows a client has received all come from one reading
\* of the certificate or endpoint, in order, none twice, none skipped
\* (NewState works eagerly, Process only slices: functions.go:21-26, 365-376).
NoTornScan ==
    \A s \in Scans : got[s] # <<>> =>
        \E r \in Readings(call[s]) : IsPrefixOf(got[s], r.rows)

\* A scan that ends without an error has given every row of its snapshot: no
\* tick finishes early, no lost exchange swallows a batch.
DoneIsComplete == \A s \in Scans : phase[s] = "done" => got[s] = made[s]

\* The token makes the scan: between exchanges, and while one is in flight or
\* lost, the token the client would send again stands for exactly the rows the
\* client has, so a replayed tick repeats nothing and skips nothing
\* ("Offset that Process advances BEFORE yielding", functions.go:352-357).
TokenMatchesRows ==
    \A s \in Scans : Stateless /\ phase[s] \in {"ready", "pulling"} =>
        /\ held[s].rows = made[s]
        /\ held[s].offset = Len(got[s])

\* Every scan that is opened ends or fails: no tick emits for ever.
EveryScanEnds ==
    \A s \in Scans : phase[s] = "opening" ~> phase[s] \in {"done", "failed"}

\* What the query sees of a scan's progress.
Status == [s \in Scans |->
             CASE phase[s] \in {"idle", "opening"}  -> "new"
               [] phase[s] \in {"ready", "pulling"} -> "streaming"
               [] phase[s] \in {"done", "failed"}   -> phase[s]]

Promise == INSTANCE ScanContract WITH status <- Status, source <- made, given <- got

\* The scan protocol implements the promise made to the query: one frozen
\* source, full chunks in order, an end only when all of it has been given.
KeepsPromise == Promise!Spec

----------------------------------------------------------------------------
(* The inductive invariant: why a scan can be replayed at any tick.        *)

\* The end of the slice that starts at row n of the snapshot.
SliceEnd(s, n) == IF n + RowsPerTick > Len(made[s]) THEN Len(made[s]) ELSE n + RowsPerTick

\* Each phase waits for its own exchange; only a batch carries rows.
ExchangeFitsPhase(s) ==
    /\ phase[s] \in {"idle", "ready", "done", "failed"} => wire[s].kind = "none"
    /\ phase[s] = "opening" => wire[s].kind \in {"open", "opened", "error", "lost"}
    /\ phase[s] = "pulling" => wire[s].kind \in {"pull", "batch", "finish", "lost"}
    /\ phase[s] \in {"idle", "opening"} => got[s] = <<>>
    /\ wire[s].kind # "batch" => wire[s].rows = <<>>

GotIsPrefix(s) == IsPrefixOf(got[s], made[s])

\* A batch in flight is the slice that follows the rows the client has.
BatchIsNextSlice(s) ==
    wire[s].kind = "batch" =>
        /\ Len(got[s]) < Len(made[s])
        /\ wire[s].rows = SubSeq(made[s], Len(got[s]) + 1, SliceEnd(s, Len(got[s])))

\* The state the worker would go on from once the exchange has arrived.
Cursor(s) == IF ~Stateless THEN live[s]
             ELSE IF wire[s].kind \in {"opened", "batch"} THEN wire[s].st
             ELSE held[s]

CursorFits(s) ==
    phase[s] \in {"ready", "pulling"} \/ wire[s].kind = "opened" =>
        /\ Cursor(s).rows = made[s]
        /\ Cursor(s).offset = IF wire[s].kind = "batch" THEN SliceEnd(s, Len(got[s]))
                                                        ELSE Len(got[s])

TokenFits(s) ==
    /\ Stateless /\ phase[s] \in {"ready", "pulling"} =>
          held[s].rows = made[s] /\ held[s].offset = Len(got[s])
    /\ Stateless /\ wire[s].kind = "pull" => wire[s].st = held[s]

EndFits(s) == wire[s].kind = "finish" \/ phase[s] = "done" => got[s] = made[s]

MadeIsReading(s) ==
    made[s] # <<>> => \E r \in Readings(call[s]) : r.rows = made[s]

ScanCoherent(s) ==
    /\ ExchangeFitsPhase(s) /\ GotIsPrefix(s) /\ BatchIsNextSlice(s)
    /\ CursorFits(s) /\ TokenFits(s) /\ EndFits(s) /\ MadeIsReading(s)

\* All of it, for every scan: whatever is in flight, held or lost, the cursor
\* that counts stands for the rows the client has or is about to get.
ScansCoherent == \A s \in Scans : ScanCoherent(s)

Inv == TypeOK /\ ScansCoherent
=============================================================================
