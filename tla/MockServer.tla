----------------------------- MODULE MockServer -----------------------------
(***************************************************************************)
(* The mock TLS server of the SQL tests (cmd/mockserver/main.go): it makes *)
(* a certificate, listens, prints its port, starts a goroutine that waits  *)
(* for a signal, and accepts connections, one handler goroutine for each,  *)
(* which completes the handshake and closes.  The handshake has no         *)
(* deadline.  Clients come, may speak or stay silent, and may go away; the *)
(* caller may send the process a signal at any time.                       *)
(***************************************************************************)
EXTENDS Naturals, Sequences, FiniteSets, Functions

CONSTANTS
    Clients,    \* connections the clients may make
    Talkers,    \* those of them that are sure to do their part and never go away
    MaxOpen     \* how many connections the process has descriptors for

VARIABLES
    main,      \* the main goroutine
    watcher,   \* the signal goroutine
    listener,  \* "none", "open" or "closed"
    printed,   \* the PORT line is out
    backlog,   \* connections the kernel holds for Accept, in order
    conn,      \* client -> its connection
    handler,   \* client -> the goroutine of its connection
    peer,      \* client -> what it has done
    presented, \* the clients that got the certificate
    signal,    \* whether the process has been sent a signal
    exit,      \* "running", or how the process ended
    short      \* the system, not the process, is out of descriptors or buffers

vars == <<main, watcher, listener, printed, backlog, conn, handler, peer,
          presented, signal, exit, short>>

OpenConns == {c \in Clients : conn[c] = "open"}

TypeOK ==
    /\ main \in {"generate", "listen", "print", "spawn", "accept"}
    /\ watcher \in {"none", "spawned", "notified", "closing"}
    /\ listener \in {"none", "open", "closed"}
    /\ printed \in BOOLEAN
    /\ backlog \in Seq(Clients) /\ Cardinality(Range(backlog)) = Len(backlog)
    /\ conn \in [Clients -> {"none", "queued", "open", "closed"}]
    /\ handler \in [Clients -> {"none", "handshake", "close", "ended"}]
    /\ peer \in [Clients -> {"silent", "spoke", "gone"}]
    /\ presented \subseteq Clients
    /\ signal \in BOOLEAN
    /\ exit \in {"running", "status0", "fatal", "killed"}
    /\ short \in BOOLEAN
    /\ Cardinality(OpenConns) <= MaxOpen
    /\ printed => listener # "none"

Init ==
    /\ main = "generate" /\ watcher = "none" /\ listener = "none"
    /\ printed = FALSE /\ backlog = <<>>
    /\ conn = [c \in Clients |-> "none"]
    /\ handler = [c \in Clients |-> "none"]
    /\ peer = [c \in Clients |-> "silent"]
    /\ presented = {} /\ signal = FALSE /\ exit = "running" /\ short = FALSE

Alive == exit = "running"

\* The process ends: the kernel closes what it had open.
Ends(how) ==
    /\ exit' = how
    /\ listener' = IF listener = "none" THEN "none" ELSE "closed"
    /\ backlog' = <<>>
    /\ conn' = [c \in Clients |-> IF conn[c] = "none" THEN "none" ELSE "closed"]
    /\ handler' = [c \in Clients |-> IF handler[c] = "none" THEN "none" ELSE "ended"]

----------------------------------------------------------------------------
(* The main goroutine.                                                     *)

\* log.Fatalf when the certificate cannot be made or the address not bound.
StartFails ==
    /\ Alive
    /\ main \in {"generate", "listen"}
    /\ Ends("fatal")
    /\ UNCHANGED <<main, watcher, printed, peer, presented, signal, short>>

\* Variant: the port is printed as soon as it is chosen, before it is bound.
GeneratePrints ==
    /\ Alive
    /\ main = "generate"
    /\ main' = "listen"
    /\ printed' = TRUE
    /\ UNCHANGED <<watcher, listener, backlog, conn, handler, peer, presented, signal, exit, short>>

Generate ==
    /\ Alive
    /\ main = "generate"
    /\ main' = "listen"
    /\ UNCHANGED <<watcher, listener, printed, backlog, conn, handler, peer, presented, signal, exit, short>>

Listen ==
    /\ Alive
    /\ main = "listen"
    /\ listener' = "open"
    /\ main' = "print"
    /\ UNCHANGED <<watcher, printed, backlog, conn, handler, peer, presented, signal, exit, short>>

PrintPort ==
    /\ Alive
    /\ main = "print"
    /\ printed' = TRUE
    /\ main' = "spawn"
    /\ UNCHANGED <<watcher, listener, backlog, conn, handler, peer, presented, signal, exit, short>>

SpawnWatcher ==
    /\ Alive
    /\ main = "spawn"
    /\ watcher' = "spawned"
    /\ main' = "accept"
    /\ UNCHANGED <<listener, printed, backlog, conn, handler, peer, presented, signal, exit, short>>

AcceptNext ==
    LET c == Head(backlog)
    IN  /\ conn' = [conn EXCEPT ![c] = "open"]
        /\ handler' = [handler EXCEPT ![c] = "handshake"]
        /\ backlog' = Tail(backlog)

CanAccept == /\ Alive
             /\ main = "accept"
             /\ listener = "open"
             /\ backlog # <<>>
             /\ Cardinality(OpenConns) < MaxOpen

\* Variant: the handshake is run in the accept loop itself.
AcceptInline ==
    /\ CanAccept
    /\ \A c \in Clients : handler[c] \in {"none", "ended"}
    /\ AcceptNext
    /\ UNCHANGED <<main, watcher, listener, printed, peer, presented, signal, exit, short>>

\* A connection is taken and given a goroutine of its own.
Accept ==
    /\ CanAccept
    /\ AcceptNext
    /\ UNCHANGED <<main, watcher, listener, printed, peer, presented, signal, exit, short>>

\* Variant: on an error of Accept the server goes back to listening.
AcceptListensAgain ==
    /\ Alive
    /\ main = "accept"
    /\ listener = "closed" \/ Cardinality(OpenConns) >= MaxOpen
    /\ main' = "listen"
    /\ UNCHANGED <<watcher, listener, printed, backlog, conn, handler, peer, presented, signal, exit, short>>

\* Any error of Accept returns from main, and with it the process ends.  With
\* the listener closed, or the descriptors all in use (Linux takes one before
\* it looks whether a connection is waiting), the next call is sure to fail.
AcceptFails ==
    /\ Alive
    /\ main = "accept"
    /\ listener = "closed" \/ Cardinality(OpenConns) >= MaxOpen
    /\ Ends("status0")
    /\ UNCHANGED <<main, watcher, printed, peer, presented, signal, short>>

\* While the system is short of something, a call may fail at any time, or
\* find what it needs after all.
AcceptErrs ==
    /\ Alive
    /\ main = "accept"
    /\ short
    /\ Ends("status0")
    /\ UNCHANGED <<main, watcher, printed, peer, presented, signal, short>>

----------------------------------------------------------------------------
(* The handler goroutines.                                                 *)

\* Variant: the connection is not taken for a TLS one.
HandshakeSkipped(c) ==
    /\ Alive
    /\ handler[c] = "handshake"
    /\ handler' = [handler EXCEPT ![c] = "close"]
    /\ UNCHANGED <<main, watcher, listener, printed, backlog, conn, peer, presented, signal, exit, short>>

\* The handshake ends when the client has done its part, or has gone.
Handshake(c) ==
    /\ Alive
    /\ handler[c] = "handshake"
    /\ peer[c] # "silent"
    /\ presented' = IF peer[c] = "spoke" THEN presented \cup {c} ELSE presented
    /\ handler' = [handler EXCEPT ![c] = "close"]
    /\ UNCHANGED <<main, watcher, listener, printed, backlog, conn, peer, signal, exit, short>>

\* Variant: a failed handshake returns without closing.
CloseIfPresented(c) ==
    /\ Alive
    /\ handler[c] = "close"
    /\ conn' = [conn EXCEPT ![c] = IF c \in presented THEN "closed" ELSE @]
    /\ handler' = [handler EXCEPT ![c] = "ended"]
    /\ UNCHANGED <<main, watcher, listener, printed, backlog, peer, presented, signal, exit, short>>

\* The connection is closed whatever became of the handshake.
Close(c) ==
    /\ Alive
    /\ handler[c] = "close"
    /\ conn' = [conn EXCEPT ![c] = "closed"]
    /\ handler' = [handler EXCEPT ![c] = "ended"]
    /\ UNCHANGED <<main, watcher, listener, printed, backlog, peer, presented, signal, exit, short>>

----------------------------------------------------------------------------
(* The signal goroutine.                                                   *)

Notify ==
    /\ Alive
    /\ watcher = "spawned"
    /\ watcher' = "notified"
    /\ UNCHANGED <<main, listener, printed, backlog, conn, handler, peer, presented, signal, exit, short>>

\* Variant: the goroutine goes back to waiting for the next signal.
WaitsAgain ==
    /\ Alive
    /\ watcher = "notified"
    /\ signal
    /\ watcher' = "spawned"
    /\ UNCHANGED <<main, listener, printed, backlog, conn, handler, peer, presented, signal, exit, short>>

\* The relayed signal is received and the listener closed; connections nobody
\* has accepted are reset.
CloseListener ==
    /\ Alive
    /\ watcher = "notified"
    /\ signal
    /\ watcher' = "closing"
    /\ listener' = "closed"
    /\ backlog' = <<>>
    /\ conn' = [c \in Clients |-> IF conn[c] = "queued" THEN "closed" ELSE conn[c]]
    /\ UNCHANGED <<main, printed, handler, peer, presented, signal, exit, short>>

OsExit ==
    /\ Alive
    /\ watcher = "closing"
    /\ Ends("status0")
    /\ UNCHANGED <<main, watcher, printed, peer, presented, signal, short>>

----------------------------------------------------------------------------
(* The clients and the caller.                                             *)

Connect(c) ==
    /\ Alive
    /\ printed /\ listener = "open"
    /\ conn[c] = "none"
    /\ conn' = [conn EXCEPT ![c] = "queued"]
    /\ backlog' = Append(backlog, c)
    /\ UNCHANGED <<main, watcher, listener, printed, handler, peer, presented, signal, exit, short>>

\* What a client sends waits in the connection until a handler reads it.
Speak(c) ==
    /\ conn[c] \in {"queued", "open"}
    /\ peer[c] = "silent"
    /\ peer' = [peer EXCEPT ![c] = "spoke"]
    /\ UNCHANGED <<main, watcher, listener, printed, backlog, conn, handler, presented, signal, exit, short>>

GoAway(c) ==
    /\ c \notin Talkers
    /\ conn[c] \in {"queued", "open"}
    /\ peer[c] # "gone"
    /\ peer' = [peer EXCEPT ![c] = "gone"]
    /\ UNCHANGED <<main, watcher, listener, printed, backlog, conn, handler, presented, signal, exit, short>>

\* A signal nobody has asked to be notified of kills the process.
Kill ==
    /\ Alive
    /\ ~signal
    /\ signal' = TRUE
    /\ IF watcher \in {"none", "spawned"}
       THEN Ends("killed")
       ELSE UNCHANGED <<exit, listener, backlog, conn, handler>>
    /\ UNCHANGED <<main, watcher, printed, peer, presented, short>>

\* The system runs short, or is well again.
Scarcity ==
    /\ Alive
    /\ short' = ~short
    /\ UNCHANGED <<main, watcher, listener, printed, backlog, conn, handler, peer, presented, signal, exit>>

Exited == ~Alive /\ UNCHANGED vars

Main == StartFails \/ Generate \/ Listen \/ PrintPort \/ SpawnWatcher \/ Accept \/ AcceptFails
Watcher == Notify \/ CloseListener \/ OsExit

Next == \/ Main
        \/ Watcher
        \/ \E c \in Clients : Handshake(c) \/ Close(c) \/ Connect(c) \/ Speak(c) \/ GoAway(c)
        \/ Kill
        \/ AcceptErrs \/ Scarcity
        \/ Exited

Spec == Init /\ [][Next]_vars

\* The Go scheduler runs every goroutine that can go on, and the talkers talk;
\* the other clients may speak or not, the caller need not do anything, and
\* nothing has to fail because the system is short.
Fairness == /\ WF_vars(Main)
            /\ WF_vars(Watcher)
            /\ \A c \in Clients : WF_vars(Handshake(c) \/ Close(c))
            /\ \A c \in Talkers : WF_vars(Speak(c))

FairSpec == Spec /\ Fairness

----------------------------------------------------------------------------
(* Properties.                                                             *)

\* A client that takes part in the handshake gets the certificate, however
\* many silent clients came before it, unless the server ends: one goroutine
\* per connection, and none waits for another (main.go:65-79).
TalkersAreServed ==
    \A c \in Talkers : conn[c] = "queued" ~> c \in presented \/ exit # "running"

\* A handler that is done has closed its connection, whether the handshake
\* succeeded or not: only silent clients hold descriptors.
OnlySilentClientsHold ==
    \A c \in Clients : conn[c] = "open" => handler[c] \in {"handshake", "close"}

\* The server is the process its callers take it for: whichever of the two
\* goroutines gets there first and whatever the handlers are waiting for, a
\* signal ends it, and once ended it is over (main.go:54-80).
AsProcess == INSTANCE ServerProcess WITH proc <-
    IF exit # "running" THEN "gone"
    ELSE IF signal THEN "told"
    ELSE IF printed THEN "ready" ELSE "starting"
ActsAsServer == AsProcess!FairSpec

\* "Graceful shutdown on SIGINT/SIGTERM so the Makefile's `kill` is clean"
\* (main.go:56): once the port is known, a signal is not a kill.
KillIsClean == printed => exit # "killed"

\* The clients whose goroutine is at work: waiting for them, or about to close.
Busy == {c \in Clients : handler[c] \in {"handshake", "close"}}

\* An error of Accept ends the server with status 0, as if it had been asked
\* to (main.go:69-72).  Unasked, and on a system that is short of nothing, that
\* takes as many clients at one time as it has descriptors, with a goroutine at
\* work for each: however many came and went before, none of them is left over
\* to starve it (main.go:73-78).
EndsAskedOrStarved ==
    [][exit = "running" /\ exit' = "status0" /\ ~signal /\ ~short
           => Cardinality(Busy) >= MaxOpen]_vars
=============================================================================
