----------------------------- MODULE InspectMock -----------------------------
(***************************************************************************)
(* tls_inspect against the mock TLS server, as tls_inspect.test runs it:   *)
(* one call of InspectTLS and one MockServer on the two ends of a          *)
(* connection, with other clients of the server about.  What InspectTLS    *)
(* sees of its peer is read off the server's state; what the server sees   *)
(* of this client is read off the call's.                                  *)
(***************************************************************************)
EXTENDS TestCA, Naturals, FiniteSets

CONSTANTS
    me,        \* the call's connection
    Others,    \* connections of other clients
    Talkers,   \* those of them that are sure to speak and never go away
    MaxOpen,   \* descriptors of the server
    Limit      \* the call's timeout, in Duration units

ASSUME OthersAssumption == me \notin Others /\ Talkers \subseteq Others
ASSUME BoundsAssumption == MaxOpen \in Nat /\ Limit \in Nat \ {0}

VARIABLES args, pc, ctx, rawConn, tlsConn, bounded, defers, result, notified, clock
VARIABLES main, watcher, listener, printed, backlog, conn, handler, peer, presented,
          signal, exit, short

call   == <<args, pc, ctx, rawConn, tlsConn, bounded, defers, result, notified, clock>>
server == <<main, watcher, listener, printed, backlog, conn, handler, peer, presented,
            signal, exit, short>>
vars   == <<call, server>>

Address == "127.0.0.1"

\* mockserver/main.go: the default certificate under a name of its own.
MockCert == Generate([Default(0, 1, 9) EXCEPT !.commonName = "mock.tls.local",
                                              !.dns = <<"mock.tls.local">>])

\* The network between them, as the call sees it.
Net == IF conn[me] = "none" THEN IF listener = "closed" THEN "refused" ELSE "silent"
       ELSE IF me \in presented THEN "flight"
       ELSE IF conn[me] = "closed" THEN "aborted" ELSE "accepted"

Server == INSTANCE MockServer WITH Clients <- Others \cup {me}
Call == INSTANCE InspectTLS WITH
    net <- Net, Names <- {Address}, NoName <- "", Host <- Address, ServerNames <- {""},
    Presents <- [n \in {Address} |-> MockCert.TLSCert], Trusted <- {},
    TimeoutsMs <- {Limit}, Half <- 128, MsUnits <- 1, DefaultTimeout <- Limit,
    MaxClock <- Limit

\* As the test calls it: the address the server printed, insecure := true.
Init == Server!Init /\ Call!Init /\ args.addr = "host:port" /\ args.insecure

----------------------------------------------------------------------------
(* The address is known to the caller once the server has printed it.      *)

CallMoves == printed /\ UNCHANGED server /\ Call!CallStep
CallTime  == UNCHANGED server /\ (Call!Expire \/ Call!Tick)

ServerMoves == UNCHANGED call /\ (Server!Main \/ Server!Watcher)
Serves(c)   == UNCHANGED call /\ (Server!Handshake(c) \/ Server!Close(c))
Signalled   == UNCHANGED call /\ Server!Kill
Shortage    == UNCHANGED call /\ (Server!AcceptErrs \/ Server!Scarcity)

Dials     == pc = "dial" /\ UNCHANGED call /\ Server!Connect(me)
SaysHello == pc = "handshake" /\ UNCHANGED call /\ Server!Speak(me)

\* The call holds no connection any more, or has given the dial up.
Released == pc \in {"unwind", "returned"} /\ rawConn # "open"

\* The other end learns of it some time later.
HangsUp == Released /\ UNCHANGED call /\ Server!GoAway(me)

OtherMoves == \E c \in Others :
    UNCHANGED call /\ (Server!Connect(c) \/ Server!Speak(c) \/ Server!GoAway(c))

Done == (pc = "returned" \/ ~Server!Alive) /\ UNCHANGED vars

Next == \/ CallMoves \/ CallTime \/ ServerMoves \/ (\E c \in Others \cup {me} : Serves(c))
        \/ Signalled \/ Shortage \/ Dials \/ SaysHello \/ HangsUp \/ OtherMoves \/ Done

Spec == Init /\ [][Next]_vars

\* The schedulers of both processes, time, and the kernel's news of a closed
\* connection; the talkers talk, and nobody else has to connect, to speak or
\* to send a signal.
Fairness == /\ WF_vars(CallMoves) /\ WF_vars(CallTime) /\ WF_vars(HangsUp)
            /\ WF_vars(ServerMoves) /\ \A c \in Others \cup {me} : WF_vars(Serves(c))
            /\ \A c \in Talkers : WF_vars(UNCHANGED call /\ Server!Speak(c))

FairSpec == Spec /\ Fairness

----------------------------------------------------------------------------
(* Properties.                                                             *)

\* Both sides are well typed, and a printed port is one that is bound.
TypeOK == Call!TypeOK /\ Server!TypeOK

\* What the server's own module asks of it (MockServer), the call among its
\* clients.  A handler that is done has closed its connection.
OnlySilentClientsHold == Server!OnlySilentClientsHold

\* Silent clients, and a call that comes and goes, are in no talker's way.
TalkersAreServed == Server!TalkersAreServed

\* The server is the process the scripts take it for, and ends when told to.
ActsAsServer == Server!ActsAsServer

\* Unasked, on a system short of nothing, it ends only while clients hold all
\* of its descriptors at once (mockserver/main.go:69-78), the call among them.
EndsAskedOrStarved == Server!EndsAskedOrStarved

\* The mock server is a peer InspectTLS knows how to deal with: whatever it
\* does, starting, refusing, accepting, dying, the call sees it as one of the
\* moves its own module allows its peer.
LegalPeer == Call!Spec

\* The server's handshake has no deadline (mockserver/main.go:75); the call's
\* deadline does for both: it ends, closes its end, and frees the handler.
HandlerFreed == handler[me] = "handshake" ~> handler[me] = "ended"

\* An inspection of the mock fails to connect or to shake hands only when the
\* server is ending, whatever the server's other clients do.
FailsOnlyWithServer == result.err \in {"dial", "handshake"} => listener = "closed"

\* What tls_inspect.test expects of every inspection that succeeds: one row,
\* the leaf first, not a CA, its validity bounds in order, of the certificate
\* the mock made; and the server did hand it out.
RowsOfMock ==
    pc = "returned" /\ result.err = "none" =>
        /\ me \in presented
        /\ LET rows == ChainRows(result.chain)
           IN  /\ Len(rows) = 1
               /\ rows[1].seq = 0 /\ ~rows[1].isCA
               /\ rows[1].notBefore < rows[1].notAfter
               /\ rows[1].text = "mock.tls.local"
=============================================================================
