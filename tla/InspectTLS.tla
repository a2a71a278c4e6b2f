----------------------------- MODULE InspectTLS -----------------------------
(***************************************************************************)
(* InspectTLS (tls.go): dial an endpoint, complete a TLS handshake, return *)
(* the chain it presented; everything bounded by one deadline and released *)
(* by deferred calls on every way out.  The module follows one call, from  *)
(* the arguments tls_inspect gives it to its return.                       *)
(*                                                                         *)
(* The peer is the network's: it may accept, refuse, answer, abort or stay *)
(* silent for ever, at any moment, and nothing is assumed of it.  Time is  *)
(* counted in units of a Duration.  The steps of the call take no time     *)
(* next to the waits, and a timer fires when it is due.                    *)
(***************************************************************************)
EXTENDS Integers, Sequences

CONSTANTS
    Names,          \* host names and SNI names
    NoName,         \* the empty server_name
    Host,           \* the host part of the address called
    ServerNames,    \* the server_name arguments to try
    Presents,       \* SNI name -> the chain the peer presents for it
    Trusted,        \* the pairs <<name, chain>> that pass verification
    TimeoutsMs,     \* the timeout_ms arguments to try
    Half,           \* half the range of an integer (2^63 in the code)
    MsUnits,        \* Duration units in a millisecond (10^6 in the code)
    DefaultTimeout, \* ten seconds, in Duration units
    MaxClock        \* bound: the clock runs from 0 to MaxClock

ASSUME NamesAssumption ==
    /\ Host \in Names /\ NoName \notin Names
    /\ ServerNames \subseteq Names \cup {NoName}
    /\ DOMAIN Presents = Names
ASSUME TimeAssumption ==
    /\ TimeoutsMs \subseteq Int
    /\ Half \in Nat \ {0} /\ MsUnits \in Nat \ {0}
    /\ DefaultTimeout \in Nat \ {0} /\ MaxClock \in Nat

VARIABLES
    args,       \* the arguments of the call
    pc,         \* where the call is
    ctx,        \* dialCtx: "none", "armed", "expired" or "cancelled"
    rawConn,    \* the TCP connection: "none", "open" or "closed"
    tlsConn,    \* the TLS session on it: "none", "handshake", "up" or "closed"
    bounded,    \* whether rawConn carries the deadline
    defers,     \* the deferred calls, the last one pushed at the end
    result,     \* what the call returns
    net,        \* what the peer has done so far
    notified,   \* whether the peer got close_notify on an open connection
    clock       \* Duration units since the call began

vars == <<args, pc, ctx, rawConn, tlsConn, bounded, defers, result, net,
          notified, clock>>

----------------------------------------------------------------------------
(* Arguments.                                                              *)

Wrap(n) == ((n + Half) % (2 * Half)) - Half

\* time.Duration(args.TimeoutMs) * time.Millisecond
Duration(ms) == Wrap(ms * MsUnits)

\* Variant: a negative Duration is taken as it is.
EffectiveTimeoutZeroOnly(ms) == IF Duration(ms) = 0 THEN DefaultTimeout ELSE Duration(ms)

\* Zero and negative mean the default.
EffectiveTimeout(ms) == IF Duration(ms) <= 0 THEN DefaultTimeout ELSE Duration(ms)

Timeout == EffectiveTimeout(args.timeoutMs)

\* Variant: the host is always the name sent.
SNIOfHost(a) == Host

\* The name sent in the handshake, and verified when verification is on.
SNI(a) == IF a.serverName = NoName THEN Host ELSE a.serverName

Args == [addr : {"empty", "malformed", "host:port"}, timeoutMs : TimeoutsMs,
         insecure : BOOLEAN, serverName : ServerNames]

Errors == {"bad address", "dial", "handshake", "timeout", "unverified", "no certificates"}
NoResult == [err |-> "none", chain |-> <<>>]
Error(why) == [err |-> why, chain |-> <<>>]

DeferredCalls == {"cancel", "close raw", "close tls"}

Chains == {Presents[n] : n \in Names}

TypeOK ==
    /\ args \in Args
    /\ pc \in {"start", "dial", "handshake", "chain", "unwind", "returned"}
    /\ ctx \in {"none", "armed", "expired", "cancelled"}
    /\ rawConn \in {"none", "open", "closed"}
    /\ tlsConn \in {"none", "handshake", "up", "closed"}
    /\ bounded \in BOOLEAN
    /\ defers \in Seq(DeferredCalls)
    /\ result \in [err : Errors \cup {"none"}, chain : Chains \cup {<<>>}]
    /\ net \in {"silent", "accepted", "refused", "flight", "aborted"}
    /\ notified \in BOOLEAN
    /\ clock \in 0..MaxClock

Init ==
    /\ args \in Args
    /\ pc = "start" /\ ctx = "none" /\ rawConn = "none" /\ tlsConn = "none"
    /\ bounded = FALSE /\ defers = <<>> /\ result = NoResult
    /\ net = "silent" /\ notified = FALSE /\ clock = 0

----------------------------------------------------------------------------
(* The call.                                                               *)

Fail(why) == result' = Error(why) /\ pc' = "unwind"

\* The early returns, before anything is held.
RejectAddress ==
    /\ pc = "start"
    /\ args.addr # "host:port"
    /\ Fail("bad address")
    /\ UNCHANGED <<args, ctx, rawConn, tlsConn, bounded, defers, net, notified, clock>>

\* Variant: nothing cancels the context.
StartTimerNoCancel ==
    /\ pc = "start"
    /\ args.addr = "host:port"
    /\ ctx' = "armed"
    /\ pc' = "dial"
    /\ UNCHANGED <<args, rawConn, tlsConn, bounded, defers, result, net, notified, clock>>

\* The context is armed with the deadline and its cancel deferred.
StartTimer ==
    /\ pc = "start"
    /\ args.addr = "host:port"
    /\ ctx' = "armed"
    /\ defers' = Append(defers, "cancel")
    /\ pc' = "dial"
    /\ UNCHANGED <<args, rawConn, tlsConn, bounded, result, net, notified, clock>>

DialFails ==
    /\ pc = "dial"
    /\ \/ net = "refused"  /\ Fail("dial")
       \/ ctx = "expired"  /\ Fail("timeout")
    /\ UNCHANGED <<args, ctx, rawConn, tlsConn, bounded, defers, net, notified, clock>>

\* Variant: the connection's close is deferred last and so runs first.
ConnectedRawLast ==
    /\ pc = "dial"
    /\ net \in {"accepted", "aborted"}
    /\ rawConn' = "open" /\ tlsConn' = "handshake" /\ bounded' = TRUE
    /\ defers' = defers \o <<"close tls", "close raw">>
    /\ pc' = "handshake"
    /\ UNCHANGED <<args, ctx, result, net, notified, clock>>

\* Variant: neither close is deferred.
ConnectedUnclosed ==
    /\ pc = "dial"
    /\ net \in {"accepted", "aborted"}
    /\ rawConn' = "open" /\ tlsConn' = "handshake" /\ bounded' = TRUE
    /\ pc' = "handshake"
    /\ UNCHANGED <<args, ctx, defers, result, net, notified, clock>>

\* The TCP connection is up: it gets the deadline, then the TLS session.
Connected ==
    /\ pc = "dial"
    /\ net \in {"accepted", "aborted"}
    /\ rawConn' = "open" /\ tlsConn' = "handshake" /\ bounded' = TRUE
    /\ defers' = defers \o <<"close raw", "close tls">>
    /\ pc' = "handshake"
    /\ UNCHANGED <<args, ctx, result, net, notified, clock>>

\* Variant: neither the context nor the connection bounds the handshake.
HandshakeUncut == FALSE

\* HandshakeContext ends on the context, reads and writes on the deadline.
HandshakeCut == ctx = "expired" \/ (bounded /\ clock >= Timeout)

HandshakeFails ==
    /\ pc = "handshake"
    /\ \/ net = "aborted" /\ Fail("handshake")
       \/ HandshakeCut    /\ Fail("timeout")
    /\ UNCHANGED <<args, ctx, rawConn, tlsConn, bounded, defers, net, notified, clock>>

\* Verification is skipped when insecure, and is of the name sent otherwise.
Accepts(chain) == args.insecure \/ <<SNI(args), chain>> \in Trusted

\* The peer's flight is there: the handshake completes, unless verification
\* is on and fails.
HandshakeCompletes ==
    /\ pc = "handshake"
    /\ net = "flight"
    /\ IF Accepts(Presents[SNI(args)])
       THEN /\ tlsConn' = "up" /\ pc' = "chain" /\ UNCHANGED result
       ELSE /\ Fail("unverified") /\ UNCHANGED tlsConn
    /\ UNCHANGED <<args, ctx, rawConn, bounded, defers, net, notified, clock>>

\* Variant: the leaf is taken off the chain.
TakeChainNoLeaf ==
    /\ pc = "chain"
    /\ LET chain == Presents[SNI(args)]
       IN  result' = IF chain = <<>> THEN Error("no certificates")
                                     ELSE [err |-> "none", chain |-> Tail(chain)]
    /\ pc' = "unwind"
    /\ UNCHANGED <<args, ctx, rawConn, tlsConn, bounded, defers, net, notified, clock>>

\* The chain as presented; none at all is an error.
TakeChain ==
    /\ pc = "chain"
    /\ LET chain == Presents[SNI(args)]
       IN  result' = IF chain = <<>> THEN Error("no certificates")
                                     ELSE [err |-> "none", chain |-> chain]
    /\ pc' = "unwind"
    /\ UNCHANGED <<args, ctx, rawConn, tlsConn, bounded, defers, net, notified, clock>>

\* Deferred calls run last in, first out.
Due == Len(defers)

\* Closing the TLS session of a completed handshake sends close_notify if the
\* connection is still open, and closes the connection.
RunDeferred ==
    /\ pc = "unwind"
    /\ defers # <<>>
    /\ LET call == defers[Due]
       IN  /\ ctx' = IF call = "cancel" THEN "cancelled" ELSE ctx
           /\ rawConn' = IF call \in {"close raw", "close tls"} THEN "closed" ELSE rawConn
           /\ tlsConn' = IF call = "close tls" THEN "closed" ELSE tlsConn
           /\ notified' = (notified \/ (/\ call = "close tls"
                                        /\ tlsConn = "up"
                                        /\ rawConn = "open"))
           /\ defers' = SubSeq(defers, 1, Due - 1)
    /\ UNCHANGED <<args, pc, bounded, result, net, clock>>

Return ==
    /\ pc = "unwind"
    /\ defers = <<>>
    /\ pc' = "returned"
    /\ UNCHANGED <<args, ctx, rawConn, tlsConn, bounded, defers, result, net, notified, clock>>

CallStep ==
    \/ RejectAddress \/ StartTimer \/ DialFails \/ Connected
    \/ HandshakeFails \/ HandshakeCompletes \/ TakeChain
    \/ RunDeferred \/ Return

----------------------------------------------------------------------------
(* The peer and time.                                                      *)

Peer(from, to) ==
    /\ net = from
    /\ net' = to
    /\ UNCHANGED <<args, pc, ctx, rawConn, tlsConn, bounded, defers, result, notified, clock>>

\* It answers a connection request at any time after it, a client's flight at
\* any time after that, too late perhaps, and may go at any time.
PeerStep ==
    \/ Peer("silent", "refused")
    \/ pc # "start" /\ Peer("silent", "accepted")
    \/ Peer("accepted", "aborted")
    \/ tlsConn # "none" /\ Peer("accepted", "flight")

\* The runtime fires the context's timer.
Expire ==
    /\ ctx = "armed"
    /\ clock >= Timeout
    /\ ctx' = "expired"
    /\ UNCHANGED <<args, pc, rawConn, tlsConn, bounded, defers, result, net, notified, clock>>

Waiting == \/ pc = "dial" /\ net = "silent" /\ ctx # "expired"
           \/ pc = "handshake" /\ net = "accepted" /\ ~HandshakeCut

\* Time passes only while the call waits and no timer is due.
Tick ==
    /\ Waiting
    /\ ~(ctx = "armed" /\ clock >= Timeout)
    /\ clock < MaxClock
    /\ clock' = clock + 1
    /\ UNCHANGED <<args, pc, ctx, rawConn, tlsConn, bounded, defers, result, net, notified>>

\* The call is over; what follows is none of its business.
Returned == pc = "returned" /\ UNCHANGED vars

Next == CallStep \/ PeerStep \/ Expire \/ Tick \/ Returned

Spec == Init /\ [][Next]_vars

\* The scheduler runs the call and its timers and time goes on; the peer
\* need not do anything.
Fairness == WF_vars(CallStep) /\ WF_vars(Expire) /\ WF_vars(Tick)

FairSpec == Spec /\ Fairness

----------------------------------------------------------------------------
(* Properties.                                                             *)

\* The function never blocks indefinitely (tls.go:32-35), whatever the peer.
AlwaysReturns == <>(pc = "returned")

\* One deadline covers dial and handshake together: at no time is the call
\* under way for longer than its timeout, however slowly the peer answers
\* (tls.go:64-68).
WithinTimeout == clock <= Timeout /\ Timeout > 0

\* Every way out, before the dial, between dial and handshake or after it,
\* leaves no timer running and no connection open.
NothingLeaks ==
    pc = "returned" => /\ ctx \in {"none", "cancelled"}
                       /\ rawConn # "open"
                       /\ tlsConn \in {"none", "closed"}

\* A completed handshake is closed as TLS says: the peer gets close_notify,
\* so the session is closed before the connection under it.
CloseIsClean == pc = "returned" /\ result.err = "none" => notified

\* Either an error and no chain, or the chain the peer presents for the name
\* asked for (server_name, or the host), verified unless insecure; and a chain
\* is refused only when verification was asked for and it does not pass.
ReturnsPresentedChain ==
    pc = "returned" =>
        LET name   == IF args.serverName = NoName THEN Host ELSE args.serverName
            passes == <<name, Presents[name]>> \in Trusted
        IN  IF result.err # "none"
            THEN /\ result.chain = <<>>
                 /\ result.err = "unverified" => ~args.insecure /\ ~passes
            ELSE /\ result.chain # <<>> /\ result.chain = Presents[name]
                 /\ args.insecure \/ passes

\* The stack of deferred calls: before the dial is through, after it, and
\* with the session already closed.
OneDue == <<"cancel">>
TwoDue == <<"cancel", "close raw">>
Opened == <<"cancel", "close raw", "close tls">>

\* The deferred calls still due are those pushed last, in every phase as many
\* as the code has pushed by then.
DefersInOrder ==
    /\ defers \in {<<>>, OneDue, TwoDue, Opened}
    /\ pc \in {"start", "returned"} => defers = <<>>
    /\ pc = "dial" => defers = OneDue
    /\ pc \in {"handshake", "chain"} => defers = Opened

\* What is held is what the calls still due release, and no more.
HeldIsDue ==
    /\ ctx \in {"armed", "expired"} <=> defers # <<>>
    /\ rawConn = "open" <=> defers = Opened
    /\ tlsConn \in {"handshake", "up"} <=> defers = Opened

\* A chain is on its way out only from a session that is up, until it is closed.
ChainNeedsSession ==
    /\ pc \in {"start", "dial", "handshake", "chain"} => result = NoResult
    /\ pc = "chain" => tlsConn = "up" /\ Accepts(Presents[SNI(args)])
    /\ pc \in {"unwind", "returned"} /\ result.err = "none" =>
          /\ result.chain # <<>> /\ result.chain = Presents[SNI(args)] /\ Accepts(result.chain)
          /\ IF defers = Opened THEN tlsConn = "up" ELSE notified
    /\ result.err # "none" => result.chain = <<>>
    /\ result.err = "unverified" => ~Accepts(Presents[SNI(args)])

\* The timer fires when it is due, and only that is a timeout.
TimeIsTimeouts ==
    /\ clock <= Timeout
    /\ ctx = "expired" \/ result.err = "timeout" => clock >= Timeout

\* What the phases of a call have in common, from tls.go:54 to its return: the
\* invariant the others rest on.
CallCoherent == DefersInOrder /\ HeldIsDue /\ ChainNeedsSession /\ TimeIsTimeouts

\* A timeout is not reported before the milliseconds asked for have passed.
NoEarlyTimeout ==
    result.err = "timeout" /\ args.timeoutMs > 0 => clock >= args.timeoutMs * MsUnits
=============================================================================
