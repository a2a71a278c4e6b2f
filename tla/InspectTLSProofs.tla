-------------------------- MODULE InspectTLSProofs --------------------------
(***************************************************************************)
(* Theorems about InspectTLS, for every peer, every name, chain, timeout   *)
(* and verification setting, and every integer width.                      *)
(***************************************************************************)
EXTENDS InspectTLS, SequenceTheorems, TLAPS

----------------------------------------------------------------------------
(* Durations.                                                              *)

\* Integer arithmetic of a fixed width: the result is in range, and a number
\* that is in range is itself.
LEMMA WrapInRange ==
    ASSUME NEW n \in Int
    PROVE  /\ Wrap(n) \in -Half..(Half - 1)
           /\ n \in -Half..(Half - 1) => Wrap(n) = n
<1>1. Half \in Nat \ {0}
  BY TimeAssumption
<1>2. (n + Half) % (2 * Half) \in 0..(2 * Half - 1)
  BY <1>1
<1>3. n \in -Half..(Half - 1) => (n + Half) % (2 * Half) = n + Half
  BY <1>1
<1> QED
  BY <1>1, <1>2, <1>3 DEF Wrap

----------------------------------------------------------------------------
(* The stack of deferred calls.                                            *)


\* The stacks a call can have differ in their length and their last call.
LEMMA StackFacts ==
    /\ <<>> \in Seq(DeferredCalls) /\ OneDue \in Seq(DeferredCalls)
    /\ TwoDue \in Seq(DeferredCalls) /\ Opened \in Seq(DeferredCalls)
    /\ Len(<<>>) = 0 /\ Len(OneDue) = 1 /\ Len(TwoDue) = 2 /\ Len(Opened) = 3
    /\ OneDue[1] = "cancel" /\ TwoDue[2] = "close raw" /\ Opened[3] = "close tls"
    /\ <<>> # OneDue /\ <<>> # TwoDue /\ <<>> # Opened
    /\ OneDue # TwoDue /\ OneDue # Opened /\ TwoDue # Opened
<1>1. /\ <<>> \in Seq(DeferredCalls) /\ OneDue \in Seq(DeferredCalls)
      /\ TwoDue \in Seq(DeferredCalls) /\ Opened \in Seq(DeferredCalls)
  BY DEF DeferredCalls, OneDue, TwoDue, Opened
<1>2. Len(<<>>) = 0 /\ Len(OneDue) = 1 /\ Len(TwoDue) = 2 /\ Len(Opened) = 3
  BY DEF OneDue, TwoDue, Opened
<1>3. OneDue[1] = "cancel" /\ TwoDue[2] = "close raw" /\ Opened[3] = "close tls"
  BY DEF OneDue, TwoDue, Opened
<1>4. 0 # 1 /\ 0 # 2 /\ 0 # 3 /\ 1 # 2 /\ 1 # 3 /\ 2 # 3
  OBVIOUS
<1> QED
  BY <1>1, <1>2, <1>3, <1>4, Zenon

LEMMA Closes == <<"close raw", "close tls">> \in Seq(DeferredCalls)
BY DEF DeferredCalls

\* The places of a short stack.
LEMMA Places ==
    /\ \A i \in 1 .. 1 : i = 1
    /\ \A i \in 1 .. 2 : i = 1 \/ i = 2
    /\ \A i \in 1 .. 3 : i = 1 \/ i = 2 \/ i = 3
OBVIOUS

\* Pushing: the stack after StartTimer, and after Connected.
LEMMA Pushed ==
    /\ Append(<<>>, "cancel") = OneDue
    /\ OneDue \o <<"close raw", "close tls">> = Opened
<1>1. Append(<<>>, "cancel") = OneDue
  BY DEF OneDue
<1> DEFINE two == <<"close raw", "close tls">>
           s == OneDue \o two
<1>2. /\ two \in Seq(DeferredCalls) /\ Len(two) = 2
      /\ two[1] = "close raw" /\ two[2] = "close tls"
  BY DEF DeferredCalls
<1>3. /\ OneDue[1] = "cancel" /\ Opened[1] = "cancel"
      /\ Opened[2] = "close raw" /\ Opened[3] = "close tls"
  BY DEF OneDue, Opened
<1> HIDE DEF two
<1>4. /\ s \in Seq(DeferredCalls)
      /\ Len(s) = Len(OneDue) + Len(two)
      /\ \A i \in 1 .. Len(OneDue) + Len(two) :
            s[i] = IF i <= Len(OneDue) THEN OneDue[i] ELSE two[i - Len(OneDue)]
  BY <1>2, StackFacts, ConcatProperties
<1> HIDE DEF s
<1>5. Len(s) = 1 + 2 /\ \A i \in 1 .. 1 + 2 : s[i] = IF i <= 1 THEN OneDue[i] ELSE two[i - 1]
  BY <1>2, <1>4, StackFacts, Zenon
<1>6. Len(s) = 3 /\ s[1] = OneDue[1] /\ s[2] = two[1] /\ s[3] = two[2]
  BY <1>5
<1>7. \A i \in 1 .. 3 : s[i] = Opened[i]
  BY <1>2, <1>3, <1>6, Places, Zenon
<1>8. s = Opened
  BY <1>4, <1>6, <1>7, StackFacts, SeqEqual
<1> QED
  BY <1>1, <1>8 DEF s, two

\* Popping: what RunDeferred leaves of each stack.
LEMMA Popped ==
    /\ SubSeq(Opened, 1, 2) = TwoDue
    /\ SubSeq(TwoDue, 1, 1) = OneDue
    /\ SubSeq(OneDue, 1, 0) = <<>>
<1>0. "cancel" \in DeferredCalls /\ "close raw" \in DeferredCalls
  BY DEF DeferredCalls
<1>1. /\ Opened[1] = "cancel" /\ Opened[2] = "close raw"
      /\ TwoDue[1] = "cancel" /\ TwoDue[2] = "close raw" /\ OneDue[1] = "cancel"
  BY DEF OneDue, TwoDue, Opened
<1>2. SubSeq(Opened, 1, 2) = TwoDue
  <2> DEFINE s == SubSeq(Opened, 1, 2)
  <2>1. \A i \in 1 .. 2 : Opened[i] \in DeferredCalls
    BY <1>0, <1>1, Places, Zenon
  <2>2. /\ s \in Seq(DeferredCalls)
        /\ Len(s) = IF 1 <= 2 THEN 2 - 1 + 1 ELSE 0
        /\ \A i \in 1 .. 2 - 1 + 1 : s[i] = Opened[1 + i - 1]
    BY <2>1, SubSeqProperties
  <2> HIDE DEF s
  <2>3. Len(s) = 2 /\ s[1] = Opened[1] /\ s[2] = Opened[2]
    BY <2>2
  <2>4. \A i \in 1 .. 2 : s[i] = TwoDue[i]
    BY <1>1, <2>3, Places, Zenon
  <2> QED
    BY <2>2, <2>3, <2>4, StackFacts, SeqEqual DEF s
<1>3. SubSeq(TwoDue, 1, 1) = OneDue
  <2> DEFINE s == SubSeq(TwoDue, 1, 1)
  <2>1. \A i \in 1 .. 1 : TwoDue[i] \in DeferredCalls
    BY <1>0, <1>1, Places, Zenon
  <2>2. /\ s \in Seq(DeferredCalls)
        /\ Len(s) = IF 1 <= 1 THEN 1 - 1 + 1 ELSE 0
        /\ \A i \in 1 .. 1 - 1 + 1 : s[i] = TwoDue[1 + i - 1]
    BY <2>1, SubSeqProperties
  <2> HIDE DEF s
  <2>3. Len(s) = 1 /\ s[1] = TwoDue[1]
    BY <2>2
  <2>4. \A i \in 1 .. 1 : s[i] = OneDue[i]
    BY <1>1, <2>3, Places, Zenon
  <2> QED
    BY <2>2, <2>3, <2>4, StackFacts, SeqEqual DEF s
<1>4. SubSeq(OneDue, 1, 0) = <<>>
  BY SubSeqEmpty
<1> QED
  BY <1>2, <1>3, <1>4

----------------------------------------------------------------------------
(* Types.                                                                  *)

\* The timeout in force is positive, whatever the product wraps to.
LEMMA TimeoutPositive ==
    ASSUME NEW ms \in Int
    PROVE  EffectiveTimeout(ms) \in Nat /\ EffectiveTimeout(ms) > 0
<1>1. ms * MsUnits \in Int
  BY TimeAssumption
<1>2. Duration(ms) \in Int
  BY <1>1, WrapInRange, TimeAssumption DEF Duration
<1> QED
  BY <1>2, TimeAssumption DEF EffectiveTimeout

\* The name sent is one the peer may present a chain for.
LEMMA NameSent ==
    ASSUME NEW a \in Args
    PROVE  SNI(a) \in Names /\ Presents[SNI(a)] \in Chains
<1>1. a.serverName \in Names \cup {NoName}
  BY NamesAssumption DEF Args
<1>2. SNI(a) \in Names
  BY <1>1, NamesAssumption DEF SNI
<1> QED
  BY <1>2 DEF Chains

LEMMA TimeoutOfCall ==
    ASSUME args \in Args
    PROVE  Timeout \in Nat /\ Timeout > 0
<1>1. args.timeoutMs \in Int
  BY TimeAssumption DEF Args
<1> QED
  BY <1>1, TimeoutPositive DEF Timeout

LEMMA ErrorType ==
    ASSUME NEW why \in Errors
    PROVE  Error(why) \in [err : Errors \cup {"none"}, chain : Chains \cup {<<>>}]
BY DEF Error

\* Every reachable state of a call is well typed.
THEOREM TypeCorrect == Spec => []TypeOK
<1>1. Init => TypeOK
  <2> SUFFICES ASSUME Init PROVE TypeOK
    OBVIOUS
  <2>1. defers \in Seq(DeferredCalls)
    BY StackFacts DEF Init
  <2>2. clock \in 0..MaxClock
    BY TimeAssumption DEF Init
  <2>3. result \in [err : Errors \cup {"none"}, chain : Chains \cup {<<>>}]
    BY DEF Init, NoResult
  <2> QED
    BY <2>1, <2>2, <2>3 DEF Init, TypeOK
<1>2. TypeOK /\ [Next]_vars => TypeOK'
  <2> SUFFICES ASSUME TypeOK, [Next]_vars PROVE TypeOK'
    OBVIOUS
  <2> USE DEF TypeOK
  <2>1. CASE RejectAddress
    <3>1. "bad address" \in Errors
      BY DEF Errors
    <3> QED
      BY <2>1, <3>1, ErrorType DEF RejectAddress, Fail
  <2>2. CASE StartTimer
    <3>1. "cancel" \in DeferredCalls
      BY DEF DeferredCalls
    <3>2. defers' \in Seq(DeferredCalls)
      BY <2>2, <3>1, AppendProperties DEF StartTimer
    <3> QED
      BY <2>2, <3>2 DEF StartTimer
  <2>3. CASE DialFails
    <3>1. "dial" \in Errors /\ "timeout" \in Errors
      BY DEF Errors
    <3> QED
      BY <2>3, <3>1, ErrorType DEF DialFails, Fail
  <2>4. CASE Connected
    <3>1. defers' \in Seq(DeferredCalls)
      BY <2>4, Closes, ConcatProperties DEF Connected
    <3> QED
      BY <2>4, <3>1 DEF Connected
  <2>5. CASE HandshakeFails
    <3>1. "handshake" \in Errors /\ "timeout" \in Errors
      BY DEF Errors
    <3> QED
      BY <2>5, <3>1, ErrorType DEF HandshakeFails, Fail
  <2>6. CASE HandshakeCompletes
    <3>1. "unverified" \in Errors
      BY DEF Errors
    <3> QED
      BY <2>6, <3>1, ErrorType DEF HandshakeCompletes, Fail
  <2>7. CASE TakeChain
    <3>1. "no certificates" \in Errors
      BY DEF Errors
    <3>2. Presents[SNI(args)] \in Chains
      BY NameSent
    <3>3. result' \in [err : Errors \cup {"none"}, chain : Chains \cup {<<>>}]
      BY <2>7, <3>1, <3>2, ErrorType DEF TakeChain
    <3> QED
      BY <2>7, <3>3 DEF TakeChain
  <2>8. CASE RunDeferred
    <3>1. defers' \in Seq(DeferredCalls)
      <4>1. defers' = SubSeq(defers, 1, Len(defers) - 1) /\ Len(defers) \in Nat
        <5>1. defers' = SubSeq(defers, 1, Len(defers) - 1)
          BY <2>8, Zenon DEF RunDeferred, Due
        <5> QED
          BY <5>1
      <4>2. Len(defers) - 1 \in Int /\ \A i \in 1..(Len(defers) - 1) : i \in 1..Len(defers)
        BY <4>1
      <4>3. \A i \in 1..(Len(defers) - 1) : defers[i] \in DeferredCalls
        BY <4>2, ElementOfSeq
      <4> QED
        BY <4>1, <4>2, <4>3, SubSeqProperties
    <3>2. /\ ctx' \in {"none", "armed", "expired", "cancelled"}
          /\ rawConn' \in {"none", "open", "closed"}
          /\ tlsConn' \in {"none", "handshake", "up", "closed"}
          /\ UNCHANGED <<args, pc, bounded, result, net, clock>>
      BY <2>8 DEF RunDeferred
    <3>3. notified' \in BOOLEAN
      BY <2>8 DEF RunDeferred
    <3> QED
      BY <3>1, <3>2, <3>3
  <2>9. CASE Return
    BY <2>9 DEF Return
  <2>10. CASE PeerStep
    BY <2>10 DEF PeerStep, Peer
  <2>11. CASE Expire
    BY <2>11 DEF Expire
  <2>12. CASE Tick
    BY <2>12, TimeAssumption DEF Tick
  <2>13. CASE UNCHANGED vars
    BY <2>13 DEF vars
  <2> QED
    BY <2>1, <2>2, <2>3, <2>4, <2>5, <2>6, <2>7, <2>8, <2>9, <2>10, <2>11,
       <2>12, <2>13 DEF Next, CallStep, Returned
<1> QED
  BY <1>1, <1>2, PTL DEF Spec

----------------------------------------------------------------------------
(* The phases of a call.                                                   *)

\* An action of the call that holds on to what it holds: the timeout and the
\* name sent are those of its arguments.
LEMMA SameArguments ==
    ASSUME UNCHANGED args
    PROVE  /\ Timeout' = Timeout /\ SNI(args)' = SNI(args)
           /\ \A chain : Accepts(chain)' = Accepts(chain)
BY DEF Timeout, Accepts

LEMMA CoherentInit == Init => CallCoherent
<1> SUFFICES ASSUME Init PROVE CallCoherent
  OBVIOUS
<1>1. Timeout \in Nat
  BY TimeoutOfCall DEF Init
<1>2. DefersInOrder
  BY DEF Init, DefersInOrder
<1>3. HeldIsDue
  BY StackFacts DEF Init, HeldIsDue
<1>4. ChainNeedsSession
  BY DEF Init, ChainNeedsSession, NoResult
<1>5. TimeIsTimeouts
  BY <1>1 DEF Init, TimeIsTimeouts, NoResult
<1> QED
  BY <1>2, <1>3, <1>4, <1>5 DEF CallCoherent

LEMMA CoherentStep == TypeOK /\ CallCoherent /\ [Next]_vars => CallCoherent'
<1> SUFFICES ASSUME TypeOK, CallCoherent, [Next]_vars PROVE CallCoherent'
  OBVIOUS
<1> USE DEF CallCoherent
<1>1. CASE RejectAddress
  <2>1. DefersInOrder' /\ HeldIsDue'
    BY <1>1, StackFacts DEF RejectAddress, Fail, DefersInOrder, HeldIsDue
  <2>2. ChainNeedsSession'
    BY <1>1 DEF RejectAddress, Fail, Error, ChainNeedsSession
  <2>3. TimeIsTimeouts'
    BY <1>1, SameArguments DEF RejectAddress, Fail, Error, TimeIsTimeouts
  <2> QED
    BY <2>1, <2>2, <2>3
<1>2. CASE StartTimer
  <2>1. defers' = OneDue /\ defers = <<>>
    BY <1>2, Pushed DEF StartTimer, DefersInOrder
  <2>2. DefersInOrder' /\ HeldIsDue'
    BY <1>2, <2>1, StackFacts DEF StartTimer, DefersInOrder, HeldIsDue
  <2>3. ChainNeedsSession'
    BY <1>2 DEF StartTimer, ChainNeedsSession, NoResult
  <2>4. TimeIsTimeouts'
    BY <1>2, SameArguments DEF StartTimer, TimeIsTimeouts
  <2> QED
    BY <2>2, <2>3, <2>4
<1>3. CASE DialFails
  <2>1. DefersInOrder' /\ HeldIsDue'
    BY <1>3, StackFacts DEF DialFails, Fail, DefersInOrder, HeldIsDue
  <2>2. ChainNeedsSession'
    BY <1>3 DEF DialFails, Fail, Error, ChainNeedsSession
  <2>3. TimeIsTimeouts'
    BY <1>3, SameArguments DEF DialFails, Fail, Error, TimeIsTimeouts
  <2> QED
    BY <2>1, <2>2, <2>3
<1>4. CASE Connected
  <2>1. defers' = Opened /\ defers = OneDue
    BY <1>4, Pushed DEF Connected, DefersInOrder
  <2>2. DefersInOrder' /\ HeldIsDue'
    BY <1>4, <2>1, StackFacts DEF Connected, DefersInOrder, HeldIsDue
  <2>3. ChainNeedsSession'
    <3>1. pc = "dial" /\ pc' = "handshake" /\ UNCHANGED result
      BY <1>4, Zenon DEF Connected
    <3> QED
      BY <3>1 DEF ChainNeedsSession, NoResult
  <2>4. TimeIsTimeouts'
    BY <1>4, SameArguments DEF Connected, TimeIsTimeouts
  <2> QED
    BY <2>2, <2>3, <2>4
<1>5. CASE HandshakeFails
  <2>1. DefersInOrder' /\ HeldIsDue'
    BY <1>5, StackFacts DEF HandshakeFails, Fail, DefersInOrder, HeldIsDue
  <2>2. ChainNeedsSession'
    BY <1>5 DEF HandshakeFails, Fail, Error, ChainNeedsSession
  <2>3. TimeIsTimeouts'
    BY <1>5, SameArguments
    DEF HandshakeFails, HandshakeCut, Fail, Error, TimeIsTimeouts
  <2> QED
    BY <2>1, <2>2, <2>3
<1>6. CASE HandshakeCompletes
  <2>1. DefersInOrder' /\ HeldIsDue'
    BY <1>6, StackFacts DEF HandshakeCompletes, Fail, DefersInOrder, HeldIsDue
  <2>2. ChainNeedsSession'
    BY <1>6, SameArguments DEF HandshakeCompletes, Fail, Error, ChainNeedsSession
  <2>3. TimeIsTimeouts'
    BY <1>6, SameArguments DEF HandshakeCompletes, Fail, Error, TimeIsTimeouts
  <2> QED
    BY <2>1, <2>2, <2>3
<1>7. CASE TakeChain
  <2>1. DefersInOrder' /\ HeldIsDue'
    BY <1>7, StackFacts DEF TakeChain, DefersInOrder, HeldIsDue
  <2>2. ChainNeedsSession'
    BY <1>7, SameArguments DEF TakeChain, Error, ChainNeedsSession, DefersInOrder
  <2>3. TimeIsTimeouts'
    BY <1>7, SameArguments DEF TakeChain, Error, TimeIsTimeouts
  <2> QED
    BY <2>1, <2>2, <2>3
<1>8. CASE RunDeferred
  <2>1. \/ defers = Opened /\ defers' = TwoDue /\ defers[Due] = "close tls"
        \/ defers = TwoDue /\ defers' = OneDue /\ defers[Due] = "close raw"
        \/ defers = OneDue /\ defers' = <<>> /\ defers[Due] = "cancel"
    <3>1. defers' = SubSeq(defers, 1, Len(defers) - 1) /\ Due = Len(defers) /\ defers # <<>>
      BY <1>8, Zenon DEF RunDeferred, Due
    <3>2. defers = Opened \/ defers = TwoDue \/ defers = OneDue
      BY <3>1 DEF DefersInOrder
    <3>3. 3 - 1 = 2 /\ 2 - 1 = 1 /\ 1 - 1 = 0
      OBVIOUS
    <3> QED
      BY <3>1, <3>2, <3>3, StackFacts, Popped, Zenon
  <2>2. DefersInOrder'
    BY <1>8, <2>1 DEF RunDeferred, DefersInOrder
  <2>3. HeldIsDue'
    BY <1>8, <2>1, StackFacts DEF RunDeferred, HeldIsDue
  <2>4. ChainNeedsSession'
    BY <1>8, <2>1, StackFacts, SameArguments DEF RunDeferred, ChainNeedsSession, HeldIsDue
  <2>5. TimeIsTimeouts'
    BY <1>8, SameArguments DEF RunDeferred, TimeIsTimeouts
  <2> QED
    BY <2>2, <2>3, <2>4, <2>5
<1>9. CASE Return
  BY <1>9, SameArguments
  DEF Return, DefersInOrder, HeldIsDue, ChainNeedsSession, TimeIsTimeouts
<1>10. CASE PeerStep
  BY <1>10, SameArguments
  DEF PeerStep, Peer, DefersInOrder, HeldIsDue, ChainNeedsSession, TimeIsTimeouts
<1>11. CASE Expire
  BY <1>11, SameArguments
  DEF Expire, DefersInOrder, HeldIsDue, ChainNeedsSession, TimeIsTimeouts
<1>12. CASE Tick
  <2>1. ctx = "armed"
    BY <1>12, StackFacts DEF Tick, Waiting, HandshakeCut, DefersInOrder, HeldIsDue
  <2>2. clock < Timeout /\ clock \in Nat /\ Timeout \in Nat
    BY <1>12, <2>1, TimeoutOfCall, TimeAssumption DEF Tick, TypeOK
  <2>3. TimeIsTimeouts'
    BY <1>12, <2>2, SameArguments DEF Tick, TimeIsTimeouts
  <2> QED
    BY <1>12, <2>3, SameArguments DEF Tick, DefersInOrder, HeldIsDue, ChainNeedsSession
<1>13. CASE UNCHANGED vars
  BY <1>13, SameArguments
  DEF vars, DefersInOrder, HeldIsDue, ChainNeedsSession, TimeIsTimeouts
<1> QED
  BY <1>1, <1>2, <1>3, <1>4, <1>5, <1>6, <1>7, <1>8, <1>9, <1>10, <1>11, <1>12,
     <1>13 DEF Next, CallStep, Returned

\* What the phases of a call have in common holds throughout it: the stack of
\* deferred calls stands for exactly what is held, and a chain only ever comes
\* out of a session that is up.
THEOREM CallStaysCoherent == Spec => []CallCoherent
<1>1. TypeOK /\ CallCoherent /\ [Next]_vars => CallCoherent'
  BY CoherentStep
<1> QED
  BY CoherentInit, <1>1, TypeCorrect, PTL DEF Spec

----------------------------------------------------------------------------
(* What a caller relies on.                                                *)

\* One deadline for dial and handshake together: no call is under way for
\* longer than its timeout, whatever the peer does and whatever timeout_ms
\* wraps to.
THEOREM CallsEndInTime == Spec => []WithinTimeout
<1>1. TypeOK /\ CallCoherent => WithinTimeout
  BY TimeoutOfCall DEF TypeOK, CallCoherent, TimeIsTimeouts, WithinTimeout
<1> QED
  BY <1>1, TypeCorrect, CallStaysCoherent, PTL

\* No way out of a call leaves a timer armed, a connection or a session open.
THEOREM CallsReleaseAll == Spec => []NothingLeaks
<1>1. TypeOK /\ CallCoherent => NothingLeaks
  BY StackFacts
  DEF TypeOK, CallCoherent, DefersInOrder, HeldIsDue, NothingLeaks
<1> QED
  BY <1>1, TypeCorrect, CallStaysCoherent, PTL

\* A call that gives a chain has sent close_notify before it closed the
\* connection.
THEOREM SessionsCloseCleanly == Spec => []CloseIsClean
<1>1. CallCoherent => CloseIsClean
  BY StackFacts
  DEF CallCoherent, DefersInOrder, ChainNeedsSession, CloseIsClean
<1> QED
  BY <1>1, CallStaysCoherent, PTL

\* A chain returned is the one presented for the name asked for, and passes
\* verification where that is on; one that passes is never refused.
THEOREM ChainIsThePresentedOne == Spec => []ReturnsPresentedChain
<1>1. CallCoherent => ReturnsPresentedChain
  BY DEF CallCoherent, ChainNeedsSession, ReturnsPresentedChain, Accepts, SNI
<1> QED
  BY <1>1, CallStaysCoherent, PTL

\* Where no product of milliseconds leaves the range of an integer, no timeout
\* is reported before its milliseconds have passed: the overflow is all that
\* stands between the code and that promise.
THEOREM TimeoutsAreKeptWithoutOverflow ==
    ASSUME \A ms \in TimeoutsMs : ms * MsUnits < Half
    PROVE  Spec => []NoEarlyTimeout
<1>1. TypeOK /\ CallCoherent => NoEarlyTimeout
  <2> SUFFICES ASSUME TypeOK, CallCoherent, result.err = "timeout", args.timeoutMs > 0
               PROVE  clock >= args.timeoutMs * MsUnits
    BY DEF NoEarlyTimeout
  <2> DEFINE ms == args.timeoutMs
             d == ms * MsUnits
  <2>1. ms \in TimeoutsMs /\ ms \in Int /\ ms > 0
    BY TimeAssumption DEF TypeOK, Args
  <2>2. d \in Int /\ d > 0 /\ d < Half /\ Half \in Nat
    BY <2>1, TimeAssumption
  <2>3. Duration(ms) = Wrap(d) /\ Timeout = EffectiveTimeout(ms)
    BY DEF Duration, Timeout
  <2> HIDE DEF d, ms
  <2>4. d \in -Half..(Half - 1)
    BY <2>2
  <2>5. Duration(ms) = d
    BY <2>2, <2>3, <2>4, WrapInRange
  <2>6. Timeout = d
    BY <2>2, <2>3, <2>5 DEF EffectiveTimeout
  <2> QED
    BY <2>6 DEF CallCoherent, TimeIsTimeouts, d, ms
<1> QED
  BY <1>1, TypeCorrect, CallStaysCoherent, PTL
=============================================================================
