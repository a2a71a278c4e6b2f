------------------------- MODULE InspectMockProofs -------------------------
(***************************************************************************)
(* Proofs about InspectMock: what the mock server does is, for the call,   *)
(* one of the moves InspectTLS allows a peer, for any number of other      *)
(* clients, descriptors and any timeout.                                   *)
(***************************************************************************)
EXTENDS InspectMock, FiniteSetTheorems, SequenceTheorems, TLAPS

Conns == Others \cup {me}

\* The server's tables are total on its clients.
TablesTotal ==
    /\ conn \in [Conns -> {"none", "queued", "open", "closed"}]
    /\ handler \in [Conns -> {"none", "handshake", "close", "ended"}]
    /\ peer \in [Conns -> {"silent", "spoke", "gone"}]
    /\ presented \subseteq Conns
    /\ backlog \in Seq(Conns)

\* The listener is opened once, and what clients have came through it.
OpensOnce ==
    /\ listener \in {"none", "open", "closed"}
    /\ main \in {"generate", "listen"} => listener = "none"
    /\ watcher # "none" => main \notin {"generate", "listen"}
    /\ \A c \in Conns : conn[c] # "none" => listener # "none"

\* The backlog holds the connections nobody has accepted, each of them once.
BacklogQueued ==
    /\ \A i \in 1..Len(backlog) : conn[backlog[i]] = "queued"
    /\ \A i, j \in 1..Len(backlog) : backlog[i] = backlog[j] => i = j

\* A connection is open as long as its handler is at work, and no longer.
OpenWhileHandled ==
    /\ \A c \in Conns : conn[c] = "open" <=> handler[c] \in {"handshake", "close"}
    /\ \A c \in presented : conn[c] # "none"

\* The call opens its session before it speaks and lets go before it is gone.
CallFirst ==
    /\ pc = "handshake" => tlsConn # "none"
    /\ peer[me] = "spoke" => tlsConn # "none"
    /\ peer[me] = "gone" => pc \in {"unwind", "returned"}

\* The handler closes on a call that has its certificate, or has let go.
ClosedAfter ==
    /\ handler[me] = "close" => me \in presented \/ pc \in {"unwind", "returned"}
    /\ conn[me] = "closed" /\ me \notin presented =>
           listener = "closed" \/ pc \in {"unwind", "returned"}
    /\ result.err \in {"dial", "handshake"} => listener = "closed"

MockCoherent == /\ TablesTotal /\ OpensOnce /\ BacklogQueued
                /\ OpenWhileHandled /\ CallFirst /\ ClosedAfter

----------------------------------------------------------------------------
(* The invariant.                                                          *)

LEMMA MockCoherentInit == Init => MockCoherent
<1> SUFFICES ASSUME Init PROVE MockCoherent
  OBVIOUS
<1> USE DEF Init, Server!Init, Call!Init, Conns
<1>1. TablesTotal
  BY DEF TablesTotal
<1>2. OpensOnce /\ BacklogQueued /\ OpenWhileHandled
  BY DEF OpensOnce, BacklogQueued, OpenWhileHandled
<1>3. CallFirst /\ ClosedAfter
  BY DEF CallFirst, ClosedAfter, Call!NoResult
<1> QED
  BY <1>1, <1>2, <1>3 DEF MockCoherent

\* What the call does leaves the server alone; it opens its session on the way
\* into the handshake, and fails only on what the server has done.
LEMMA CallKeeps ==
  ASSUME MockCoherent, CallMoves
  PROVE  MockCoherent'
<1>1. UNCHANGED server
  BY DEF CallMoves
<1>2. (TablesTotal /\ OpensOnce /\ BacklogQueued /\ OpenWhileHandled)'
  BY <1>1 DEF MockCoherent, server, TablesTotal, OpensOnce, BacklogQueued, OpenWhileHandled
<1>3. /\ tlsConn # "none" => tlsConn' # "none"
      /\ pc' = "handshake" => tlsConn' # "none"
      /\ pc \in {"unwind", "returned"} => pc' \in {"unwind", "returned"}
      /\ \/ result' = result
         \/ result'.err \notin {"dial", "handshake"}
         \/ pc = "dial" /\ Net = "refused"
         \/ pc = "handshake" /\ Net = "aborted"
  <2> USE DEF Call!Fail, Call!Error, Net
  <2>1. CASE Call!RejectAddress
    BY <2>1 DEF Call!RejectAddress
  <2>2. CASE Call!StartTimer
    BY <2>2 DEF Call!StartTimer
  <2>3. CASE Call!DialFails
    BY <2>3 DEF Call!DialFails
  <2>4. CASE Call!Connected
    BY <2>4 DEF Call!Connected
  <2>5. CASE Call!HandshakeFails
    BY <2>5 DEF Call!HandshakeFails
  <2>6. CASE Call!HandshakeCompletes
    BY <2>6 DEF Call!HandshakeCompletes
  <2>7. CASE Call!TakeChain
    BY <2>7 DEF Call!TakeChain
  <2>8. CASE Call!RunDeferred
    BY <2>8 DEF Call!RunDeferred
  <2>9. CASE Call!Return
    BY <2>9 DEF Call!Return
  <2> QED
    BY <2>1, <2>2, <2>3, <2>4, <2>5, <2>6, <2>7, <2>8, <2>9 DEF CallMoves, Call!CallStep
<1>4. pc = "dial" /\ Net = "refused" => listener = "closed"
  BY DEF Net
<1>5. pc = "handshake" /\ Net = "aborted" => listener = "closed"
  BY DEF Net, MockCoherent, ClosedAfter
<1>6. CallFirst' /\ ClosedAfter'
  BY <1>1, <1>3, <1>4, <1>5 DEF MockCoherent, server, CallFirst, ClosedAfter
<1> QED
  BY <1>2, <1>6 DEF MockCoherent

LEMMA TimeKeeps ==
  ASSUME MockCoherent, CallTime
  PROVE  MockCoherent'
<1>1. UNCHANGED <<server, pc, tlsConn, result>>
  BY DEF CallTime, Call!Expire, Call!Tick
<1> QED
  BY <1>1 DEF server, MockCoherent, TablesTotal, OpensOnce, BacklogQueued,
              OpenWhileHandled, CallFirst, ClosedAfter

\* The end of the process closes everything at once.
LEMMA EndKeeps ==
  ASSUME MockCoherent, NEW how, Server!Ends(how),
         UNCHANGED <<call, main, watcher, peer, presented>>
  PROVE  MockCoherent'
<1> USE DEF call, Server!Ends, Conns
<1>1. TablesTotal'
  BY DEF MockCoherent, TablesTotal
<1>2. OpensOnce'
  BY DEF MockCoherent, OpensOnce, TablesTotal
<1>3. BacklogQueued'
  BY DEF BacklogQueued
<1>4. OpenWhileHandled'
  BY DEF MockCoherent, OpenWhileHandled, TablesTotal
<1>5. CallFirst'
  BY DEF MockCoherent, CallFirst
<1>6. ClosedAfter'
  BY DEF MockCoherent, ClosedAfter, TablesTotal, OpensOnce
<1> QED
  BY <1>1, <1>2, <1>3, <1>4, <1>5, <1>6 DEF MockCoherent

\* The head of the backlog is the only place its connection is waiting at.
LEMMA AcceptKeeps ==
  ASSUME MockCoherent, UNCHANGED call, Server!Accept
  PROVE  MockCoherent'
<1> DEFINE c == Head(backlog)
<1>1. /\ backlog \in Seq(Conns) /\ backlog # <<>>
      /\ c \in Conns /\ conn[c] = "queued" /\ c = backlog[1] /\ 1 \in 1..Len(backlog)
      /\ Len(backlog') = Len(backlog) - 1 /\ backlog' \in Seq(Conns)
      /\ \A i \in 1..Len(backlog') : backlog'[i] = backlog[i + 1] /\ i + 1 \in 1..Len(backlog)
  BY DEF MockCoherent, TablesTotal, BacklogQueued, Server!Accept, Server!CanAccept,
         Server!AcceptNext
<1>2. /\ conn' = [conn EXCEPT ![c] = "open"]
      /\ handler' = [handler EXCEPT ![c] = "handshake"]
      /\ UNCHANGED <<main, watcher, listener, peer, presented>>
  BY DEF Server!Accept, Server!AcceptNext
<1> HIDE DEF c
<1>3. TablesTotal'
  BY <1>1, <1>2 DEF MockCoherent, TablesTotal
<1>4. OpensOnce'
  BY <1>1, <1>2 DEF MockCoherent, OpensOnce, TablesTotal
<1>5. BacklogQueued'
  <2>1. ASSUME NEW i \in 1..Len(backlog') PROVE conn'[backlog'[i]] = "queued"
    <3>1. i + 1 \in 1..Len(backlog) /\ backlog'[i] = backlog[i + 1]
      BY <1>1
    <3>2. backlog[i + 1] # c /\ conn[backlog[i + 1]] = "queued" /\ backlog[i + 1] \in Conns
      BY <1>1, <3>1 DEF MockCoherent, BacklogQueued
    <3> QED
      BY <1>2, <3>1, <3>2 DEF MockCoherent, TablesTotal
  <2>2. ASSUME NEW i \in 1..Len(backlog'), NEW j \in 1..Len(backlog'),
               backlog'[i] = backlog'[j]
        PROVE  i = j
    BY <1>1, <2>2 DEF MockCoherent, BacklogQueued
  <2> QED
    BY <2>1, <2>2 DEF BacklogQueued
<1>6. OpenWhileHandled'
  BY <1>1, <1>2 DEF MockCoherent, OpenWhileHandled, TablesTotal
<1>7. CallFirst'
  BY <1>2 DEF call, MockCoherent, CallFirst
<1>8. ClosedAfter'
  BY <1>1, <1>2 DEF call, MockCoherent, ClosedAfter, TablesTotal, Conns
<1> QED
  BY <1>3, <1>4, <1>5, <1>6, <1>7, <1>8 DEF MockCoherent

LEMMA MainKeeps ==
  ASSUME MockCoherent, UNCHANGED call, Server!Main
  PROVE  MockCoherent'
<1>1. CASE Server!StartFails
  BY <1>1, EndKeeps DEF Server!StartFails
<1>2. CASE Server!AcceptFails
  BY <1>2, EndKeeps DEF Server!AcceptFails
<1>3. CASE Server!Generate \/ Server!Listen \/ Server!PrintPort \/ Server!SpawnWatcher
  <2>1. /\ UNCHANGED <<backlog, conn, handler, peer, presented>>
        /\ \/ listener' = listener
           \/ main = "listen" /\ listener' = "open" /\ main' = "print"
        /\ main' \in {"generate", "listen"} =>
              main \in {"generate", "listen"} /\ UNCHANGED <<listener, watcher>>
    BY <1>3 DEF Server!Generate, Server!Listen, Server!PrintPort, Server!SpawnWatcher, call
  <2>2. listener' = listener \/ (listener = "none" /\ listener' = "open")
    BY <2>1 DEF MockCoherent, OpensOnce
  <2>3. TablesTotal' /\ BacklogQueued' /\ OpenWhileHandled'
    BY <2>1 DEF MockCoherent, TablesTotal, BacklogQueued, OpenWhileHandled
  <2>4. OpensOnce'
    BY <2>1, <2>2 DEF MockCoherent, OpensOnce
  <2>5. CallFirst' /\ ClosedAfter'
    BY <2>1, <2>2 DEF call, MockCoherent, CallFirst, ClosedAfter
  <2> QED
    BY <2>3, <2>4, <2>5 DEF MockCoherent
<1>4. CASE Server!Accept
  BY <1>4, AcceptKeeps
<1> QED
  BY <1>1, <1>2, <1>3, <1>4 DEF Server!Main

LEMMA WatcherKeeps ==
  ASSUME MockCoherent, UNCHANGED call, Server!Watcher
  PROVE  MockCoherent'
<1>1. CASE Server!Notify
  BY <1>1 DEF Server!Notify, call, MockCoherent, TablesTotal, OpensOnce, BacklogQueued,
              OpenWhileHandled, CallFirst, ClosedAfter
<1>2. CASE Server!CloseListener
  <2> USE <1>2 DEF Server!CloseListener, Conns
  <2>1. TablesTotal' /\ BacklogQueued'
    BY DEF MockCoherent, TablesTotal, BacklogQueued
  <2>2. OpenWhileHandled'
    BY DEF MockCoherent, OpenWhileHandled, TablesTotal
  <2>3. CallFirst' /\ ClosedAfter'
    BY DEF call, MockCoherent, CallFirst, ClosedAfter
  <2>4. OpensOnce'
    <3>1. listener' = "closed" /\ main' = main
      OBVIOUS
    <3>2. main \notin {"generate", "listen"}
      BY DEF MockCoherent, OpensOnce
    <3> QED
      BY <3>1, <3>2 DEF OpensOnce
  <2> QED
    BY <2>1, <2>2, <2>3, <2>4 DEF MockCoherent
<1>3. CASE Server!OsExit
  BY <1>3, EndKeeps DEF Server!OsExit
<1> QED
  BY <1>1, <1>2, <1>3 DEF Server!Watcher

\* The goroutine of one connection.
LEMMA ServesKeeps ==
  ASSUME MockCoherent, NEW c \in Conns, Serves(c)
  PROVE  MockCoherent'
<1>1. CASE Server!Handshake(c)
  <2> USE <1>1 DEF Server!Handshake, Serves, call
  <2>1. TablesTotal' /\ OpensOnce' /\ BacklogQueued'
    BY DEF MockCoherent, TablesTotal, OpensOnce, BacklogQueued
  <2>2. OpenWhileHandled'
    BY DEF MockCoherent, OpenWhileHandled, TablesTotal, OpensOnce
  <2>3. CallFirst' /\ ClosedAfter'
    BY DEF MockCoherent, CallFirst, ClosedAfter, TablesTotal, Conns
  <2> QED
    BY <2>1, <2>2, <2>3 DEF MockCoherent
<1>2. CASE Server!Close(c)
  <2> USE <1>2 DEF Server!Close, Serves, call
  <2>1. conn[c] = "open"
    BY DEF MockCoherent, OpenWhileHandled
  <2>2. TablesTotal'
    BY DEF MockCoherent, TablesTotal
  <2>3. OpensOnce'
    BY <2>1 DEF MockCoherent, OpensOnce, TablesTotal
  <2>4. BacklogQueued'
    <3>1. ASSUME NEW i \in 1..Len(backlog) PROVE conn'[backlog[i]] = "queued"
      <4>1. backlog[i] \in Conns /\ conn[backlog[i]] = "queued"
        BY DEF MockCoherent, BacklogQueued, TablesTotal
      <4> QED
        BY <2>1, <4>1 DEF MockCoherent, TablesTotal
    <3> QED
      BY <3>1 DEF MockCoherent, BacklogQueued
  <2>5. OpenWhileHandled'
    BY <2>1 DEF MockCoherent, OpenWhileHandled, TablesTotal
  <2>6. CallFirst' /\ ClosedAfter'
    BY <2>1 DEF MockCoherent, CallFirst, ClosedAfter, TablesTotal, Conns
  <2> QED
    BY <2>2, <2>3, <2>4, <2>5, <2>6 DEF MockCoherent
<1> QED
  BY <1>1, <1>2 DEF Serves

\* The clients, the call among them: they come, speak and go.
LEMMA ConnectKeeps ==
  ASSUME MockCoherent, NEW c \in Conns, UNCHANGED call, Server!Connect(c)
  PROVE  MockCoherent'
<1> USE DEF Server!Connect, call
<1>1. TablesTotal'
  BY DEF MockCoherent, TablesTotal
<1>2. OpensOnce'
  BY DEF MockCoherent, OpensOnce, TablesTotal
<1>3. BacklogQueued'
  <2>1. /\ backlog \in Seq(Conns) /\ Len(backlog') = Len(backlog) + 1
        /\ backlog'[Len(backlog) + 1] = c
        /\ \A i \in 1..Len(backlog) : backlog'[i] = backlog[i]
    BY DEF MockCoherent, TablesTotal
  <2>2. \A i \in 1..Len(backlog) :
           backlog[i] \in Conns /\ conn[backlog[i]] = "queued" /\ backlog[i] # c
    BY <2>1 DEF MockCoherent, BacklogQueued
  <2>3. conn' = [conn EXCEPT ![c] = "queued"] /\ conn \in [Conns -> {"none", "queued", "open", "closed"}]
    BY DEF MockCoherent, TablesTotal
  <2>4. \A i \in 1..Len(backlog') : i \in 1..Len(backlog) \/ i = Len(backlog) + 1
    BY <2>1
  <2>5. \A i \in 1..Len(backlog') : conn'[backlog'[i]] = "queued"
    BY <2>1, <2>2, <2>3, <2>4
  <2>6. \A i, j \in 1..Len(backlog') : backlog'[i] = backlog'[j] => i = j
    BY <2>1, <2>2, <2>4 DEF MockCoherent, BacklogQueued
  <2> QED
    BY <2>5, <2>6 DEF BacklogQueued
<1>4. OpenWhileHandled'
  BY DEF MockCoherent, OpenWhileHandled, TablesTotal
<1>5. CallFirst' /\ ClosedAfter'
  BY DEF MockCoherent, CallFirst, ClosedAfter, TablesTotal, Conns
<1> QED
  BY <1>1, <1>2, <1>3, <1>4, <1>5 DEF MockCoherent

LEMMA SpeakKeeps ==
  ASSUME MockCoherent, NEW c \in Conns, UNCHANGED call, Server!Speak(c),
         c = me => pc = "handshake"
  PROVE  MockCoherent'
<1> USE DEF Server!Speak, call
<1>1. TablesTotal' /\ OpensOnce' /\ BacklogQueued' /\ OpenWhileHandled' /\ ClosedAfter'
  BY DEF MockCoherent, TablesTotal, OpensOnce, BacklogQueued, OpenWhileHandled, ClosedAfter
<1>2. CallFirst'
  BY DEF MockCoherent, CallFirst, TablesTotal, Conns
<1> QED
  BY <1>1, <1>2 DEF MockCoherent

LEMMA GoAwayKeeps ==
  ASSUME MockCoherent, NEW c \in Conns, UNCHANGED call, Server!GoAway(c),
         c = me => Released
  PROVE  MockCoherent'
<1> USE DEF Server!GoAway, call
<1>1. TablesTotal' /\ OpensOnce' /\ BacklogQueued' /\ OpenWhileHandled' /\ ClosedAfter'
  BY DEF MockCoherent, TablesTotal, OpensOnce, BacklogQueued, OpenWhileHandled, ClosedAfter
<1>2. CallFirst'
  BY DEF MockCoherent, CallFirst, TablesTotal, Conns, Released
<1> QED
  BY <1>1, <1>2 DEF MockCoherent

LEMMA KillKeeps ==
  ASSUME MockCoherent, Signalled
  PROVE  MockCoherent'
<1>1. CASE Server!Ends("killed")
  BY <1>1, EndKeeps DEF Signalled, Server!Kill
<1>2. CASE UNCHANGED <<listener, backlog, conn, handler>>
  BY <1>2 DEF Signalled, Server!Kill, call, MockCoherent, TablesTotal, OpensOnce,
              BacklogQueued, OpenWhileHandled, CallFirst, ClosedAfter
<1> QED
  BY <1>1, <1>2 DEF Signalled, Server!Kill

\* What the system is short of disturbs nothing until a call fails for it.
LEMMA ShortageKeeps ==
  ASSUME MockCoherent, Shortage
  PROVE  MockCoherent'
<1>1. CASE Server!AcceptErrs
  BY <1>1, EndKeeps DEF Shortage, Server!AcceptErrs
<1>2. CASE Server!Scarcity
  BY <1>2 DEF Shortage, Server!Scarcity, call, MockCoherent, TablesTotal, OpensOnce,
              BacklogQueued, OpenWhileHandled, CallFirst, ClosedAfter
<1> QED
  BY <1>1, <1>2 DEF Shortage

LEMMA StutterKeeps ==
  ASSUME MockCoherent, UNCHANGED vars
  PROVE  MockCoherent'
BY DEF vars, call, server, MockCoherent, TablesTotal, OpensOnce, BacklogQueued,
       OpenWhileHandled, CallFirst, ClosedAfter

LEMMA MockCoherentNext ==
  ASSUME MockCoherent, [Next]_vars
  PROVE  MockCoherent'
<1>1. CASE CallMoves
  BY <1>1, CallKeeps
<1>2. CASE CallTime
  BY <1>2, TimeKeeps
<1>3. CASE ServerMoves
  BY <1>3, MainKeeps, WatcherKeeps DEF ServerMoves
<1>4. CASE \E c \in Others \cup {me} : Serves(c)
  BY <1>4, ServesKeeps DEF Conns
<1>5. CASE Signalled
  BY <1>5, KillKeeps
<1>6. CASE Dials
  BY <1>6, ConnectKeeps DEF Dials, Conns
<1>7. CASE SaysHello
  BY <1>7, SpeakKeeps DEF SaysHello, Conns
<1>8. CASE HangsUp
  BY <1>8, GoAwayKeeps DEF HangsUp, Conns
<1>9. CASE OtherMoves
  <2>1. PICK c \in Others : UNCHANGED call /\ (Server!Connect(c) \/ Server!Speak(c) \/ Server!GoAway(c))
    BY <1>9 DEF OtherMoves
  <2>2. c \in Conns /\ c # me
    BY OthersAssumption DEF Conns
  <2> QED
    BY <2>1, <2>2, ConnectKeeps, SpeakKeeps, GoAwayKeeps
<1>10. CASE Shortage
  BY <1>10, ShortageKeeps
<1>11. CASE UNCHANGED vars
  BY <1>11, StutterKeeps
<1> QED
  BY <1>1, <1>2, <1>3, <1>4, <1>5, <1>6, <1>7, <1>8, <1>9, <1>10, <1>11 DEF Next, Done

\* What the server, its clients and the call have in common in every state:
\* what is open is handled, what is queued is new, and the call goes first.
THEOREM MockStaysCoherent == Spec => []MockCoherent
BY MockCoherentInit, MockCoherentNext, PTL DEF Spec

\* A handler that is done has closed its connection (main.go:75-79), for any
\* number of clients.
THEOREM HandlersClose == Spec => []OnlySilentClientsHold
<1>1. MockCoherent => OnlySilentClientsHold
  BY DEF MockCoherent, OpenWhileHandled, OnlySilentClientsHold, Server!OnlySilentClientsHold, Conns
<1> QED
  BY <1>1, MockStaysCoherent, PTL

\* An inspection of the mock is refused or cut off only by a server that is
\* ending.
THEOREM ServerIsToBlame == Spec => []FailsOnlyWithServer
<1>1. MockCoherent => FailsOnlyWithServer
  BY DEF MockCoherent, ClosedAfter, FailsOnlyWithServer
<1> QED
  BY <1>1, MockStaysCoherent, PTL

----------------------------------------------------------------------------
(* The refinement: the call's view of the server.                          *)

LEMMA NetMoves ==
  ASSUME MockCoherent, UNCHANGED call,
         \/ Net' = Net
         \/ Net = "silent" /\ Net' = "refused"
         \/ pc # "start" /\ Net = "silent" /\ Net' = "accepted"
         \/ Net = "accepted" /\ Net' = "aborted"
         \/ tlsConn # "none" /\ Net = "accepted" /\ Net' = "flight"
  PROVE  [Call!Next]_(Call!vars)
BY DEF call, Call!vars, Call!Next, Call!PeerStep, Call!Peer

\* The end of the process refuses a call to come and aborts one under way.
LEMMA EndMoves ==
  ASSUME MockCoherent, NEW how, Server!Ends(how), UNCHANGED <<call, presented>>
  PROVE  [Call!Next]_(Call!vars)
<1>1. /\ conn' = [c \in Others \cup {me} |-> IF conn[c] = "none" THEN "none" ELSE "closed"]
      /\ listener' = IF listener = "none" THEN "none" ELSE "closed"
  BY DEF Server!Ends
<1>2. /\ conn'[me] = IF conn[me] = "none" THEN "none" ELSE "closed"
      /\ me \in presented => conn[me] # "none"
      /\ listener \in {"none", "open", "closed"}
  BY <1>1 DEF MockCoherent, OpenWhileHandled, OpensOnce
<1>3. \/ Net' = Net
      \/ Net = "silent" /\ Net' = "refused"
      \/ Net = "accepted" /\ Net' = "aborted"
  BY <1>1, <1>2 DEF Net
<1> QED
  BY <1>3, NetMoves

\* Every step of the composition is, for the call, a step or a stutter of
\* InspectTLS.
LEMMA CallStepOrStutter ==
  ASSUME MockCoherent, [Next]_vars
  PROVE  [Call!Next]_(Call!vars)
<1>1. CASE CallMoves \/ CallTime
  BY <1>1 DEF CallMoves, CallTime, Call!Next
<1>2. CASE ServerMoves
  <2>1. UNCHANGED call
    BY <1>2 DEF ServerMoves
  <2>2. CASE Server!StartFails
    BY <2>1, <2>2, EndMoves DEF Server!StartFails
  <2>3. CASE Server!AcceptFails
    BY <2>1, <2>3, EndMoves DEF Server!AcceptFails
  <2>4. CASE Server!OsExit
    BY <2>1, <2>4, EndMoves DEF Server!OsExit
  <2>5. CASE Server!Generate \/ Server!Listen \/ Server!PrintPort \/ Server!SpawnWatcher
             \/ Server!Notify
    <3>1. /\ UNCHANGED <<conn, presented>>
          /\ \/ listener' = listener
             \/ main = "listen" /\ listener' = "open"
      BY <2>5 DEF Server!Generate, Server!Listen, Server!PrintPort, Server!SpawnWatcher,
                  Server!Notify
    <3>2. listener' = listener \/ (listener = "none" /\ listener' = "open")
      BY <3>1 DEF MockCoherent, OpensOnce
    <3>3. Net' = Net
      BY <3>1, <3>2 DEF Net
    <3> QED
      BY <2>1, <3>3, NetMoves
  <2>6. CASE Server!Accept
    <3>1. /\ conn' = [conn EXCEPT ![Head(backlog)] = "open"]
          /\ UNCHANGED <<listener, presented>>
      BY <2>6 DEF Server!Accept, Server!AcceptNext
    <3>2. /\ backlog # <<>> /\ backlog \in Seq(Conns)
          /\ conn[Head(backlog)] = "queued" /\ Head(backlog) \in Conns
      BY <2>6 DEF MockCoherent, TablesTotal, BacklogQueued, Server!Accept, Server!CanAccept
    <3>3. Net' = Net
      BY <3>1, <3>2 DEF Net, MockCoherent, TablesTotal, Conns
    <3> QED
      BY <2>1, <3>3, NetMoves
  <2>7. CASE Server!CloseListener
    <3>1. /\ conn'[me] = IF conn[me] = "queued" THEN "closed" ELSE conn[me]
          /\ listener' = "closed" /\ UNCHANGED presented
      BY <2>7 DEF Server!CloseListener
    <3>2. \/ Net' = Net
          \/ Net = "silent" /\ Net' = "refused"
          \/ Net = "accepted" /\ Net' = "aborted"
      BY <3>1 DEF Net, MockCoherent, OpenWhileHandled, OpensOnce
    <3> QED
      BY <2>1, <3>2, NetMoves
  <2> QED
    BY <1>2, <2>2, <2>3, <2>4, <2>5, <2>6, <2>7 DEF ServerMoves, Server!Main, Server!Watcher
<1>3. ASSUME NEW c \in Others \cup {me}, Serves(c) PROVE [Call!Next]_(Call!vars)
  <2>1. UNCHANGED call
    BY <1>3 DEF Serves
  <2>2. CASE Server!Handshake(c)
    <3>1. /\ presented' = IF peer[c] = "spoke" THEN presented \cup {c} ELSE presented
          /\ UNCHANGED <<conn, listener>> /\ conn[c] = "open"
      BY <2>2 DEF Server!Handshake, MockCoherent, OpenWhileHandled, Conns
    <3>2. \/ Net' = Net
          \/ tlsConn # "none" /\ Net = "accepted" /\ Net' = "flight"
      BY <3>1 DEF Net, MockCoherent, CallFirst
    <3> QED
      BY <2>1, <3>2, NetMoves
  <2>3. CASE Server!Close(c)
    <3>1. /\ conn' = [conn EXCEPT ![c] = "closed"] /\ conn[c] = "open"
          /\ UNCHANGED <<listener, presented>>
      BY <2>3 DEF Server!Close, MockCoherent, OpenWhileHandled, Conns
    <3>2. Net' = Net \/ (Net = "accepted" /\ Net' = "aborted")
      BY <3>1 DEF Net, MockCoherent, TablesTotal, Conns
    <3> QED
      BY <2>1, <3>2, NetMoves
  <2> QED
    BY <1>3, <2>2, <2>3 DEF Serves
<1>4. CASE Signalled
  <2>1. CASE Server!Ends("killed")
    BY <1>4, <2>1, EndMoves DEF Signalled, Server!Kill
  <2>2. CASE UNCHANGED <<listener, conn>>
    <3>1. Net' = Net /\ UNCHANGED call
      BY <1>4, <2>2 DEF Signalled, Server!Kill, Net
    <3> QED
      BY <3>1, NetMoves
  <2> QED
    BY <1>4, <2>1, <2>2 DEF Signalled, Server!Kill
<1>5. CASE Dials
  <2>1. /\ conn' = [conn EXCEPT ![me] = "queued"] /\ conn[me] = "none"
        /\ UNCHANGED <<listener, presented, call>> /\ listener = "open" /\ pc # "start"
    BY <1>5 DEF Dials, Server!Connect
  <2>2. Net = "silent" /\ Net' = "accepted"
    BY <2>1 DEF Net, MockCoherent, TablesTotal, OpenWhileHandled, Conns
  <2> QED
    BY <2>1, <2>2, NetMoves
<1>6. CASE SaysHello \/ HangsUp
  <2>1. Net' = Net /\ UNCHANGED call
    BY <1>6 DEF SaysHello, HangsUp, Server!Speak, Server!GoAway, Net
  <2> QED
    BY <2>1, NetMoves
<1>7. CASE OtherMoves
  <2>1. PICK c \in Others : UNCHANGED call /\ (Server!Connect(c) \/ Server!Speak(c) \/ Server!GoAway(c))
    BY <1>7 DEF OtherMoves
  <2>2. /\ UNCHANGED <<listener, presented>>
        /\ conn' = conn \/ conn' = [conn EXCEPT ![c] = "queued"]
    BY <2>1 DEF Server!Connect, Server!Speak, Server!GoAway
  <2>3. Net' = Net
    BY <2>2, OthersAssumption DEF Net, MockCoherent, TablesTotal, Conns
  <2> QED
    BY <2>1, <2>3, NetMoves
<1>8. CASE Shortage
  <2>1. CASE Server!AcceptErrs
    BY <1>8, <2>1, EndMoves DEF Shortage, Server!AcceptErrs
  <2>2. CASE Server!Scarcity
    <3>1. Net' = Net /\ UNCHANGED call
      BY <1>8, <2>2 DEF Shortage, Server!Scarcity, Net
    <3> QED
      BY <3>1, NetMoves
  <2> QED
    BY <1>8, <2>1, <2>2 DEF Shortage
<1>9. CASE UNCHANGED vars
  <2>1. Net' = Net /\ UNCHANGED call
    BY <1>9 DEF vars, server, Net
  <2> QED
    BY <2>1, NetMoves
<1> QED
  BY <1>1, <1>2, <1>3, <1>4, <1>5, <1>6, <1>7, <1>8, <1>9 DEF Next, Done

\* Refinement: whatever the mock server does, starting, refusing, accepting,
\* dying, with any clients about, the call sees a peer that InspectTLS allows;
\* what InspectTLS promises holds of every inspection of the mock.
THEOREM MockIsLegalPeer == Spec => LegalPeer
<1>1. Init => Call!Init
  BY DEF Init
<1> QED
  BY <1>1, CallStepOrStutter, MockStaysCoherent, PTL DEF Spec, LegalPeer, Call!Spec

----------------------------------------------------------------------------
(* The descriptors: what ends the server.                                  *)

\* The connections that hold a descriptor.
Held == {c \in Conns : conn[c] = "open"}

\* The server's control: it listens before it prints and closes its listener
\* only when asked to.
ControlTyped ==
    /\ main \in {"generate", "listen", "print", "spawn", "accept"}
    /\ watcher \in {"none", "spawned", "notified", "closing"}
    /\ printed \in BOOLEAN /\ signal \in BOOLEAN /\ short \in BOOLEAN
    /\ exit \in {"running", "status0", "fatal", "killed"}

AskedToClose ==
    /\ main \notin {"generate", "listen"} => listener # "none"
    /\ printed => listener # "none"
    /\ watcher = "closing" => signal
    /\ exit = "running" /\ listener = "closed" => signal

\* Descriptors are never overdrawn.
DescriptorsCounted == IsFiniteSet(Held) /\ Cardinality(Held) <= MaxOpen

\* The server's module counts as this one does.
LEMMA SameCount == \A S : Server!Cardinality(S) = Cardinality(S)
BY Zenon DEF Server!Cardinality, Cardinality

LEMMA SameHeld == Server!Cardinality(Server!OpenConns) = Cardinality(Held)
BY SameCount DEF Server!OpenConns, Held, Conns

\* A step of one process leaves the other alone.
LEMMA ServerOrCall ==
  ASSUME [Next]_vars
  PROVE  \/ UNCHANGED server
         \/ UNCHANGED call /\ Server!Main
         \/ UNCHANGED call /\ Server!Watcher
         \/ UNCHANGED call /\ Server!Kill
         \/ UNCHANGED call /\ (Server!AcceptErrs \/ Server!Scarcity)
         \/ UNCHANGED call /\ \E c \in Conns :
               \/ Server!Handshake(c) \/ Server!Close(c) \/ Server!Connect(c)
               \/ Server!Speak(c) \/ Server!GoAway(c)
<1>1. CASE UNCHANGED vars
  BY <1>1 DEF vars
<1>2. CASE CallMoves \/ CallTime
  BY <1>2 DEF CallMoves, CallTime
<1>3. CASE ServerMoves
  BY <1>3 DEF ServerMoves
<1>4. CASE \E c \in Others \cup {me} : Serves(c)
  BY <1>4 DEF Serves, Conns
<1>5. CASE Signalled \/ Shortage
  BY <1>5 DEF Signalled, Shortage
<1>6. CASE Dials \/ SaysHello \/ HangsUp
  BY <1>6 DEF Dials, SaysHello, HangsUp, Conns
<1>7. CASE OtherMoves
  BY <1>7 DEF OtherMoves, Conns
<1> QED
  BY <1>1, <1>2, <1>3, <1>4, <1>5, <1>6, <1>7 DEF Next, Done

LEMMA ControlStep ==
  ASSUME MockCoherent, ControlTyped, AskedToClose, [Next]_vars
  PROVE  ControlTyped' /\ AskedToClose'
<1> USE DEF ControlTyped, AskedToClose
<1>1. CASE UNCHANGED server
  BY <1>1 DEF server
<1>2. CASE Server!Main
  <2>1. CASE Server!StartFails
    BY <2>1 DEF Server!StartFails, Server!Ends
  <2>2. CASE Server!Generate
    BY <2>2 DEF Server!Generate
  <2>3. CASE Server!Listen
    BY <2>3 DEF Server!Listen
  <2>4. CASE Server!PrintPort
    BY <2>4 DEF Server!PrintPort
  <2>5. CASE Server!SpawnWatcher
    BY <2>5 DEF Server!SpawnWatcher
  <2>6. CASE Server!Accept
    BY <2>6 DEF Server!Accept
  <2>7. CASE Server!AcceptFails
    BY <2>7 DEF Server!AcceptFails, Server!Ends
  <2> QED
    BY <1>2, <2>1, <2>2, <2>3, <2>4, <2>5, <2>6, <2>7 DEF Server!Main
<1>3. CASE Server!Watcher
  <2>1. CASE Server!Notify
    BY <2>1 DEF Server!Notify
  <2>2. CASE Server!CloseListener
    BY <2>2 DEF Server!CloseListener
  <2>3. CASE Server!OsExit
    BY <2>3 DEF Server!OsExit, Server!Ends
  <2> QED
    BY <1>3, <2>1, <2>2, <2>3 DEF Server!Watcher
<1>4. CASE Server!Kill
  <2>1. CASE Server!Ends("killed")
    BY <1>4, <2>1 DEF Server!Kill, Server!Ends
  <2>2. CASE UNCHANGED <<exit, listener, backlog, conn, handler>>
    BY <1>4, <2>2 DEF Server!Kill
  <2> QED
    BY <1>4, <2>1, <2>2 DEF Server!Kill
<1>5. ASSUME NEW c \in Conns,
             \/ Server!Handshake(c) \/ Server!Close(c) \/ Server!Connect(c)
             \/ Server!Speak(c) \/ Server!GoAway(c)
      PROVE  ControlTyped' /\ AskedToClose'
  BY <1>5 DEF Server!Handshake, Server!Close, Server!Connect, Server!Speak, Server!GoAway
<1>6. CASE Server!AcceptErrs
  BY <1>6 DEF Server!AcceptErrs, Server!Ends
<1>7. CASE Server!Scarcity
  BY <1>7 DEF Server!Scarcity
<1> QED
  BY <1>1, <1>2, <1>3, <1>4, <1>5, <1>6, <1>7, ServerOrCall

\* What one step does to the connections that hold a descriptor.
LEMMA ConnectionsStep ==
  ASSUME MockCoherent, [Next]_vars
  PROVE  \/ Held' \subseteq Held
         \/ Cardinality(Held) < MaxOpen /\ \E c \in Conns : Held' = Held \cup {c}
<1> DEFINE Status == {"none", "queued", "open", "closed"}
<1>0. conn \in [Conns -> Status]
  BY DEF MockCoherent, TablesTotal
<1>1. ASSUME UNCHANGED conn PROVE Held' = Held
  BY <1>1 DEF Held
<1>2. ASSUME NEW how, Server!Ends(how) PROVE Held' \subseteq Held
  <2>1. conn' = [c \in Conns |-> IF conn[c] = "none" THEN "none" ELSE "closed"]
    BY <1>2 DEF Server!Ends, Conns
  <2> QED
    BY <2>1 DEF Held
<1>3. CASE UNCHANGED server
  BY <1>1, <1>3 DEF server
<1>4. CASE Server!Main
  <2>1. CASE Server!StartFails \/ Server!AcceptFails
    BY <1>2, <2>1 DEF Server!StartFails, Server!AcceptFails
  <2>2. CASE Server!Generate \/ Server!Listen \/ Server!PrintPort \/ Server!SpawnWatcher
    BY <1>1, <2>2 DEF Server!Generate, Server!Listen, Server!PrintPort, Server!SpawnWatcher
  <2>3. CASE Server!Accept
    <3>1. PICK c : c = Head(backlog)
      OBVIOUS
    <3>2. conn' = [conn EXCEPT ![c] = "open"] /\ Cardinality(Held) < MaxOpen
      BY <2>3, <3>1, SameHeld DEF Server!Accept, Server!AcceptNext, Server!CanAccept
    <3>3. c \in Conns
      BY <2>3, <3>1 DEF MockCoherent, TablesTotal, Server!Accept, Server!CanAccept
    <3>4. Held' = Held \cup {c}
      BY <1>0, <3>2, <3>3 DEF Held
    <3> QED
      BY <3>2, <3>3, <3>4
  <2> QED
    BY <1>4, <2>1, <2>2, <2>3 DEF Server!Main
<1>5. CASE Server!Watcher
  <2>1. CASE Server!Notify
    BY <1>1, <2>1 DEF Server!Notify
  <2>2. CASE Server!CloseListener
    <3>1. conn' = [c \in Conns |-> IF conn[c] = "queued" THEN "closed" ELSE conn[c]]
      BY <2>2 DEF Server!CloseListener, Conns
    <3> QED
      BY <1>0, <3>1 DEF Held
  <2>3. CASE Server!OsExit
    BY <1>2, <2>3 DEF Server!OsExit
  <2> QED
    BY <1>5, <2>1, <2>2, <2>3 DEF Server!Watcher
<1>6. CASE Server!Kill
  BY <1>1, <1>2, <1>6 DEF Server!Kill
<1>7. ASSUME NEW c \in Conns, Server!Close(c) \/ Server!Connect(c)
      PROVE  Held' \subseteq Held
  <2>1. conn' = [conn EXCEPT ![c] = "closed"] \/ conn' = [conn EXCEPT ![c] = "queued"]
    BY <1>7 DEF Server!Close, Server!Connect
  <2> QED
    BY <1>0, <2>1 DEF Held
<1>8. ASSUME NEW c \in Conns, Server!Handshake(c) \/ Server!Speak(c) \/ Server!GoAway(c)
      PROVE  Held' = Held
  BY <1>1, <1>8 DEF Server!Handshake, Server!Speak, Server!GoAway
<1>9. CASE Server!AcceptErrs \/ Server!Scarcity
  BY <1>1, <1>2, <1>9 DEF Server!AcceptErrs, Server!Scarcity
<1> QED
  BY <1>3, <1>4, <1>5, <1>6, <1>7, <1>8, <1>9, ServerOrCall

LEMMA DescriptorsStep ==
  ASSUME MockCoherent, DescriptorsCounted, [Next]_vars
  PROVE  DescriptorsCounted'
<1>1. PICK H : H = Held'
  OBVIOUS
<1>2. \/ H \subseteq Held
      \/ Cardinality(Held) < MaxOpen /\ \E c \in Conns : H = Held \cup {c}
  BY <1>1, ConnectionsStep
<1>3. /\ IsFiniteSet(Held) /\ Cardinality(Held) \in Nat
      /\ Cardinality(Held) <= MaxOpen /\ MaxOpen \in Nat
  BY FS_CardinalityType, BoundsAssumption DEF DescriptorsCounted
<1>4. IsFiniteSet(H) /\ Cardinality(H) <= MaxOpen
  <2>1. CASE H \subseteq Held
    <3>1. IsFiniteSet(H) /\ Cardinality(H) <= Cardinality(Held) /\ Cardinality(H) \in Nat
      BY <1>3, <2>1, FS_Subset, FS_CardinalityType
    <3> QED
      BY <1>3, <3>1
  <2>2. CASE Cardinality(Held) < MaxOpen /\ \E c \in Conns : H = Held \cup {c}
    <3>1. IsFiniteSet(H)
      BY <1>3, <2>2, FS_AddElement
    <3>2. Cardinality(H) = Cardinality(Held) \/ Cardinality(H) = Cardinality(Held) + 1
      BY <1>3, <2>2, FS_AddElement
    <3> QED
      BY <1>3, <2>2, <3>1, <3>2
  <2> QED
    BY <1>2, <2>1, <2>2
<1> QED
  BY <1>1, <1>4 DEF DescriptorsCounted

\* The server never overdraws its descriptors and is never closed unasked.
THEOREM DescriptorsAreCounted ==
  Spec => [](ControlTyped /\ AskedToClose /\ DescriptorsCounted)
<1>1. Init => ControlTyped /\ AskedToClose /\ DescriptorsCounted
  <2> SUFFICES ASSUME Init PROVE ControlTyped /\ AskedToClose /\ DescriptorsCounted
    OBVIOUS
  <2>1. ControlTyped /\ AskedToClose
    BY DEF Init, Server!Init, ControlTyped, AskedToClose
  <2>2. Held = {}
    BY DEF Init, Server!Init, Held, Conns
  <2> QED
    BY <2>1, <2>2, FS_EmptySet, BoundsAssumption DEF DescriptorsCounted
<1>2. MockCoherent /\ (ControlTyped /\ AskedToClose /\ DescriptorsCounted) /\ [Next]_vars
      => (ControlTyped /\ AskedToClose /\ DescriptorsCounted)'
  BY ControlStep, DescriptorsStep
<1> QED
  BY <1>1, <1>2, MockStaysCoherent, PTL DEF Spec

\* Nobody holds a descriptor but the goroutines at work.
LEMMA BusyHold ==
  ASSUME MockCoherent
  PROVE  Server!Cardinality(Server!Busy) = Server!Cardinality(Server!OpenConns)
<1>1. Server!Busy = Server!OpenConns
  BY DEF MockCoherent, OpenWhileHandled, Server!Busy, Server!OpenConns, Conns
<1> QED
  BY <1>1

\* The step that ends the server unasked is that of an Accept without a
\* descriptor to take, or of a system short of something.
LEMMA EndStep ==
  ASSUME MockCoherent, AskedToClose, [Next]_vars,
         exit = "running", exit' = "status0", ~signal, ~short
  PROVE  Server!Cardinality(Server!Busy) >= MaxOpen
<1>1. CASE UNCHANGED server
  BY <1>1 DEF server
<1>2. CASE Server!Main
  <2>1. CASE Server!AcceptFails
    BY <2>1, BusyHold DEF Server!AcceptFails, AskedToClose
  <2>2. CASE Server!StartFails
    BY <2>2 DEF Server!StartFails, Server!Ends
  <2>3. CASE \/ Server!Generate \/ Server!Listen \/ Server!PrintPort
             \/ Server!SpawnWatcher \/ Server!Accept
    BY <2>3 DEF Server!Generate, Server!Listen, Server!PrintPort, Server!SpawnWatcher,
                Server!Accept
  <2> QED
    BY <1>2, <2>1, <2>2, <2>3 DEF Server!Main
<1>3. CASE Server!Watcher
  BY <1>3 DEF Server!Watcher, Server!Notify, Server!CloseListener, Server!OsExit, AskedToClose
<1>4. CASE Server!Kill
  BY <1>4 DEF Server!Kill, Server!Ends
<1>5. CASE Server!AcceptErrs \/ Server!Scarcity
  BY <1>5 DEF Server!AcceptErrs, Server!Scarcity
<1>6. ASSUME NEW c \in Conns,
             \/ Server!Handshake(c) \/ Server!Close(c) \/ Server!Connect(c)
             \/ Server!Speak(c) \/ Server!GoAway(c)
      PROVE  UNCHANGED exit
  BY <1>6 DEF Server!Handshake, Server!Close, Server!Connect, Server!Speak, Server!GoAway
<1> QED
  BY <1>1, <1>2, <1>3, <1>4, <1>5, <1>6, ServerOrCall

\* Any error of Accept ends the server with status 0 (mockserver/main.go:69-72);
\* unasked, and on a system short of nothing, that takes as many goroutines at
\* work at one time as it has descriptors, for any number of either: no client
\* that came and went before has left a descriptor behind.
THEOREM EndsForAReason == Spec => EndsAskedOrStarved
<1> DEFINE Step == exit = "running" /\ exit' = "status0" /\ ~signal /\ ~short
                   => Server!Cardinality(Server!Busy) >= MaxOpen
<1>1. MockCoherent /\ AskedToClose /\ [Next]_vars => [Step]_server
  BY EndStep
<1>2. EndsAskedOrStarved <=> [][Step]_server
  BY Zenon DEF EndsAskedOrStarved, Server!EndsAskedOrStarved, Server!vars, server
<1> QED
  BY <1>1, <1>2, MockStaysCoherent, DescriptorsAreCounted, PTL DEF Spec

----------------------------------------------------------------------------
(* Types.                                                                  *)

\* A backlog that holds each of its connections once has as many as places.
LEMMA BacklogCounts ==
  ASSUME MockCoherent
  PROVE  Server!Cardinality(Server!Range(backlog)) = Len(backlog)
<1> DEFINE R == {backlog[i] : i \in DOMAIN backlog}
<1>1. backlog \in Seq(Conns) /\ Len(backlog) \in Nat /\ DOMAIN backlog = 1..Len(backlog)
  BY DEF MockCoherent, TablesTotal
<1>2. backlog \in [1..Len(backlog) -> R]
  BY <1>1
<1>3. backlog \in Bijection(1..Len(backlog), R)
  BY <1>1, <1>2 DEF Bijection, Injection, Surjection, IsInjective, MockCoherent, BacklogQueued
<1>4. Cardinality(R) = Len(backlog)
  BY <1>1, <1>3, FS_CountingElements DEF ExistsBijection
<1> QED
  BY <1>4, SameCount DEF Server!Range

LEMMA ServerTypes ==
  MockCoherent /\ ControlTyped /\ AskedToClose /\ DescriptorsCounted => Server!TypeOK
BY BacklogCounts, SameHeld
DEF Server!TypeOK, MockCoherent, TablesTotal, OpensOnce, ControlTyped, AskedToClose,
    DescriptorsCounted, Conns

\* What the network looks like to the call is one of the cases it knows.
LEMMA NetTyped ==
  /\ Net \in {"silent", "accepted", "refused", "flight", "aborted"}
  /\ Net' \in {"silent", "accepted", "refused", "flight", "aborted"}
BY DEF Net

\* The only chain the server has, and the only name the call asks for.
MockChain == MockCert.TLSCert

LEMMA OneChain == Call!Chains = {MockChain}
BY DEF Call!Chains, MockChain

LEMMA OneName ==
  ASSUME args \in Call!Args
  PROVE  /\ Call!SNI(args) = Address
         /\ [n \in {Address} |-> MockCert.TLSCert][Call!SNI(args)] = MockChain
BY DEF Call!Args, Call!SNI, Address, MockChain

LEMMA ErrorTyped ==
  ASSUME NEW why \in Call!Errors
  PROVE  Call!Error(why) \in [err : Call!Errors \cup {"none"}, chain : Call!Chains \cup {<<>>}]
BY DEF Call!Error

LEMMA ErrorsKnown ==
  /\ "bad address" \in Call!Errors /\ "dial" \in Call!Errors /\ "timeout" \in Call!Errors
  /\ "handshake" \in Call!Errors /\ "unverified" \in Call!Errors
  /\ "no certificates" \in Call!Errors
BY Zenon DEF Call!Errors

LEMMA DefersKnown ==
  /\ "cancel" \in Call!DeferredCalls
  /\ <<"close raw", "close tls">> \in Seq(Call!DeferredCalls)
BY DEF Call!DeferredCalls

\* Whatever the server does, the call stays well typed.
LEMMA CallStepTyped ==
  ASSUME Call!TypeOK, Call!CallStep
  PROVE  Call!TypeOK'
<1> USE NetTyped DEF Call!TypeOK
<1>1. CASE Call!RejectAddress
  BY <1>1, ErrorsKnown, ErrorTyped DEF Call!RejectAddress, Call!Fail
<1>2. CASE Call!StartTimer
  <2>1. defers' \in Seq(Call!DeferredCalls)
    BY <1>2, DefersKnown, AppendProperties DEF Call!StartTimer
  <2> QED
    BY <1>2, <2>1 DEF Call!StartTimer
<1>3. CASE Call!DialFails
  BY <1>3, ErrorsKnown, ErrorTyped DEF Call!DialFails, Call!Fail
<1>4. CASE Call!Connected
  <2>1. defers' \in Seq(Call!DeferredCalls)
    BY <1>4, DefersKnown, ConcatProperties DEF Call!Connected
  <2> QED
    BY <1>4, <2>1 DEF Call!Connected
<1>5. CASE Call!HandshakeFails
  BY <1>5, ErrorsKnown, ErrorTyped DEF Call!HandshakeFails, Call!Fail
<1>6. CASE Call!HandshakeCompletes
  BY <1>6, ErrorsKnown, ErrorTyped DEF Call!HandshakeCompletes, Call!Fail
<1>7. CASE Call!TakeChain
  <2>1. result' \in [err : Call!Errors \cup {"none"}, chain : Call!Chains \cup {<<>>}]
    BY <1>7, OneName, OneChain, ErrorsKnown, ErrorTyped DEF Call!TakeChain
  <2> QED
    BY <1>7, <2>1 DEF Call!TakeChain
<1>8. CASE Call!RunDeferred
  <2>1. defers' \in Seq(Call!DeferredCalls)
    <3>1. defers' = SubSeq(defers, 1, Len(defers) - 1) /\ Len(defers) \in Nat
      <4>1. defers' = SubSeq(defers, 1, Len(defers) - 1)
        BY <1>8, Zenon DEF Call!RunDeferred, Call!Due
      <4> QED
        BY <4>1
    <3>2. Len(defers) - 1 \in Int /\ \A i \in 1..(Len(defers) - 1) : i \in 1..Len(defers)
      BY <3>1
    <3>3. \A i \in 1..(Len(defers) - 1) : defers[i] \in Call!DeferredCalls
      BY <3>2, ElementOfSeq
    <3> QED
      BY <3>1, <3>2, <3>3, SubSeqProperties
  <2>2. /\ ctx' \in {"none", "armed", "expired", "cancelled"}
        /\ rawConn' \in {"none", "open", "closed"}
        /\ tlsConn' \in {"none", "handshake", "up", "closed"}
        /\ UNCHANGED <<args, pc, bounded, result, clock>>
    BY <1>8 DEF Call!RunDeferred
  <2>3. notified' \in BOOLEAN
    BY <1>8 DEF Call!RunDeferred
  <2> QED
    BY <2>1, <2>2, <2>3
<1>9. CASE Call!Return
  BY <1>9 DEF Call!Return
<1> QED
  BY <1>1, <1>2, <1>3, <1>4, <1>5, <1>6, <1>7, <1>8, <1>9 DEF Call!CallStep

LEMMA CallTypesStep ==
  ASSUME Call!TypeOK, [Next]_vars
  PROVE  Call!TypeOK'
<1>1. CASE CallMoves
  BY <1>1, CallStepTyped DEF CallMoves
<1>2. CASE CallTime
  <2>1. CASE Call!Expire
    BY <2>1, NetTyped DEF Call!TypeOK, Call!Expire
  <2>2. CASE Call!Tick
    BY <2>2, NetTyped, BoundsAssumption DEF Call!TypeOK, Call!Tick
  <2> QED
    BY <1>2, <2>1, <2>2 DEF CallTime
<1>3. CASE UNCHANGED call
  BY <1>3, NetTyped DEF call, Call!TypeOK
<1> QED
  BY <1>1, <1>2, <1>3
  DEF Next, ServerMoves, Serves, Signalled, Shortage, Dials, SaysHello, HangsUp, OtherMoves,
      Done, vars

\* The call and the server are well typed: the backlog holds nobody twice, the
\* descriptors are never overdrawn, and a printed port is bound.
THEOREM TypeCorrect == Spec => []TypeOK
<1>1. Init => Call!TypeOK
  <2> SUFFICES ASSUME Init PROVE Call!TypeOK
    OBVIOUS
  <2>1. result \in [err : Call!Errors \cup {"none"}, chain : Call!Chains \cup {<<>>}]
    BY DEF Init, Call!Init, Call!NoResult
  <2>2. defers \in Seq(Call!DeferredCalls)
    BY DEF Init, Call!Init
  <2>3. clock \in 0..Limit
    BY BoundsAssumption DEF Init, Call!Init
  <2> QED
    BY <2>1, <2>2, <2>3, NetTyped DEF Init, Call!Init, Call!TypeOK
<1>2. Call!TypeOK /\ [Next]_vars => Call!TypeOK'
  BY CallTypesStep
<1>3. Spec => []Call!TypeOK
  BY <1>1, <1>2, PTL DEF Spec
<1>4. Call!TypeOK /\ Server!TypeOK => TypeOK
  BY DEF TypeOK
<1> QED
  BY <1>3, <1>4, MockStaysCoherent, DescriptorsAreCounted, ServerTypes, PTL

----------------------------------------------------------------------------
(* What the call brings home.                                              *)

\* An insecure call takes the chain of the flight it got, and nothing else.
FlightTaken ==
    /\ args.insecure
    /\ pc = "chain" => me \in presented
    /\ pc \in {"unwind", "returned"} /\ result.err = "none" =>
          me \in presented /\ result.chain = MockChain

\* What has been handed out stays so.
LEMMA StillPresented ==
  ASSUME [Next]_vars
  PROVE  presented \subseteq presented'
<1>1. ASSUME NEW c \in Conns,
             \/ Server!Handshake(c) \/ Server!Close(c) \/ Server!Connect(c)
             \/ Server!Speak(c) \/ Server!GoAway(c)
      PROVE  presented \subseteq presented'
  BY <1>1 DEF Server!Handshake, Server!Close, Server!Connect, Server!Speak, Server!GoAway
<1>2. CASE Server!Main
  BY <1>2 DEF Server!Main, Server!StartFails, Server!Generate, Server!Listen,
              Server!PrintPort, Server!SpawnWatcher, Server!Accept, Server!AcceptFails
<1>3. CASE Server!Watcher \/ Server!Kill
  BY <1>3 DEF Server!Watcher, Server!Notify, Server!CloseListener, Server!OsExit, Server!Kill
<1>4. CASE Server!AcceptErrs \/ Server!Scarcity
  BY <1>4 DEF Server!AcceptErrs, Server!Scarcity
<1> QED
  BY <1>1, <1>2, <1>3, <1>4, ServerOrCall DEF server

LEMMA MockChainHas == MockChain # <<>> /\ Len(MockChain) = 1
BY DEF MockChain, MockCert, Generate

LEMMA FlightTakenStep ==
  ASSUME Call!TypeOK, FlightTaken, [Next]_vars
  PROVE  FlightTaken'
<1> USE DEF FlightTaken
<1>1. CASE UNCHANGED <<args, pc, result>>
  BY <1>1, StillPresented
<1>2. CASE CallMoves
  <2>0. UNCHANGED <<args, presented>>
    BY <1>2 DEF CallMoves, server, Call!CallStep, Call!RejectAddress, Call!StartTimer,
                Call!DialFails, Call!Connected, Call!HandshakeFails, Call!HandshakeCompletes,
                Call!TakeChain, Call!RunDeferred, Call!Return
  <2>1. ASSUME NEW why \in Call!Errors, Call!Fail(why) PROVE FlightTaken'
    <3>1. why # "none"
      BY <2>1, Zenon DEF Call!Errors
    <3> QED
      BY <2>0, <2>1, <3>1 DEF Call!Fail, Call!Error
  <2>2. CASE Call!RejectAddress \/ Call!DialFails \/ Call!HandshakeFails
    BY <2>1, <2>2, ErrorsKnown DEF Call!RejectAddress, Call!DialFails, Call!HandshakeFails
  <2>3. CASE Call!StartTimer \/ Call!Connected
    <3>1. pc' \in {"dial", "handshake"}
      BY <2>3 DEF Call!StartTimer, Call!Connected
    <3> QED
      BY <2>0, <3>1
  <2>4. CASE Call!HandshakeCompletes
    <3>1. me \in presented
      BY <2>4 DEF Call!HandshakeCompletes, Net
    <3>2. pc' = "chain" \/ Call!Fail("unverified")
      BY <2>4 DEF Call!HandshakeCompletes
    <3> QED
      BY <2>0, <2>1, <3>1, <3>2, ErrorsKnown
  <2>5. CASE Call!TakeChain
    <3>1. result'.chain = MockChain /\ pc = "chain"
      BY <2>5, OneName, MockChainHas DEF Call!TypeOK, Call!TakeChain
    <3> QED
      BY <2>0, <3>1
  <2>6. CASE Call!RunDeferred
    BY <2>0, <2>6 DEF Call!RunDeferred
  <2>7. CASE Call!Return
    BY <2>0, <2>7 DEF Call!Return
  <2> QED
    BY <1>2, <2>2, <2>3, <2>4, <2>5, <2>6, <2>7 DEF CallMoves, Call!CallStep
<1>3. CASE CallTime
  BY <1>1, <1>3 DEF CallTime, Call!Expire, Call!Tick
<1> QED
  BY <1>1, <1>2, <1>3
  DEF Next, ServerMoves, Serves, Signalled, Shortage, Dials, SaysHello, HangsUp, OtherMoves, Done,
      vars, call

\* The rows tls_inspect makes of the mock's chain.
LEMMA MockRows ==
  LET rows == ChainRows(MockChain)
  IN  /\ Len(rows) = 1
      /\ rows[1].seq = 0 /\ ~rows[1].isCA
      /\ rows[1].notBefore < rows[1].notAfter
      /\ rows[1].text = "mock.tls.local"
<1> DEFINE rows == ChainRows(MockChain)
           spec == [Default(0, 1, 9) EXCEPT !.commonName = "mock.tls.local",
                                            !.dns = <<"mock.tls.local">>]
           cert == Template(spec)
<1>1. MockChain = <<cert>>
  BY DEF MockChain, MockCert, Generate
<1>2. /\ spec.commonName = "mock.tls.local" /\ spec.isCA = FALSE
      /\ spec.notBefore = 0 - 1 /\ spec.notAfter = 0 + 9
  BY DEF Default
<1> HIDE DEF spec
<1>3. /\ cert.raw = "mock.tls.local" /\ cert.isCA = FALSE
      /\ cert.notBefore = 0 - 1 /\ cert.notAfter = 0 + 9
  BY <1>2 DEF Template
<1> HIDE DEF cert
<1>4. /\ DOMAIN rows = 1..1
      /\ rows[1] = [seq |-> 1 - 1, text |-> cert.raw, notBefore |-> cert.notBefore,
                    notAfter |-> cert.notAfter, isCA |-> cert.isCA]
  BY <1>1 DEF ChainRows, tlsChainRow, Text
<1>5. Len(rows) = 1
  BY <1>1 DEF ChainRows
<1> QED
  BY <1>3, <1>4, <1>5

\* An inspection of the mock that succeeds gives the row tls_inspect.test
\* expects, of the certificate the mock made (mockserver/main.go:29-47), and
\* the mock did hand it out: for any number of other clients.
THEOREM RowsAreTheMocks == Spec => []RowsOfMock
<1>1. Init => FlightTaken
  BY DEF Init, Call!Init, FlightTaken
<1>2. Call!TypeOK /\ FlightTaken /\ [Next]_vars => FlightTaken'
  BY FlightTakenStep
<1>3. FlightTaken => RowsOfMock
  BY MockRows DEF FlightTaken, RowsOfMock
<1>4. TypeOK => Call!TypeOK
  BY DEF TypeOK
<1> QED
  BY <1>1, <1>2, <1>3, <1>4, TypeCorrect, PTL DEF Spec

----------------------------------------------------------------------------
(* The server as a process.                                                *)

\* The life of the server as its callers see it.
Life == IF exit # "running" THEN "gone"
        ELSE IF signal THEN "told"
        ELSE IF printed THEN "ready" ELSE "starting"

Process == INSTANCE ServerProcess WITH proc <- Life

\* Refinement, its safety part: whatever its goroutines and its clients do, the
\* server reports once, dies for good, and is told to only once; the scripts
\* that start one (IntegrationRun) are checked against just that.
THEOREM MockIsAProcess == Spec => Process!Init /\ [][Process!Next]_Life
<1>1. Init => Process!Init
  BY DEF Init, Server!Init, Process!Init, Life
<1>2. ControlTyped /\ [Next]_vars => [Process!Next]_Life
  <2> SUFFICES ASSUME ControlTyped, [Next]_vars PROVE [Process!Next]_Life
    OBVIOUS
  <2> USE DEF ControlTyped, Life, Process!Next, Process!Report, Process!Tell, Process!Die,
              Process!Alive, Server!Alive
  <2>1. CASE UNCHANGED <<exit, signal, printed>>
    BY <2>1
  <2>2. CASE Server!Main
    <3>1. CASE Server!StartFails \/ Server!AcceptFails
      BY <3>1 DEF Server!StartFails, Server!AcceptFails, Server!Ends
    <3>2. CASE Server!PrintPort
      BY <3>2 DEF Server!PrintPort
    <3>3. CASE Server!Generate \/ Server!Listen \/ Server!SpawnWatcher \/ Server!Accept
      BY <2>1, <3>3 DEF Server!Generate, Server!Listen, Server!SpawnWatcher, Server!Accept
    <3> QED
      BY <2>2, <3>1, <3>2, <3>3 DEF Server!Main
  <2>3. CASE Server!Watcher
    BY <2>3 DEF Server!Watcher, Server!Notify, Server!CloseListener, Server!OsExit, Server!Ends
  <2>4. CASE Server!Kill
    BY <2>4 DEF Server!Kill, Server!Ends
  <2>5. ASSUME NEW c \in Conns,
               \/ Server!Handshake(c) \/ Server!Close(c) \/ Server!Connect(c)
               \/ Server!Speak(c) \/ Server!GoAway(c)
        PROVE  UNCHANGED <<exit, signal, printed>>
    BY <2>5 DEF Server!Handshake, Server!Close, Server!Connect, Server!Speak, Server!GoAway
  <2>6. CASE Server!AcceptErrs \/ Server!Scarcity
    BY <2>1, <2>6 DEF Server!AcceptErrs, Server!Scarcity, Server!Ends
  <2> QED
    BY <2>1, <2>2, <2>3, <2>4, <2>5, <2>6, ServerOrCall DEF server
<1> QED
  BY <1>1, <1>2, DescriptorsAreCounted, PTL DEF Spec
=============================================================================
