-------------------------- MODULE TableScanProofs --------------------------
(***************************************************************************)
(* Theorems about TableScan, for every set of scans, calls and chains,     *)
(* every transport, every RowsPerTick and every bound.                     *)
(***************************************************************************)
EXTENDS TableScan, CertificateProofs, SequenceTheorems, TLAPS

----------------------------------------------------------------------------
(* What NewState builds.                                                   *)

\* NewState fails or builds a sequence of rows.
LEMMA NewStateType ==
    ASSUME NEW c \in Calls, NEW t, NEW chain \in Chains
    PROVE  \A r \in NewState(c, t, chain) : r.err \in BOOLEAN /\ r.rows \in Seq(Row)
<1> DEFINE h == parseHandle(c.colType, c.cell)
           info == IF h.err = "none" THEN CertInfo(h.cert, t) ELSE <<>>
<1>1. c.args \in {"bad", "null", "value"} /\ c.cell \in Cell
  BY CallsAssumption DEF Call
<1>2. chain \in Seq(Cert)
  BY ChainsAssumption
<1>3. <<>> \in Seq(Row)
  OBVIOUS
<1>4. ChainRows(chain) \in Seq(Row)
  BY <1>2, ChainRowsType
<1>5. h.err = "none" => h.cert \in Cert
  BY <1>1, parseHandleType DEF Parsed, Errors
<1>6. info \in Seq(Row)
  BY <1>3, <1>5, CertInfoType, Zenon
<1>7. \A r \in certInfoNewState(c, t) : r \in {Failed, Built(<<>>), Built(info)}
  BY <1>1, Zenon DEF certInfoNewState
<1>8. \A r \in tlsInspectNewState(c, chain) :
         r \in {Failed, Built(<<>>), Built(ChainRows(chain))}
  BY <1>1, Zenon DEF tlsInspectNewState
<1>9. \A rs \in Seq(Row) : Built(rs).err \in BOOLEAN /\ Built(rs).rows \in Seq(Row)
  BY DEF Built
<1>10. Failed.err \in BOOLEAN /\ Failed.rows \in Seq(Row)
  BY DEF Failed
<1> HIDE DEF info
<1>11. \A r \in NewState(c, t, chain) :
          \/ r = Failed
          \/ \E rs \in {<<>>, info, ChainRows(chain)} : r = Built(rs)
  BY <1>7, <1>8, Zenon DEF NewState
<1> QED
  BY <1>3, <1>4, <1>6, <1>9, <1>10, <1>11, Zenon

----------------------------------------------------------------------------
(* What the state of a scan goes through.                                  *)

LEMMA NoStateType == NoState \in State
  BY DEF NoState, State

LEMMA GobRoundTripIsIdentity ==
    ASSUME NEW st \in State
    PROVE  GobRoundTrip(st) = st
<1>1. DOMAIN st = {"rows", "offset"} /\ st = [f \in DOMAIN st |-> st[f]]
  BY DEF State
<1>2. \A f \in DOMAIN st : f \in Exported
  BY <1>1 DEF Exported
<1> QED
  BY <1>1, <1>2, Zenon DEF GobRoundTrip

LEMMA TokenFact ==
    ASSUME NEW st \in State
    PROVE  /\ Token(st) \in State
           /\ Stateless => Token(st) = st
  BY GobRoundTripIsIdentity, NoStateType DEF Token

\* A tick takes the next slice and leaves the cursor behind it.
LEMMA ProcessFact ==
    ASSUME NEW st \in State, st.offset <= Len(st.rows)
    PROVE  LET p == Process(st)
           IN  /\ p.done <=> st.offset = Len(st.rows)
               /\ p.rows \in Seq(Row)
               /\ p.atEmit = p.after
               /\ p.after \in State
               /\ p.after.rows = st.rows
               /\ p.after.offset <= Len(st.rows)
               /\ p.done => p.after.offset = st.offset
               /\ ~p.done =>
                    /\ p.after.offset > st.offset
                    /\ p.rows = SubSeq(st.rows, st.offset + 1, p.after.offset)
                    /\ p.after.offset = IF st.offset + RowsPerTick > Len(st.rows)
                                        THEN Len(st.rows) ELSE st.offset + RowsPerTick
<1> DEFINE n == Len(st.rows)
           c == cursorBounds(n, st.offset)
<1>1. st.rows \in Seq(Row) /\ st.offset \in Nat /\ n \in Nat /\ RowsPerTick \in Nat \ {0}
  BY BoundsAssumption DEF State
<1>2. /\ c.done <=> st.offset = n
      /\ c.start \in Nat /\ c.end \in Nat /\ c.offset \in Nat
      /\ c.end <= n /\ c.offset <= n
      /\ c.done => c.offset = st.offset
      /\ ~c.done => /\ c.start = st.offset /\ c.end = c.offset /\ c.offset > st.offset
                    /\ c.offset = IF st.offset + RowsPerTick > n THEN n
                                  ELSE st.offset + RowsPerTick
  BY <1>1 DEF cursorBounds
<1> HIDE DEF c
<1>3. SubSeq(st.rows, c.start + 1, c.end) \in Seq(Row)
  BY <1>1, <1>2
<1>4. [st EXCEPT !.offset = c.offset] \in State
  BY <1>1, <1>2 DEF State
<1>5. /\ [st EXCEPT !.offset = c.offset].rows = st.rows
      /\ [st EXCEPT !.offset = c.offset].offset = c.offset
  BY DEF State
<1>6. /\ Process(st).done = c.done
      /\ Process(st).rows = SubSeq(st.rows, c.start + 1, c.end)
      /\ Process(st).atEmit = [st EXCEPT !.offset = c.offset]
      /\ Process(st).after = [st EXCEPT !.offset = c.offset]
  BY DEF Process, c
<1> QED
  BY <1>2, <1>3, <1>4, <1>5, <1>6

LEMMA ProcessType ==
    ASSUME NEW st \in State
    PROVE  /\ Process(st).rows \in Seq(Row)
           /\ Process(st).atEmit \in State
           /\ Process(st).after \in State
<1> DEFINE c == cursorBounds(Len(st.rows), st.offset)
<1>1. st.rows \in Seq(Row) /\ st.offset \in Nat /\ Len(st.rows) \in Nat
  BY DEF State
<1>2. /\ c.start \in Nat /\ c.end \in Nat /\ c.offset \in Nat
      /\ c.end <= Len(st.rows)
  BY <1>1, BoundsAssumption DEF cursorBounds
<1> HIDE DEF c
<1>3. SubSeq(st.rows, c.start + 1, c.end) \in Seq(Row)
  BY <1>1, <1>2
<1>4. [st EXCEPT !.offset = c.offset] \in State
  BY <1>1, <1>2 DEF State
<1> QED
  BY <1>3, <1>4 DEF Process, c

----------------------------------------------------------------------------
(* Type correctness.                                                       *)

LEMMA MsgType ==
    ASSUME NEW kind \in Kinds, NEW rows \in Seq(Row), NEW st \in State
    PROVE  Msg(kind, rows, st) \in Exchange
  BY DEF Msg, Exchange

LEMMA SignalType ==
    ASSUME NEW kind \in Kinds
    PROVE  Signal(kind) \in Exchange
<1>1. <<>> \in Seq(Row)
  OBVIOUS
<1> QED
  BY <1>1, MsgType, NoStateType DEF Signal

LEMMA TypeInit == Init => TypeOK
<1> SUFFICES ASSUME Init PROVE TypeOK
  OBVIOUS
<1>1. Signal("none") \in Exchange
  BY SignalType DEF Kinds
<1>2. <<>> \in Seq(Row) /\ NoState \in State
  BY NoStateType
<1>3. 0 \in 0..MaxNow /\ 0 \in 0..MaxResends
  BY BoundsAssumption
<1> QED
  BY <1>1, <1>2, <1>3 DEF Init, TypeOK

LEMMA TypeStep == TypeOK /\ [Next]_vars => TypeOK'
<1> SUFFICES ASSUME TypeOK, [Next]_vars PROVE TypeOK'
  OBVIOUS
<1> USE DEF TypeOK
<1>a. \A k \in Kinds : Signal(k) \in Exchange
  BY SignalType
<1>b. \A s \in Scans : /\ wire[s] \in Exchange
                       /\ wire[s].rows \in Seq(Row) /\ wire[s].st \in State
                       /\ held[s] \in State /\ live[s] \in State
  BY DEF Exchange
<1>c. <<>> \in Seq(Row)
  OBVIOUS
<1>1. ASSUME NEW s \in Scans, Open(s) PROVE TypeOK'
  BY <1>1, <1>a DEF Open, Kinds
<1>2. ASSUME NEW s \in Scans, Pull(s) PROVE TypeOK'
  <2>1. Msg("pull", <<>>, held[s]) \in Exchange
    BY <1>b, <1>c, MsgType DEF Kinds
  <2> QED
    BY <1>2, <2>1 DEF Pull
<1>3. ASSUME NEW s \in Scans, Receive(s) PROVE TypeOK'
  <2>1. AnsweredPhase[wire[s].kind] \in {"ready", "done", "failed"}
    BY <1>3 DEF Receive, Responses, AnsweredPhase
  <2>2. got[s] \o wire[s].rows \in Seq(Row)
    BY <1>b
  <2>3. Signal("none") \in Exchange
    BY <1>a DEF Kinds
  <2> QED
    BY <1>3, <1>b, <2>1, <2>2, <2>3 DEF Receive
<1>4. ASSUME NEW s \in Scans, ServeOpen(s) PROVE TypeOK'
  <2>1. PICK r \in NewState(call[s], now, served) :
          LET st == GobRoundTrip([rows |-> r.rows, offset |-> 0])
          IN  IF r.err
              THEN /\ wire' = [wire EXCEPT ![s] = Signal("error")]
                   /\ UNCHANGED <<live, made>>
              ELSE /\ wire' = [wire EXCEPT ![s] = Msg("opened", <<>>, Token(st))]
                   /\ live' = [live EXCEPT ![s] = IF Stateless THEN @ ELSE st]
                   /\ made' = [made EXCEPT ![s] = r.rows]
    BY <1>4 DEF ServeOpen
  <2> DEFINE st == [rows |-> r.rows, offset |-> 0]
  <2>2. r.err \in BOOLEAN /\ r.rows \in Seq(Row)
    <3>1. call[s] \in Calls /\ served \in Chains
      OBVIOUS
    <3> QED
      BY <3>1, NewStateType
  <2> HIDE DEF st
  <2>3. st \in State /\ GobRoundTrip(st) = st
    <3>1. st \in State
      BY <2>2 DEF State, st
    <3> QED
      BY <3>1, GobRoundTripIsIdentity
  <2>4. Msg("opened", <<>>, Token(st)) \in Exchange
    BY <2>3, <1>c, MsgType, TokenFact DEF Kinds
  <2>5. Signal("error") \in Exchange
    BY <1>a DEF Kinds
  <2>6. wire' \in [Scans -> Exchange] /\ live' \in [Scans -> State] /\ made' \in [Scans -> Seq(Row)]
    <3>1. CASE r.err
      BY <2>1, <2>5, <3>1
    <3>2. CASE ~r.err
      <4>1. /\ wire' = [wire EXCEPT ![s] = Msg("opened", <<>>, Token(st))]
            /\ live' = [live EXCEPT ![s] = IF Stateless THEN @ ELSE st]
            /\ made' = [made EXCEPT ![s] = r.rows]
        BY <2>1, <2>3, <3>2, Zenon DEF st
      <4> QED
        BY <2>2, <2>3, <2>4, <4>1
    <3> QED
      BY <2>2, <3>1, <3>2
  <2> QED
    BY <1>4, <2>6 DEF ServeOpen
<1>5. ASSUME NEW s \in Scans, ServePull(s) PROVE TypeOK'
  <2> DEFINE p == Process(IF Stateless THEN wire[s].st ELSE live[s])
  <2>1. p.rows \in Seq(Row) /\ p.atEmit \in State /\ p.after \in State
    BY <1>b, ProcessType
  <2>2. Msg("batch", p.rows, Token(p.atEmit)) \in Exchange
    BY <2>1, TokenFact, MsgType DEF Kinds
  <2>3. Signal("finish") \in Exchange
    BY <1>a DEF Kinds
  <2> HIDE DEF p
  <2> QED
    BY <1>5, <2>1, <2>2, <2>3 DEF ServePull, p
<1>6. ASSUME NEW s \in Scans, Lose(s) PROVE TypeOK'
  BY <1>6, <1>a DEF Lose, Kinds
<1>7. ASSUME NEW s \in Scans, Resend(s) PROVE TypeOK'
  <2>1. resends[s] + 1 \in 0..MaxResends
    BY <1>7, BoundsAssumption DEF Resend
  <2>2. Msg("pull", <<>>, held[s]) \in Exchange /\ Signal("open") \in Exchange
    BY <1>a, <1>b, <1>c, MsgType DEF Kinds
  <2> QED
    BY <1>7, <2>1, <2>2 DEF Resend
<1>8. ASSUME NEW s \in Scans, GiveUp(s) PROVE TypeOK'
  BY <1>8, <1>a DEF GiveUp, Kinds
<1>9. CASE Crash
  <2>1. Signal("none") \in Exchange
    BY <1>a DEF Kinds
  <2> QED
    BY <1>9, <2>1, NoStateType DEF Crash
<1>10. CASE Rotate
  BY <1>10 DEF Rotate, scanVars
<1>11. CASE ClockTick
  BY <1>11, BoundsAssumption DEF ClockTick, scanVars
<1>12. CASE UNCHANGED vars
  BY <1>12 DEF vars, scanVars
<1> QED
  BY <1>1, <1>2, <1>3, <1>4, <1>5, <1>6, <1>7, <1>8, <1>9, <1>10, <1>11, <1>12
  DEF Next

\* Every variable keeps its type: whatever is in flight is a well-formed
\* exchange and every token and worker state a well-formed cursor state.
THEOREM TypeCorrect == Spec => []TypeOK
<1>1. Init => TypeOK
  BY TypeInit
<1>2. TypeOK /\ [Next]_vars => TypeOK'
  BY TypeStep
<1> QED
  BY <1>1, <1>2, PTL DEF Spec

----------------------------------------------------------------------------
(* The inductive invariant.                                                *)

\* Time only adds readings a call may have made of its source.
LEMMA ReadingsGrow ==
    ASSUME NEW c, now \in Nat, now' \in Nat, now <= now'
    PROVE  Readings(c) \subseteq Readings(c)'
<1> SUFFICES ASSUME NEW r \in Readings(c) PROVE r \in Readings(c)'
  OBVIOUS
<1>1. PICK t \in 0..now, chain \in Chains : r \in NewState(c, t, chain)
  BY DEF Readings
<1>2. t \in 0..now'
  OBVIOUS
<1> QED
  BY <1>1, <1>2 DEF Readings

\* What NewState makes of a call now is a reading of it.
LEMMA NewReading ==
    ASSUME TypeOK, NEW c, NEW r \in NewState(c, now, served)
    PROVE  r \in Readings(c)
<1>1. now \in 0..now /\ served \in Chains
  BY BoundsAssumption DEF TypeOK
<1>2. NewState(c, now, served) \in {NewState(c, t, chain) : t \in 0..now, chain \in Chains}
  BY <1>1
<1> QED
  BY <1>2 DEF Readings

\* A step that leaves a scan alone leaves it coherent.
LEMMA CoherentFrame ==
    ASSUME TypeOK, TypeOK', NEW t \in Scans, ScanCoherent(t), now <= now',
           call'[t] = call[t], phase'[t] = phase[t], wire'[t] = wire[t],
           held'[t] = held[t], live'[t] = live[t], got'[t] = got[t],
           made'[t] = made[t]
    PROVE  ScanCoherent(t)'
<1>1. now \in Nat /\ now' \in Nat
  BY BoundsAssumption DEF TypeOK
<1>2. ExchangeFitsPhase(t)'
  BY DEF ScanCoherent, ExchangeFitsPhase
<1>3. GotIsPrefix(t)'
  BY DEF ScanCoherent, GotIsPrefix
<1>4. BatchIsNextSlice(t)'
  BY DEF ScanCoherent, BatchIsNextSlice, SliceEnd
<1>5. CursorFits(t)'
  BY DEF ScanCoherent, CursorFits, Cursor, SliceEnd
<1>6. TokenFits(t)'
  BY DEF ScanCoherent, TokenFits
<1>7. EndFits(t)'
  BY DEF ScanCoherent, EndFits
<1>8. MadeIsReading(t)'
  BY <1>1, ReadingsGrow DEF ScanCoherent, MadeIsReading
<1> QED
  BY <1>2, <1>3, <1>4, <1>5, <1>6, <1>7, <1>8 DEF ScanCoherent

LEMMA CoherentInit == Init => ScansCoherent
<1> SUFFICES ASSUME Init, NEW s \in Scans PROVE ScanCoherent(s)
  BY DEF ScansCoherent
<1>1. /\ phase[s] = "idle" /\ wire[s] = Signal("none") /\ got[s] = <<>>
      /\ made[s] = <<>>
  BY DEF Init
<1>2. wire[s].kind = "none" /\ wire[s].rows = <<>>
  BY <1>1 DEF Signal, Msg
<1>3. IsPrefixOf(<<>>, <<>>)
  BY DEF IsPrefixOf
<1> QED
  BY <1>1, <1>2, <1>3
  DEF ScanCoherent, ExchangeFitsPhase, GotIsPrefix, BatchIsNextSlice, CursorFits,
      TokenFits, EndFits, MadeIsReading

\* A step of one scan: it is enough to look at that scan.
LEMMA OneScanMoves ==
    ASSUME Inv, TypeOK', NEW s \in Scans, ScanCoherent(s)', now' = now, call' = call,
           \A t \in Scans \ {s} :
              /\ phase'[t] = phase[t] /\ wire'[t] = wire[t] /\ held'[t] = held[t]
              /\ live'[t] = live[t] /\ got'[t] = got[t] /\ made'[t] = made[t]
    PROVE  ScansCoherent'
<1> SUFFICES ASSUME NEW t \in Scans PROVE ScanCoherent(t)'
  BY DEF ScansCoherent
<1>1. CASE t = s
  BY <1>1
<1>2. CASE t # s
  <2>1. now <= now'
    BY BoundsAssumption DEF Inv, TypeOK
  <2> QED
    BY <1>2, <2>1, CoherentFrame DEF Inv, ScansCoherent
<1> QED
  BY <1>1, <1>2

LEMMA OpenCoherent ==
    ASSUME Inv, TypeOK', NEW s \in Scans, Open(s)
    PROVE  ScansCoherent'
<1> USE DEF Inv, TypeOK
<1>1. /\ phase[s] = "idle" /\ phase'[s] = "opening" /\ wire'[s] = Signal("open")
      /\ UNCHANGED <<call, held, live, got, made, now, served>>
  BY DEF Open
<1>2. wire'[s].kind = "open" /\ wire'[s].rows = <<>>
  BY <1>1 DEF Signal, Msg
<1>3. ScanCoherent(s)
  BY DEF ScansCoherent
<1>4. ScanCoherent(s)'
  <2>1. ExchangeFitsPhase(s)'
    BY <1>1, <1>2, <1>3 DEF ScanCoherent, ExchangeFitsPhase
  <2>2. GotIsPrefix(s)'
    BY <1>1, <1>3 DEF ScanCoherent, GotIsPrefix
  <2>3. BatchIsNextSlice(s)' /\ CursorFits(s)' /\ TokenFits(s)' /\ EndFits(s)'
    BY <1>1, <1>2 DEF BatchIsNextSlice, CursorFits, TokenFits, EndFits
  <2>4. MadeIsReading(s)'
    BY <1>1, <1>3 DEF ScanCoherent, MadeIsReading, Readings
  <2> QED
    BY <2>1, <2>2, <2>3, <2>4 DEF ScanCoherent
<1>5. \A t \in Scans \ {s} : phase'[t] = phase[t] /\ wire'[t] = wire[t]
  BY DEF Open
<1> QED
  BY <1>1, <1>4, <1>5, OneScanMoves

LEMMA PullCoherent ==
    ASSUME Inv, TypeOK', NEW s \in Scans, Pull(s)
    PROVE  ScansCoherent'
<1> USE DEF Inv, TypeOK
<1>1. /\ phase[s] = "ready" /\ phase'[s] = "pulling"
      /\ wire'[s] = Msg("pull", <<>>, held[s])
      /\ UNCHANGED <<call, held, live, got, made, now, served>>
  BY DEF Pull
<1>2. wire'[s].kind = "pull" /\ wire'[s].rows = <<>> /\ wire'[s].st = held[s]
  BY <1>1 DEF Msg
<1>3. ScanCoherent(s) /\ wire[s].kind = "none"
  BY <1>1 DEF ScansCoherent, ScanCoherent, ExchangeFitsPhase
<1>4. ScanCoherent(s)'
  <2>1. ExchangeFitsPhase(s)'
    BY <1>1, <1>2 DEF ExchangeFitsPhase
  <2>2. GotIsPrefix(s)'
    BY <1>1, <1>3 DEF ScanCoherent, GotIsPrefix
  <2>3. BatchIsNextSlice(s)' /\ EndFits(s)'
    BY <1>1, <1>2 DEF BatchIsNextSlice, EndFits
  <2>4. CursorFits(s)'
    BY <1>1, <1>2, <1>3 DEF ScanCoherent, CursorFits, Cursor
  <2>5. TokenFits(s)'
    BY <1>1, <1>2, <1>3 DEF ScanCoherent, TokenFits
  <2>6. MadeIsReading(s)'
    BY <1>1, <1>3 DEF ScanCoherent, MadeIsReading, Readings
  <2> QED
    BY <2>1, <2>2, <2>3, <2>4, <2>5, <2>6 DEF ScanCoherent
<1>5. \A t \in Scans \ {s} : phase'[t] = phase[t] /\ wire'[t] = wire[t]
  BY DEF Pull
<1> QED
  BY <1>1, <1>4, <1>5, OneScanMoves

\* The rows received so far and the slice that follows make a longer prefix.
LEMMA PrefixGrows ==
    ASSUME NEW m \in Seq(Row), NEW g \in Seq(Row), NEW e \in Nat,
           IsPrefixOf(g, m), Len(g) <= e, e <= Len(m)
    PROVE  /\ IsPrefixOf(g \o SubSeq(m, Len(g) + 1, e), m)
           /\ Len(g \o SubSeq(m, Len(g) + 1, e)) = e
<1> DEFINE h == SubSeq(m, Len(g) + 1, e)
<1>1. Len(g) \in Nat /\ Len(m) \in Nat
  OBVIOUS
<1>2. h \in Seq(Row) /\ Len(h) = e - Len(g) /\ \A i \in 1..Len(h) : h[i] = m[Len(g) + i]
  BY <1>1
<1>3. g \o h \in Seq(Row) /\ Len(g \o h) = e
  BY <1>1, <1>2
<1>4. \A i \in 1..Len(g) : g[i] = m[i]
  BY <1>1 DEF IsPrefixOf
<1>5. SubSeq(m, 1, e) \in Seq(Row) /\ Len(SubSeq(m, 1, e)) = e
  BY <1>1
<1>6. \A i \in 1..e : (g \o h)[i] = SubSeq(m, 1, e)[i]
  BY <1>1, <1>2, <1>4
<1> HIDE DEF h
<1>7. g \o h = SubSeq(m, 1, e)
  BY <1>3, <1>5, <1>6, SeqEqual
<1> QED
  BY <1>3, <1>7 DEF IsPrefixOf, h

LEMMA ReceiveCoherent ==
    ASSUME Inv, TypeOK', NEW s \in Scans, Receive(s)
    PROVE  ScansCoherent'
<1> USE DEF Inv, TypeOK
<1>1. /\ wire[s].kind \in Responses
      /\ phase'[s] = AnsweredPhase[wire[s].kind]
      /\ got'[s] = got[s] \o wire[s].rows
      /\ held'[s] = wire[s].st
      /\ wire'[s] = Signal("none")
      /\ UNCHANGED <<call, live, made, now, served>>
  BY DEF Receive
<1>2. wire'[s].kind = "none" /\ wire'[s].rows = <<>>
  BY <1>1 DEF Signal, Msg
<1>3. ScanCoherent(s)
  BY DEF ScansCoherent
<1>4. /\ got[s] \in Seq(Row) /\ made[s] \in Seq(Row) /\ Len(got[s]) \in Nat /\ Len(made[s]) \in Nat
      /\ RowsPerTick \in Nat \ {0}
  BY BoundsAssumption
<1>5. /\ wire[s].kind = "opened" => phase[s] = "opening" /\ phase'[s] = "ready"
      /\ wire[s].kind = "batch"  => phase[s] = "pulling" /\ phase'[s] = "ready"
      /\ wire[s].kind = "finish" => phase[s] = "pulling" /\ phase'[s] = "done"
      /\ wire[s].kind = "error"  => phase[s] = "opening" /\ phase'[s] = "failed"
  BY <1>1, <1>3 DEF ScanCoherent, ExchangeFitsPhase, Responses, AnsweredPhase
<1>6. wire[s].kind # "batch" => got'[s] = got[s]
  BY <1>1, <1>3, <1>4 DEF ScanCoherent, ExchangeFitsPhase
<1>7. wire[s].kind = "batch" => Len(got'[s]) = SliceEnd(s, Len(got[s])) /\ IsPrefixOf(got'[s], made[s])
  <2> SUFFICES ASSUME wire[s].kind = "batch" PROVE Len(got'[s]) = SliceEnd(s, Len(got[s])) /\ IsPrefixOf(got'[s], made[s])
    OBVIOUS
  <2> DEFINE e == SliceEnd(s, Len(got[s]))
  <2>1. /\ wire[s].rows = SubSeq(made[s], Len(got[s]) + 1, e)
        /\ IsPrefixOf(got[s], made[s]) /\ Len(got[s]) < Len(made[s])
    BY <1>3 DEF ScanCoherent, BatchIsNextSlice, GotIsPrefix
  <2>2. e \in Nat /\ Len(got[s]) <= e /\ e <= Len(made[s])
    BY <1>4, <2>1 DEF SliceEnd
  <2> HIDE DEF e
  <2>3. /\ IsPrefixOf(got[s] \o SubSeq(made[s], Len(got[s]) + 1, e), made[s])
        /\ Len(got[s] \o SubSeq(made[s], Len(got[s]) + 1, e)) = e
    BY <1>4, <2>1, <2>2, PrefixGrows
  <2> QED
    BY <1>1, <2>1, <2>3 DEF e
<1>8. ScanCoherent(s)'
  <2>1. ExchangeFitsPhase(s)'
    BY <1>1, <1>2, <1>5 DEF ExchangeFitsPhase, Responses
  <2>2. GotIsPrefix(s)'
    BY <1>1, <1>3, <1>6, <1>7 DEF ScanCoherent, GotIsPrefix
  <2>3. BatchIsNextSlice(s)'
    BY <1>2 DEF BatchIsNextSlice
  <2>4. phase'[s] = "ready" => /\ Cursor(s).rows = made[s]
                              /\ Cursor(s).offset = Len(got'[s])
                              /\ Cursor(s)' = Cursor(s)
    BY <1>1, <1>2, <1>3, <1>5, <1>6, <1>7
    DEF ScanCoherent, CursorFits, Cursor, Responses
  <2>5. CursorFits(s)'
    BY <1>1, <1>2, <1>5, <2>4 DEF CursorFits, Responses
  <2>6. TokenFits(s)'
    BY <1>1, <1>2, <1>5, <2>4 DEF TokenFits, Cursor, Responses
  <2>7. EndFits(s)'
    BY <1>1, <1>2, <1>3, <1>5, <1>6 DEF ScanCoherent, EndFits, Responses
  <2>8. MadeIsReading(s)'
    BY <1>1, <1>3 DEF ScanCoherent, MadeIsReading, Readings
  <2> QED
    BY <2>1, <2>2, <2>3, <2>5, <2>6, <2>7, <2>8 DEF ScanCoherent
<1>9. \A t \in Scans \ {s} : /\ phase'[t] = phase[t] /\ wire'[t] = wire[t]
                             /\ held'[t] = held[t] /\ got'[t] = got[t]
  BY DEF Receive
<1> QED
  BY <1>1, <1>8, <1>9, OneScanMoves

LEMMA ServeOpenCoherent ==
    ASSUME Inv, TypeOK', NEW s \in Scans, ServeOpen(s)
    PROVE  ScansCoherent'
<1> USE DEF Inv, TypeOK
<1>1. PICK r \in NewState(call[s], now, served) :
        LET st == GobRoundTrip([rows |-> r.rows, offset |-> 0])
        IN  IF r.err
            THEN /\ wire' = [wire EXCEPT ![s] = Signal("error")]
                 /\ UNCHANGED <<live, made>>
            ELSE /\ wire' = [wire EXCEPT ![s] = Msg("opened", <<>>, Token(st))]
                 /\ live' = [live EXCEPT ![s] = IF Stateless THEN @ ELSE st]
                 /\ made' = [made EXCEPT ![s] = r.rows]
  BY DEF ServeOpen
<1> DEFINE st == [rows |-> r.rows, offset |-> 0]
<1>2. r.err \in BOOLEAN /\ r.rows \in Seq(Row)
  <2>1. call[s] \in Calls /\ served \in Chains
    OBVIOUS
  <2> QED
    BY <2>1, NewStateType
<1>3. st.rows = r.rows /\ st.offset = 0 /\ st \in State
  BY <1>2 DEF State
<1> HIDE DEF st
<1>4. GobRoundTrip(st) = st /\ (Stateless => Token(st) = st)
  BY <1>3, GobRoundTripIsIdentity, TokenFact
<1>5. /\ wire[s].kind = "open" /\ UNCHANGED <<call, phase, held, got, now, served>>
  BY DEF ServeOpen
<1>6. ScanCoherent(s) /\ phase[s] = "opening" /\ got[s] = <<>>
  <2>1. ScanCoherent(s)
    BY DEF ScansCoherent
  <2> QED
    BY <1>5, <2>1 DEF ScanCoherent, ExchangeFitsPhase
<1>7. CASE r.err
  <2>1. /\ wire'[s] = Signal("error") /\ UNCHANGED <<live, made>>
        /\ \A t \in Scans \ {s} : wire'[t] = wire[t]
    BY <1>1, <1>7
  <2>2. wire'[s].kind = "error" /\ wire'[s].rows = <<>>
    BY <2>1 DEF Signal, Msg
  <2>3. ScanCoherent(s)'
    BY <1>5, <1>6, <2>1, <2>2
    DEF ScanCoherent, ExchangeFitsPhase, GotIsPrefix, BatchIsNextSlice, CursorFits,
        TokenFits, EndFits, MadeIsReading, Readings
  <2> QED
    BY <1>5, <2>1, <2>3, OneScanMoves
<1>8. CASE ~r.err
  <2>1. /\ wire' = [wire EXCEPT ![s] = Msg("opened", <<>>, Token(st))]
        /\ live' = [live EXCEPT ![s] = IF Stateless THEN @ ELSE st]
        /\ made' = [made EXCEPT ![s] = r.rows]
    BY <1>1, <1>4, <1>8, Zenon DEF st
  <2>2. /\ wire'[s].kind = "opened" /\ wire'[s].rows = <<>> /\ wire'[s].st = Token(st)
        /\ made'[s] = r.rows /\ (~Stateless => live'[s] = st)
    BY <2>1 DEF Msg
  <2>3. GotIsPrefix(s)'
    BY <1>2, <1>5, <1>6, <2>2 DEF GotIsPrefix, IsPrefixOf
  <2>4. CursorFits(s)'
    BY <1>3, <1>4, <1>5, <1>6, <2>2 DEF CursorFits, Cursor
  <2>5. MadeIsReading(s)'
    <3>1. r \in Readings(call[s])
      BY NewReading
    <3>2. r \in Readings(call[s])'
      BY <1>5, <3>1 DEF Readings
    <3> QED
      BY <2>2, <3>2 DEF MadeIsReading
  <2>6. ExchangeFitsPhase(s)' /\ BatchIsNextSlice(s)' /\ TokenFits(s)' /\ EndFits(s)'
    BY <1>5, <1>6, <2>2 DEF ExchangeFitsPhase, BatchIsNextSlice, TokenFits, EndFits
  <2>7. \A t \in Scans \ {s} : wire'[t] = wire[t] /\ live'[t] = live[t] /\ made'[t] = made[t]
    BY <2>1
  <2> QED
    BY <1>5, <2>3, <2>4, <2>5, <2>6, <2>7, OneScanMoves DEF ScanCoherent
<1> QED
  BY <1>2, <1>7, <1>8

LEMMA ServePullCoherent ==
    ASSUME Inv, TypeOK', NEW s \in Scans, ServePull(s)
    PROVE  ScansCoherent'
<1> USE DEF Inv, TypeOK
<1> DEFINE st == IF Stateless THEN wire[s].st ELSE live[s]
           p  == Process(st)
<1>1. /\ wire[s].kind = "pull" /\ UNCHANGED <<call, phase, held, got, made, now, served>>
      /\ wire'[s] = IF p.done THEN Signal("finish") ELSE Msg("batch", p.rows, Token(p.atEmit))
      /\ ~Stateless => live'[s] = p.after
      /\ \A t \in Scans \ {s} : wire'[t] = wire[t] /\ live'[t] = live[t]
  BY DEF ServePull
<1>2. ScanCoherent(s) /\ phase[s] = "pulling"
  <2>1. ScanCoherent(s)
    BY DEF ScansCoherent
  <2> QED
    BY <1>1, <2>1 DEF ScanCoherent, ExchangeFitsPhase
<1>3. /\ got[s] \in Seq(Row) /\ made[s] \in Seq(Row) /\ Len(got[s]) \in Nat /\ Len(made[s]) \in Nat
      /\ RowsPerTick \in Nat \ {0}
  BY BoundsAssumption
<1>4. IsPrefixOf(got[s], made[s]) /\ Len(got[s]) <= Len(made[s])
  BY <1>2 DEF ScanCoherent, GotIsPrefix, IsPrefixOf
<1>5. st \in State /\ st.rows = made[s] /\ st.offset = Len(got[s])
  <2>1. CursorFits(s) /\ TokenFits(s)
    BY <1>2 DEF ScanCoherent
  <2>2. wire[s].st \in State /\ live[s] \in State
    BY DEF Exchange
  <2>3. CASE Stateless
    BY <1>1, <1>2, <2>1, <2>2, <2>3 DEF TokenFits
  <2>4. CASE ~Stateless
    BY <1>1, <1>2, <2>1, <2>2, <2>4 DEF CursorFits, Cursor
  <2> QED
    BY <2>3, <2>4
<1> HIDE DEF st
<1>6. /\ p.done <=> Len(got[s]) = Len(made[s])
      /\ p.rows \in Seq(Row) /\ p.atEmit = p.after /\ p.after \in State
      /\ p.after.rows = made[s]
      /\ p.done => p.after.offset = Len(got[s])
      /\ ~p.done => /\ p.after.offset = SliceEnd(s, Len(got[s]))
                    /\ p.rows = SubSeq(made[s], Len(got[s]) + 1, SliceEnd(s, Len(got[s])))
  <2>1. st.offset <= Len(st.rows)
    BY <1>4, <1>5
  <2>2. /\ p.done <=> st.offset = Len(st.rows)
        /\ p.rows \in Seq(Row) /\ p.atEmit = p.after /\ p.after \in State
        /\ p.after.rows = st.rows
        /\ p.done => p.after.offset = st.offset
        /\ ~p.done =>
             /\ p.rows = SubSeq(st.rows, st.offset + 1, p.after.offset)
             /\ p.after.offset = IF st.offset + RowsPerTick > Len(st.rows)
                                 THEN Len(st.rows) ELSE st.offset + RowsPerTick
    BY <1>5, <2>1, ProcessFact, Zenon
  <2> HIDE DEF p
  <2> QED
    BY <1>5, <2>2, Zenon DEF SliceEnd
<1> HIDE DEF p
<1>7. CASE p.done
  <2>1. wire'[s].kind = "finish" /\ wire'[s].rows = <<>>
    BY <1>1, <1>7 DEF Signal, Msg
  <2>2. got[s] = made[s]
    BY <1>3, <1>4, <1>6, <1>7 DEF IsPrefixOf
  <2>3. CursorFits(s)'
    BY <1>1, <1>2, <1>6, <1>7, <2>1 DEF ScanCoherent, CursorFits, Cursor, TokenFits
  <2>4. ExchangeFitsPhase(s)' /\ BatchIsNextSlice(s)' /\ EndFits(s)'
    BY <1>1, <1>2, <2>1, <2>2 DEF ExchangeFitsPhase, BatchIsNextSlice, EndFits
  <2>5. GotIsPrefix(s)' /\ TokenFits(s)' /\ MadeIsReading(s)'
    BY <1>1, <1>2, <2>1 DEF ScanCoherent, GotIsPrefix, TokenFits, MadeIsReading, Readings
  <2>6. ScanCoherent(s)'
    BY <2>3, <2>4, <2>5 DEF ScanCoherent
  <2> QED
    BY <1>1, <2>6, OneScanMoves
<1>8. CASE ~p.done
  <2>1. /\ wire'[s].kind = "batch" /\ wire'[s].rows = p.rows
        /\ Stateless => wire'[s].st = p.after
    BY <1>1, <1>6, <1>8, TokenFact DEF Msg
  <2>2. CursorFits(s)'
    <3>1. Cursor(s)' = p.after
      BY <1>1, <2>1 DEF Cursor
    <3>2. made'[s] = made[s] /\ SliceEnd(s, Len(got[s]))' = SliceEnd(s, Len(got[s]))
      BY <1>1 DEF SliceEnd
    <3> QED
      BY <1>6, <1>8, <2>1, <3>1, <3>2 DEF CursorFits
  <2>3. BatchIsNextSlice(s)'
    <3>1. /\ made'[s] = made[s] /\ got'[s] = got[s]
          /\ SliceEnd(s, Len(got[s]))' = SliceEnd(s, Len(got[s]))
      BY <1>1 DEF SliceEnd
    <3>2. Len(got[s]) < Len(made[s])
      BY <1>3, <1>4, <1>6, <1>8
    <3> QED
      BY <1>6, <1>8, <2>1, <3>1, <3>2 DEF BatchIsNextSlice
  <2>4. ExchangeFitsPhase(s)' /\ EndFits(s)'
    BY <1>1, <1>2, <2>1 DEF ExchangeFitsPhase, EndFits
  <2>5. GotIsPrefix(s)' /\ TokenFits(s)' /\ MadeIsReading(s)'
    BY <1>1, <1>2, <2>1 DEF ScanCoherent, GotIsPrefix, TokenFits, MadeIsReading, Readings
  <2>6. ScanCoherent(s)'
    BY <2>2, <2>3, <2>4, <2>5 DEF ScanCoherent
  <2> QED
    BY <1>1, <2>6, OneScanMoves
<1> QED
  BY <1>7, <1>8

LEMMA LoseCoherent ==
    ASSUME Inv, TypeOK', NEW s \in Scans, Lose(s)
    PROVE  ScansCoherent'
<1> USE DEF Inv, TypeOK
<1>1. /\ Stateless /\ wire[s].kind \in Requests \cup Responses /\ wire'[s] = Signal("lost")
      /\ UNCHANGED <<call, phase, held, live, got, made, now, served>>
      /\ \A t \in Scans \ {s} : wire'[t] = wire[t]
  BY DEF Lose
<1>2. wire'[s].kind = "lost" /\ wire'[s].rows = <<>>
  BY <1>1 DEF Signal, Msg
<1>3. ScanCoherent(s) /\ phase[s] \in {"opening", "pulling"}
  <2>1. ScanCoherent(s)
    BY DEF ScansCoherent
  <2> QED
    BY <1>1, <2>1 DEF ScanCoherent, ExchangeFitsPhase, Requests, Responses
<1>4. CursorFits(s)'
  BY <1>1, <1>2, <1>3 DEF ScanCoherent, CursorFits, Cursor, TokenFits
<1>5. ExchangeFitsPhase(s)' /\ BatchIsNextSlice(s)' /\ EndFits(s)'
  BY <1>1, <1>2, <1>3 DEF ScanCoherent, ExchangeFitsPhase, BatchIsNextSlice, EndFits
<1>6. GotIsPrefix(s)' /\ TokenFits(s)' /\ MadeIsReading(s)'
  BY <1>1, <1>2, <1>3 DEF ScanCoherent, GotIsPrefix, TokenFits, MadeIsReading, Readings
<1>7. ScanCoherent(s)'
  BY <1>4, <1>5, <1>6 DEF ScanCoherent
<1> QED
  BY <1>1, <1>7, OneScanMoves

LEMMA ResendCoherent ==
    ASSUME Inv, TypeOK', NEW s \in Scans, Resend(s)
    PROVE  ScansCoherent'
<1> USE DEF Inv, TypeOK
<1>1. /\ wire[s].kind = "lost"
      /\ wire'[s] = IF phase[s] = "opening" THEN Signal("open") ELSE Msg("pull", <<>>, held[s])
      /\ UNCHANGED <<call, phase, held, live, got, made, now, served>>
      /\ \A t \in Scans \ {s} : wire'[t] = wire[t]
  BY DEF Resend
<1>2. ScanCoherent(s) /\ phase[s] \in {"opening", "pulling"}
  <2>1. ScanCoherent(s)
    BY DEF ScansCoherent
  <2> QED
    BY <1>1, <2>1 DEF ScanCoherent, ExchangeFitsPhase
<1>3. /\ wire'[s].rows = <<>>
      /\ phase[s] = "opening" => wire'[s].kind = "open"
      /\ phase[s] = "pulling" => wire'[s].kind = "pull" /\ wire'[s].st = held[s]
  BY <1>1, <1>2 DEF Signal, Msg
<1>4. CursorFits(s)'
  BY <1>1, <1>2, <1>3 DEF ScanCoherent, CursorFits, Cursor
<1>5. ScanCoherent(s)'
  BY <1>1, <1>2, <1>3, <1>4
  DEF ScanCoherent, ExchangeFitsPhase, GotIsPrefix, BatchIsNextSlice, TokenFits,
      EndFits, MadeIsReading, Readings
<1> QED
  BY <1>1, <1>5, OneScanMoves

LEMMA GiveUpCoherent ==
    ASSUME Inv, TypeOK', NEW s \in Scans, GiveUp(s)
    PROVE  ScansCoherent'
<1> USE DEF Inv, TypeOK
<1>1. /\ phase'[s] = "failed" /\ wire'[s] = Signal("none")
      /\ UNCHANGED <<call, held, live, got, made, now, served>>
      /\ \A t \in Scans \ {s} : phase'[t] = phase[t] /\ wire'[t] = wire[t]
  BY DEF GiveUp
<1>2. wire'[s].kind = "none" /\ wire'[s].rows = <<>> /\ ScanCoherent(s)
  BY <1>1 DEF Signal, Msg, ScansCoherent
<1>3. ScanCoherent(s)'
  BY <1>1, <1>2
  DEF ScanCoherent, ExchangeFitsPhase, GotIsPrefix, BatchIsNextSlice, CursorFits,
      TokenFits, EndFits, MadeIsReading, Readings
<1> QED
  BY <1>1, <1>3, OneScanMoves

LEMMA CrashCoherent ==
    ASSUME Inv, TypeOK', Crash
    PROVE  ScansCoherent'
<1> USE DEF Inv, TypeOK
<1> SUFFICES ASSUME NEW s \in Scans PROVE ScanCoherent(s)'
  BY DEF ScansCoherent
<1>1. /\ ~Stateless /\ wire'[s] = Signal("none")
      /\ phase'[s] = IF s \in Running THEN "failed" ELSE phase[s]
      /\ UNCHANGED <<call, held, got, made, now, served>>
  BY DEF Crash
<1>2. /\ wire'[s].kind = "none" /\ wire'[s].rows = <<>> /\ ScanCoherent(s)
      /\ phase'[s] \in {"idle", "done", "failed"}
      /\ phase'[s] \in {"idle", "done"} => phase'[s] = phase[s]
  BY <1>1 DEF Signal, Msg, ScansCoherent, Running
<1> QED
  BY <1>1, <1>2
  DEF ScanCoherent, ExchangeFitsPhase, GotIsPrefix, BatchIsNextSlice, CursorFits,
      TokenFits, EndFits, MadeIsReading, Readings

\* Rotate, ClockTick and stuttering leave every scan alone.
LEMMA WorldCoherent ==
    ASSUME Inv, TypeOK', UNCHANGED scanVars, now <= now'
    PROVE  ScansCoherent'
<1> SUFFICES ASSUME NEW t \in Scans PROVE ScanCoherent(t)'
  BY DEF ScansCoherent
<1> QED
  BY CoherentFrame DEF Inv, ScansCoherent, scanVars

LEMMA InvStep == Inv /\ [Next]_vars => Inv'
<1> SUFFICES ASSUME Inv, [Next]_vars PROVE Inv'
  OBVIOUS
<1>1. TypeOK'
  BY TypeStep DEF Inv
<1>2. now \in Nat
  BY BoundsAssumption DEF Inv, TypeOK
<1>3. ScansCoherent'
  <2>1. ASSUME NEW s \in Scans, Open(s) PROVE ScansCoherent'
    BY <1>1, <2>1, OpenCoherent
  <2>2. ASSUME NEW s \in Scans, Pull(s) PROVE ScansCoherent'
    BY <1>1, <2>2, PullCoherent
  <2>3. ASSUME NEW s \in Scans, Receive(s) PROVE ScansCoherent'
    BY <1>1, <2>3, ReceiveCoherent
  <2>4. ASSUME NEW s \in Scans, ServeOpen(s) PROVE ScansCoherent'
    BY <1>1, <2>4, ServeOpenCoherent
  <2>5. ASSUME NEW s \in Scans, ServePull(s) PROVE ScansCoherent'
    BY <1>1, <2>5, ServePullCoherent
  <2>6. ASSUME NEW s \in Scans, Lose(s) PROVE ScansCoherent'
    BY <1>1, <2>6, LoseCoherent
  <2>7. ASSUME NEW s \in Scans, Resend(s) PROVE ScansCoherent'
    BY <1>1, <2>7, ResendCoherent
  <2>8. ASSUME NEW s \in Scans, GiveUp(s) PROVE ScansCoherent'
    BY <1>1, <2>8, GiveUpCoherent
  <2>9. CASE Crash
    BY <1>1, <2>9, CrashCoherent
  <2>10. CASE Rotate
    BY <1>1, <1>2, <2>10, WorldCoherent DEF Rotate
  <2>11. CASE ClockTick
    BY <1>1, <1>2, <2>11, WorldCoherent DEF ClockTick
  <2>12. CASE UNCHANGED vars
    BY <1>1, <1>2, <2>12, WorldCoherent DEF vars
  <2> QED
    BY <2>1, <2>2, <2>3, <2>4, <2>5, <2>6, <2>7, <2>8, <2>9, <2>10, <2>11, <2>12
    DEF Next
<1> QED
  BY <1>1, <1>3 DEF Inv

LEMMA InvHolds == Spec => []Inv
<1>1. Init => Inv
  BY TypeInit, CoherentInit DEF Inv
<1> QED
  BY <1>1, InvStep, PTL DEF Spec

\* Whatever is in flight, held or lost, each scan's cursor stands for the rows
\* its client has or is about to get.
THEOREM ScansStayCoherent == Spec => []ScansCoherent
<1>1. Inv => ScansCoherent
  BY DEF Inv
<1> QED
  BY <1>1, InvHolds, PTL

\* The rows of a scan all come from one reading of its source, in order.
THEOREM ScansAreNotTorn == Spec => []NoTornScan
<1>1. Inv => NoTornScan
  <2> SUFFICES ASSUME Inv, NEW s \in Scans, got[s] # <<>>
               PROVE  \E r \in Readings(call[s]) : IsPrefixOf(got[s], r.rows)
    BY DEF NoTornScan
  <2>1. GotIsPrefix(s) /\ MadeIsReading(s)
    BY DEF Inv, ScansCoherent, ScanCoherent
  <2>2. got[s] \in Seq(Row) /\ made[s] \in Seq(Row)
    BY DEF Inv, TypeOK
  <2>3. made[s] # <<>>
    BY <2>1, <2>2 DEF GotIsPrefix, IsPrefixOf
  <2> QED
    BY <2>1, <2>3 DEF GotIsPrefix, MadeIsReading
<1> QED
  BY <1>1, InvHolds, PTL

\* A scan that ends without an error has given every row of its snapshot.
THEOREM ScansEndComplete == Spec => []DoneIsComplete
<1>1. Inv => DoneIsComplete
  BY DEF Inv, ScansCoherent, ScanCoherent, EndFits, DoneIsComplete
<1> QED
  BY <1>1, InvHolds, PTL

\* The token a client would send again stands for exactly the rows it has.
THEOREM TokensMatchRows == Spec => []TokenMatchesRows
<1>1. Inv => TokenMatchesRows
  BY DEF Inv, ScansCoherent, ScanCoherent, TokenFits, TokenMatchesRows
<1> QED
  BY <1>1, InvHolds, PTL

----------------------------------------------------------------------------
(* The refinement: every step of a scan is a step of the promise, or none. *)

LEMMA PromiseInit == Init => Promise!Init
<1> SUFFICES ASSUME Init PROVE Promise!Init
  OBVIOUS
<1>1. Status = [s \in Scans |-> "new"]
  BY DEF Init, Status
<1> QED
  BY <1>1 DEF Init, Promise!Init

\* A step that changes neither the phase nor the rows is none.
LEMMA PromiseStutter ==
    ASSUME phase' = phase, got' = got, made' = made
    PROVE  UNCHANGED Promise!vars
  BY DEF Promise!vars, Status

LEMMA PromiseReceive ==
    ASSUME Inv, NEW s \in Scans, Receive(s)
    PROVE  Promise!Next
<1> USE DEF Inv, TypeOK
<1>1. /\ wire[s].kind \in Responses
      /\ phase' = [phase EXCEPT ![s] = AnsweredPhase[wire[s].kind]]
      /\ got' = [got EXCEPT ![s] = @ \o wire[s].rows]
      /\ made' = made
  BY DEF Receive
<1>2. ScanCoherent(s)
  BY DEF ScansCoherent
<1>3. got[s] \in Seq(Row) /\ made[s] \in Seq(Row)
  OBVIOUS
<1>4. wire[s].kind # "batch" => got' = got
  BY <1>1, <1>2, <1>3 DEF ScanCoherent, ExchangeFitsPhase
<1>5. CASE wire[s].kind = "opened"
  <2>1. phase[s] = "opening" /\ phase' = [phase EXCEPT ![s] = "ready"]
    BY <1>1, <1>2, <1>5 DEF ScanCoherent, ExchangeFitsPhase, AnsweredPhase
  <2>2. Status[s] = "new" /\ Status' = [Status EXCEPT ![s] = "streaming"]
    BY <2>1 DEF Status
  <2>3. Promise!Start(s)
    BY <1>1, <1>4, <1>5, <2>2 DEF Promise!Start
  <2> QED
    BY <2>3 DEF Promise!Next
<1>6. CASE wire[s].kind = "batch"
  <2>1. phase[s] = "pulling" /\ phase' = [phase EXCEPT ![s] = "ready"]
    BY <1>1, <1>2, <1>6 DEF ScanCoherent, ExchangeFitsPhase, AnsweredPhase
  <2>2. Status[s] = "streaming" /\ Status' = Status
    BY <2>1 DEF Status
  <2>3. /\ Len(got[s]) < Len(made[s])
        /\ wire[s].rows = SubSeq(made[s], Len(got[s]) + 1, SliceEnd(s, Len(got[s])))
    BY <1>2, <1>6 DEF ScanCoherent, BatchIsNextSlice
  <2>4. got[s] # made[s]
    BY <1>3, <2>3
  <2>5. wire[s].rows = Promise!Chunk(s)
    BY <2>3 DEF Promise!Chunk, SliceEnd
  <2>6. Promise!Deliver(s)
    BY <1>1, <2>2, <2>4, <2>5 DEF Promise!Deliver
  <2> QED
    BY <2>6 DEF Promise!Next
<1>7. CASE wire[s].kind = "finish"
  <2>1. phase[s] = "pulling" /\ phase' = [phase EXCEPT ![s] = "done"]
    BY <1>1, <1>2, <1>7 DEF ScanCoherent, ExchangeFitsPhase, AnsweredPhase
  <2>2. Status[s] = "streaming" /\ Status' = [Status EXCEPT ![s] = "done"]
    BY <2>1 DEF Status
  <2>3. got[s] = made[s]
    BY <1>2, <1>7 DEF ScanCoherent, EndFits
  <2>4. Promise!Finish(s)
    BY <1>1, <1>4, <1>7, <2>2, <2>3 DEF Promise!Finish
  <2> QED
    BY <2>4 DEF Promise!Next
<1>8. CASE wire[s].kind = "error"
  <2>1. phase[s] = "opening" /\ phase' = [phase EXCEPT ![s] = "failed"]
    BY <1>1, <1>2, <1>8 DEF ScanCoherent, ExchangeFitsPhase, AnsweredPhase
  <2>2. /\ Status[s] = "new"
        /\ Status' = [t \in Scans |-> IF t \in {s} THEN "failed" ELSE Status[t]]
    BY <2>1 DEF Status
  <2>3. Promise!Fail({s})
    BY <1>1, <1>4, <1>8, <2>2 DEF Promise!Fail
  <2> QED
    BY <2>3 DEF Promise!Next
<1> QED
  BY <1>1, <1>5, <1>6, <1>7, <1>8 DEF Responses

LEMMA PromiseStep == Inv /\ [Next]_vars => [Promise!Next]_Promise!vars
<1> SUFFICES ASSUME Inv, [Next]_vars PROVE [Promise!Next]_Promise!vars
  OBVIOUS
<1> USE DEF Inv, TypeOK
<1>1. ASSUME NEW s \in Scans, Open(s) PROVE UNCHANGED Promise!vars
  <2>1. Status' = Status
    BY <1>1 DEF Open, Status
  <2> QED
    BY <1>1, <2>1 DEF Open, Promise!vars
<1>2. ASSUME NEW s \in Scans, Pull(s) PROVE UNCHANGED Promise!vars
  <2>1. Status' = Status
    BY <1>2 DEF Pull, Status
  <2> QED
    BY <1>2, <2>1 DEF Pull, Promise!vars
<1>3. ASSUME NEW s \in Scans, Receive(s) PROVE Promise!Next
  BY <1>3, PromiseReceive
<1>4. ASSUME NEW s \in Scans, ServeOpen(s) PROVE [Promise!Next]_Promise!vars
  <2>1. phase' = phase /\ got' = got
    BY <1>4 DEF ServeOpen
  <2>2. made' = made \/ made' = [made EXCEPT ![s] = made'[s]]
    BY <1>4 DEF ServeOpen
  <2>3. ScanCoherent(s) /\ phase[s] = "opening"
    BY <1>4 DEF ScansCoherent, ScanCoherent, ExchangeFitsPhase, ServeOpen
  <2>4. CASE made' = made
    BY <2>1, <2>4, PromiseStutter
  <2>5. CASE made' = [made EXCEPT ![s] = made'[s]]
    <3>1. Status[s] = "new" /\ Status' = Status
      BY <2>1, <2>3 DEF Status
    <3>2. Promise!Read(s)
      BY <2>1, <2>5, <3>1 DEF Promise!Read
    <3> QED
      BY <3>2 DEF Promise!Next
  <2> QED
    BY <2>2, <2>4, <2>5
<1>5. ASSUME NEW s \in Scans, ServePull(s) PROVE UNCHANGED Promise!vars
  BY <1>5, PromiseStutter DEF ServePull
<1>6. ASSUME NEW s \in Scans, Lose(s) PROVE UNCHANGED Promise!vars
  BY <1>6, PromiseStutter DEF Lose
<1>7. ASSUME NEW s \in Scans, Resend(s) PROVE UNCHANGED Promise!vars
  BY <1>7, PromiseStutter DEF Resend
<1>8. ASSUME NEW s \in Scans, GiveUp(s) PROVE Promise!Next
  <2>1. phase[s] \in {"opening", "pulling"}
    BY <1>8 DEF ScansCoherent, ScanCoherent, ExchangeFitsPhase, GiveUp
  <2>2. /\ Status[s] \in {"new", "streaming"}
        /\ Status' = [t \in Scans |-> IF t \in {s} THEN "failed" ELSE Status[t]]
    BY <1>8, <2>1 DEF GiveUp, Status
  <2>3. Promise!Fail({s})
    BY <1>8, <2>2 DEF GiveUp, Promise!Fail
  <2> QED
    BY <2>3 DEF Promise!Next
<1>9. CASE Crash
  <2>1. /\ \A t \in Running : Status[t] \in {"new", "streaming"}
        /\ Status' = [t \in Scans |-> IF t \in Running THEN "failed" ELSE Status[t]]
    BY <1>9 DEF Crash, Running, Status
  <2>2. Promise!Fail(Running)
    BY <1>9, <2>1 DEF Crash, Promise!Fail
  <2>3. Running \in SUBSET Scans
    BY DEF Running
  <2> QED
    BY <2>2, <2>3 DEF Promise!Next
<1>10. CASE Rotate
  BY <1>10, PromiseStutter DEF Rotate, scanVars
<1>11. CASE ClockTick
  BY <1>11, PromiseStutter DEF ClockTick, scanVars
<1>12. CASE UNCHANGED vars
  BY <1>12, PromiseStutter DEF vars, scanVars
<1> QED
  BY <1>1, <1>2, <1>3, <1>4, <1>5, <1>6, <1>7, <1>8, <1>9, <1>10, <1>11, <1>12
  DEF Next

\* The scan protocol implements ScanContract, over every transport: through
\* losses, replays and crashes a query is given one frozen source in order.
THEOREM ScansKeepPromise == Spec => KeepsPromise
<1>1. Spec => [][Promise!Next]_Promise!vars
  BY InvHolds, PromiseStep, PTL DEF Spec
<1>2. Spec => Promise!Init
  BY PromiseInit DEF Spec
<1> QED
  BY <1>1, <1>2, PTL DEF KeepsPromise, Promise!Spec
=============================================================================
