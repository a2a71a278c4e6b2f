------------------------- MODULE ScalarBatchProofs -------------------------
(***************************************************************************)
(* Theorems about ScalarBatch, for every family, every column of any       *)
(* length, every certificate and every movement of the clock.              *)
(***************************************************************************)
EXTENDS ScalarBatch, CertificateProofs, SequenceTheorems, TLAPS

\* What the loops keep at each row (functions.go:120-143, 306-334): the error is
\* that of the first bad row so far, the slots of the other rows are in place
\* and none reaches beyond the buffer; and what is returned is the outcome of
\* all rows.
BatchCoherent ==
    /\ IF firstErr = "none" THEN \A k \in 1..i : ~Bad(k)
                            ELSE \E k \in 1..i : FirstBad(k, firstErr)
    /\ \A k \in 1..i : EndAt(out, values, k) <= Len(values)
    /\ \A k \in 1..i : ~Bad(k) => InPlace(out, values, k)
    /\ result.err # "running" =>
          (i = Rows /\ result = Outcome("none")) \/ result = Outcome("map")

\* A new slot and the values w appended with it are those of row k.
IsSlotOf(slot, w, k) ==
    /\ slot.valid = ~col.cells[k].null
    /\ slot.valid =>
          CASE fn = "is_expired" -> \E t \in 0..now : slot.flag = IsExpired(CertOf(k), t)
            [] fn = "is_ca" -> slot.flag = CertOf(k).isCA
            [] fn = "sans"  -> w = CertOf(k).dns \o CertOf(k).ips
            [] OTHER        -> slot.text = Text(CertOf(k))

----------------------------------------------------------------------------
(* One row.                                                                *)

LEMMA ColumnFacts ==
    ASSUME col \in Columns, NEW k \in 1..Rows
    PROVE  /\ Rows \in Nat
           /\ col.cells[k] \in Cell /\ col.cells[k].null \in BOOLEAN
           /\ parseHandle(col.type, col.cells[k]) \in Parsed
           /\ parseHandle(col.type, col.cells[k]).err \in Errors \cup {"none"}
           /\ parseHandle(col.type, col.cells[k]).err = "none" => CertOf(k) \in Cert
<1>1. col.cells \in Seq(Cell)
  BY ColumnsAssumption DEF Column
<1>2. Rows \in Nat /\ col.cells[k] \in Cell
  BY <1>1 DEF Rows
<1>3. col.cells[k].null \in BOOLEAN
  BY <1>2 DEF Cell
<1> DEFINE h == parseHandle(col.type, col.cells[k])
<1>4. h \in Parsed
  BY <1>2, parseHandleType
<1> HIDE DEF h
<1>5. h.err \in Errors \cup {"none"} /\ (h.err = "none" => h.cert \in Cert)
  BY <1>4 DEF Parsed, Errors
<1> QED
  BY <1>2, <1>3, <1>4, <1>5 DEF h, CertOf

LEMMA EmptySlots ==
    ASSUME values \in Seq(Texts)
    PROVE  /\ NullSlot \in Slot /\ NullSlot.at = Len(values) /\ NullSlot.valid = FALSE
           /\ Placeholder \in Slot /\ Placeholder.at = Len(values)
           /\ Placeholder.valid = TRUE
<1>1. Len(values) \in Nat
  OBVIOUS
<1> QED
  BY <1>1 DEF Placeholder, NullSlot, Slot

LEMMA SlotTypes ==
    ASSUME fn \in Families, now \in Nat, values \in Seq(Texts), NEW c \in Cert
    PROVE  /\ Value(c) \in Slot /\ Value(c).at = Len(values) /\ Value(c).valid = TRUE
           /\ fn = "is_expired" => Value(c).flag = IsExpired(c, now)
           /\ fn = "is_ca" => Value(c).flag = c.isCA
           /\ fn \in {"string", "timestamp"} => Value(c).text = Text(c)
           /\ SANs(c) \in Seq(Texts) /\ SANs(c) = c.dns \o c.ips
<1>1. Len(values) \in Nat
  OBVIOUS
<1>3. Placeholder \in Slot /\ Placeholder.at = Len(values) /\ Placeholder.valid = TRUE
  BY EmptySlots
<1>4. /\ c.dns \in Seq(Texts) /\ c.ips \in Seq(Texts) /\ c.isCA \in BOOLEAN
      /\ Text(c) \in Texts /\ IsExpired(c, now) \in BOOLEAN
  BY DEF Cert, Text, IsExpired
<1>5. SANs(c) \in Seq(Texts) /\ SANs(c) = c.dns \o c.ips
  BY <1>4, ConcatProperties DEF SANs
<1> HIDE DEF Placeholder
<1>6. CASE fn = "is_expired"
  BY <1>3, <1>4, <1>5, <1>6 DEF Value, Slot
<1>7. CASE fn = "is_ca"
  BY <1>3, <1>4, <1>5, <1>7 DEF Value, Slot
<1>8. CASE fn = "sans"
  BY <1>3, <1>4, <1>5, <1>8 DEF Value, Slot
<1>9. CASE fn \in {"string", "timestamp"}
  BY <1>3, <1>4, <1>5, <1>9 DEF Value, Slot
<1> QED
  BY <1>6, <1>7, <1>8, <1>9 DEF Families

\* Each row appends one slot, which begins where the child buffer ends, and the
\* row's values; those of a row that is not bad are its own.
LEMMA RowAppends ==
    ASSUME TypeOK, NullRow \/ BadRow \/ GoodRow
    PROVE  /\ i < Rows /\ i' = i + 1 /\ result.err = "running"
           /\ UNCHANGED <<fn, col, result, now>>
           /\ \E slot \in Slot, w \in Seq(Texts) :
                 /\ out' = Append(out, slot) /\ slot.at = Len(values)
                 /\ values' = values \o w
                 /\ ~Bad(i + 1) => IsSlotOf(slot, w, i + 1)
<1> USE DEF TypeOK
<1> DEFINE k == i + 1
<1>1. /\ i < Rows /\ i' = i + 1 /\ result.err = "running"
      /\ UNCHANGED <<fn, col, result, now>>
  BY DEF NullRow, BadRow, GoodRow, NextRow
<1>2. k \in 1..Rows /\ now \in Nat
  BY <1>1, ClockAssumption DEF Rows
<1>3. <<>> \in Seq(Texts) /\ values \o <<>> = values
  BY ConcatEmptySeq
<1>4. /\ Row1Cell = col.cells[k] /\ Handle = parseHandle(col.type, col.cells[k])
      /\ Handle.cert = CertOf(k)
  BY DEF Row1Cell, Handle, CertOf
<1>5. /\ Row1Cell.null \in BOOLEAN
      /\ Handle.err = "none" => CertOf(k) \in Cert
  BY <1>2, <1>4, ColumnFacts
<1>6. CASE NullRow
  <2>1. NullSlot \in Slot /\ NullSlot.at = Len(values) /\ NullSlot.valid = FALSE
    BY EmptySlots
  <2>2. IsSlotOf(NullSlot, <<>>, k)
    BY <1>4, <1>6, <2>1 DEF NullRow, IsSlotOf
  <2>3. out' = Append(out, NullSlot) /\ values' = values
    BY <1>6 DEF NullRow
  <2> QED
    BY <1>1, <1>3, <2>1, <2>2, <2>3
<1>7. CASE BadRow
  <2> DEFINE slot == IF fn \in {"timestamp", "sans"} THEN NullSlot ELSE Placeholder
  <2>1. slot \in Slot /\ slot.at = Len(values)
    BY EmptySlots
  <2>2. Bad(k)
    BY <1>4, <1>7 DEF BadRow, Bad
  <2>3. out' = Append(out, slot) /\ values' = values
    BY <1>7 DEF BadRow
  <2> QED
    BY <1>1, <1>3, <2>1, <2>2, <2>3
<1>8. CASE GoodRow
  <2> DEFINE c == CertOf(k)
             w == IF fn = "sans" THEN SANs(c) ELSE <<>>
  <2>1. c \in Cert /\ ~Row1Cell.null
    BY <1>5, <1>8 DEF GoodRow
  <2>2. out' = Append(out, Value(c)) /\ values' = values \o w
    BY <1>3, <1>4, <1>8 DEF GoodRow
  <2> HIDE DEF c
  <2>3. w \in Seq(Texts) /\ Value(c) \in Slot /\ Value(c).at = Len(values)
    BY <1>2, <1>3, <2>1, SlotTypes
  <2>4. Value(c).valid = ~col.cells[k].null
    BY <1>2, <1>4, <1>5, <2>1, SlotTypes
  <2>5. CASE fn = "is_expired"
    <3>1. Value(c).flag = IsExpired(c, now)
      BY <1>2, <2>1, <2>5, SlotTypes
    <3>2. now \in 0..now
      BY <1>2
    <3> QED
      BY <1>1, <2>2, <2>3, <2>4, <2>5, <3>1, <3>2 DEF IsSlotOf, c
  <2>6. CASE fn = "is_ca"
    <3>1. Value(c).flag = c.isCA
      BY <1>2, <2>1, <2>6, SlotTypes
    <3> QED
      BY <1>1, <2>2, <2>3, <2>4, <2>6, <3>1 DEF IsSlotOf, c
  <2>7. CASE fn = "sans"
    <3>1. w = c.dns \o c.ips
      BY <1>2, <2>1, <2>7, SlotTypes
    <3> QED
      BY <1>1, <2>2, <2>3, <2>4, <2>7, <3>1 DEF IsSlotOf, c
  <2>8. CASE fn \in {"string", "timestamp"}
    <3>1. Value(c).text = Text(c)
      BY <1>2, <2>1, <2>8, SlotTypes
    <3> QED
      BY <1>1, <2>2, <2>3, <2>4, <2>8, <3>1 DEF IsSlotOf, c
  <2> QED
    BY <2>5, <2>6, <2>7, <2>8 DEF Families
<1> QED
  BY <1>1, <1>6, <1>7, <1>8

----------------------------------------------------------------------------
(* Types.                                                                  *)

LEMMA OutcomeType ==
    ASSUME TypeOK, NEW mapErr \in {"none", "map"}
    PROVE  Outcome(mapErr) \in [err : Errors \cup {"none", "running", "map"},
                                out : Seq(Slot), values : Seq(Texts)]
<1>1. CASE firstErr = "none" /\ mapErr = "none"
  <2>1. Outcome(mapErr) = [err |-> "none", out |-> out, values |-> values]
    BY <1>1, Zenon DEF Outcome
  <2>2. out \in Seq(Slot) /\ values \in Seq(Texts)
    BY DEF TypeOK
  <2> QED
    BY <2>1, <2>2
<1>2. CASE ~(firstErr = "none" /\ mapErr = "none")
  <2>1. PICK e : e = IF firstErr # "none" THEN firstErr ELSE mapErr
    OBVIOUS
  <2>2. Outcome(mapErr) = [Running EXCEPT !.err = e]
    BY <1>2, <2>1, Zenon DEF Outcome
  <2>3. e \in Errors \cup {"map"} /\ <<>> \in Seq(Slot) /\ <<>> \in Seq(Texts)
    BY <1>2, <2>1 DEF TypeOK
  <2> QED
    BY <2>2, <2>3 DEF Running
<1> QED
  BY <1>1, <1>2

\* A row that is not bad leaves the error as it is; the first bad one sets it.
LEMMA RowErrors ==
    ASSUME TypeOK, NullRow \/ BadRow \/ GoodRow
    PROVE  firstErr' = IF Bad(i + 1) /\ firstErr = "none"
                       THEN parseHandle(col.type, col.cells[i + 1]).err ELSE firstErr
<1> DEFINE k == i + 1
<1>1. k \in 1..Rows
  BY RowAppends DEF TypeOK, Rows
<1>2. /\ Row1Cell = col.cells[k] /\ Handle = parseHandle(col.type, col.cells[k])
      /\ Row1Cell.null \in BOOLEAN
  BY <1>1, ColumnFacts DEF Row1Cell, Handle, TypeOK
<1>3. CASE NullRow
  BY <1>2, <1>3 DEF NullRow, Bad
<1>4. CASE BadRow
  BY <1>2, <1>4 DEF BadRow, Bad, KeepFirst
<1>5. CASE GoodRow
  BY <1>2, <1>5 DEF GoodRow, Bad
<1> QED
  BY <1>3, <1>4, <1>5

LEMMA TypeInit == Init => TypeOK
<1> SUFFICES ASSUME Init PROVE TypeOK
  OBVIOUS
<1>1. col.cells \in Seq(Cell)
  BY ColumnsAssumption DEF Init, Column
<1>2. Rows \in Nat
  BY <1>1 DEF Rows
<1>3. <<>> \in Seq(Slot) /\ <<>> \in Seq(Texts) /\ Len(<<>>) = 0
  OBVIOUS
<1>4. result \in [err : Errors \cup {"none", "running", "map"}, out : Seq(Slot),
                  values : Seq(Texts)]
  BY <1>3 DEF Init, Running
<1>5. i \in 0..Rows /\ now \in 0..MaxNow
  BY <1>2, ClockAssumption DEF Init
<1> QED
  BY <1>3, <1>4, <1>5 DEF Init, TypeOK

LEMMA TypeStep == TypeOK /\ [Next]_vars => TypeOK'
<1> SUFFICES ASSUME TypeOK, [Next]_vars PROVE TypeOK'
  OBVIOUS
<1>1. CASE NullRow \/ BadRow \/ GoodRow
  <2>1. PICK slot \in Slot, w \in Seq(Texts) :
            out' = Append(out, slot) /\ values' = values \o w
    BY <1>1, RowAppends
  <2>2. /\ i < Rows /\ i' = i + 1 /\ UNCHANGED <<fn, col, result, now>> /\ Rows \in Nat
    BY <1>1, RowAppends, ColumnFacts, ColumnsAssumption DEF TypeOK, Column, Rows
  <2>3. out' \in Seq(Slot) /\ Len(out') = i'
    BY <2>1, <2>2, AppendProperties DEF TypeOK
  <2>4. values' \in Seq(Texts)
    BY <2>1, ConcatProperties DEF TypeOK
  <2>5. firstErr' \in Errors \cup {"none"}
    <3>1. i + 1 \in 1..Rows
      BY <2>2 DEF TypeOK
    <3> QED
      BY <1>1, <3>1, RowErrors, ColumnFacts DEF TypeOK
  <2>6. Rows' = Rows /\ i' \in 0..Rows
    BY <2>2 DEF Rows, TypeOK
  <2> QED
    BY <2>2, <2>3, <2>4, <2>5, <2>6 DEF TypeOK
<1>2. CASE ProcessReturns
  BY <1>2, OutcomeType DEF ProcessReturns, TypeOK, Rows
<1>3. CASE MapFails
  BY <1>3, OutcomeType DEF MapFails, TypeOK, Rows
<1>4. CASE ClockTick
  BY <1>4, ClockAssumption DEF ClockTick, TypeOK, Rows
<1>5. CASE UNCHANGED vars
  BY <1>5 DEF vars, TypeOK, Rows
<1> QED
  BY <1>1, <1>2, <1>3, <1>4, <1>5 DEF Next, Returned

\* Every reachable state of a batch is well typed.
THEOREM TypeCorrect == Spec => []TypeOK
BY TypeInit, TypeStep, PTL DEF Spec

----------------------------------------------------------------------------
(* Slots stay in place.                                                    *)

\* What is appended after it changes nothing of a slot or its list.
LEMMA OldSlot ==
    ASSUME NEW o \in Seq(Slot), NEW v \in Seq(Texts), NEW k \in 1..Len(o),
           NEW slot \in Slot, slot.at = Len(v), NEW w \in Seq(Texts),
           EndAt(o, v, k) <= Len(v)
    PROVE  /\ EndAt(Append(o, slot), v \o w, k) <= Len(v \o w)
           /\ InPlace(o, v, k) => InPlace(Append(o, slot), v \o w, k)
<1> DEFINE o2 == Append(o, slot)
           v2 == v \o w
<1>1. /\ o2 \in Seq(Slot) /\ Len(o2) = Len(o) + 1
      /\ \A j \in 1..Len(o) : o2[j] = o[j]
      /\ o2[Len(o) + 1] = slot
  BY AppendProperties
<1>2. v2 \in Seq(Texts) /\ Len(v2) = Len(v) + Len(w) /\ Len(v) \in Nat /\ Len(w) \in Nat
  BY ConcatProperties
<1> HIDE DEF o2
<1>3. o2[k] = o[k] /\ o[k] \in Slot /\ o[k].at \in Nat
  <2>1. o2[k] = o[k]
    BY <1>1
  <2>2. o[k] \in Slot
    BY ElementOfSeq
  <2> QED
    BY <2>1, <2>2 DEF Slot
<1>4. EndAt(o2, v2, k) = EndAt(o, v, k) /\ EndAt(o, v, k) \in Nat
  <2>1. CASE k = Len(o)
    BY <1>1, <1>2, <2>1 DEF EndAt
  <2>2. CASE k # Len(o)
    <3>1. k + 1 \in 1..Len(o) /\ k # Len(o2)
      BY <1>1, <2>2
    <3>2. o2[k + 1] = o[k + 1] /\ o[k + 1] \in Slot
      BY <1>1, <3>1
    <3> QED
      BY <2>2, <3>1, <3>2 DEF EndAt, Slot
  <2> QED
    BY <2>1, <2>2
<1>5. ListAt(o2, v2, k) = ListAt(o, v, k)
  <2> DEFINE a == o[k].at + 1
             e == EndAt(o, v, k)
  <2>1. a \in Nat /\ a >= 1 /\ e \in Nat /\ e <= Len(v)
    BY <1>3, <1>4
  <2>2. ListAt(o2, v2, k) = SubSeq(v2, a, e) /\ ListAt(o, v, k) = SubSeq(v, a, e)
    BY <1>3, <1>4 DEF ListAt
  <2> HIDE DEF a, e
  <2>3. CASE e < a
    BY <2>1, <2>2, <2>3, SubSeqEmpty
  <2>4. CASE a <= e
    <3>1. a \in 1..Len(v) /\ e \in 1..Len(v)
      BY <2>1, <2>4, <1>2
    <3> QED
      BY <2>2, <3>1, SubSeqOfConcat1
  <2> QED
    BY <2>1, <2>3, <2>4
<1>6. EndAt(o2, v2, k) <= Len(v2)
  BY <1>2, <1>4
<1> HIDE DEF v2
<1>7. InPlace(o, v, k) => InPlace(o2, v2, k)
  BY <1>3, <1>5, Zenon DEF InPlace
<1> QED
  BY <1>6, <1>7 DEF o2, v2

\* The slot appended last is its row's, and its list is what was appended to
\* the child buffer with it.
LEMMA NewSlot ==
    ASSUME NEW o \in Seq(Slot), NEW v \in Seq(Texts),
           NEW slot \in Slot, slot.at = Len(v), NEW w \in Seq(Texts)
    PROVE  LET k == Len(o) + 1
           IN  /\ EndAt(Append(o, slot), v \o w, k) <= Len(v \o w)
               /\ IsSlotOf(slot, w, k) => InPlace(Append(o, slot), v \o w, k)
<1> DEFINE k == Len(o) + 1
           o2 == Append(o, slot)
           v2 == v \o w
<1>1. Len(o2) = k /\ o2[k] = slot
  BY AppendProperties
<1>2. /\ v2 \in Seq(Texts) /\ Len(v2) = Len(v) + Len(w) /\ Len(v) \in Nat /\ Len(w) \in Nat
      /\ \A j \in 1..(Len(v) + Len(w)) : v2[j] = IF j <= Len(v) THEN v[j] ELSE w[j - Len(v)]
  BY ConcatProperties
<1> HIDE DEF o2, v2, k
<1>3. EndAt(o2, v2, k) = Len(v2)
  BY <1>1 DEF EndAt
<1>4. ListAt(o2, v2, k) = w
  <2> DEFINE s == SubSeq(v2, Len(v) + 1, Len(v2))
  <2>1. ListAt(o2, v2, k) = s
    BY <1>1, <1>3 DEF ListAt
  <2>2. /\ Len(v) + 1 \in Int /\ Len(v2) \in Int
        /\ \A j \in (Len(v) + 1)..Len(v2) : v2[j] \in Texts
    BY <1>2, ElementOfSeq
  <2>3. /\ s \in Seq(Texts)
        /\ Len(s) = IF Len(v) + 1 <= Len(v2) THEN Len(v2) - (Len(v) + 1) + 1 ELSE 0
        /\ \A j \in 1..(Len(v2) - (Len(v) + 1) + 1) : s[j] = v2[Len(v) + 1 + j - 1]
    BY <2>2, SubSeqProperties
  <2> HIDE DEF s
  <2>4. Len(s) = Len(w)
    BY <1>2, <2>3
  <2>5. ASSUME NEW j \in 1..Len(s) PROVE s[j] = w[j]
    <3>1. /\ j \in 1..(Len(v2) - (Len(v) + 1) + 1)
          /\ Len(v) + 1 + j - 1 = Len(v) + j
          /\ Len(v) + j \in 1..(Len(v) + Len(w)) /\ ~(Len(v) + j <= Len(v))
          /\ Len(v) + j - Len(v) = j
      BY <1>2, <2>4
    <3>2. s[j] = v2[Len(v) + j]
      BY <2>3, <3>1, Zenon
    <3>3. v2[Len(v) + j] = w[Len(v) + j - Len(v)]
      <4> DEFINE m == Len(v) + j
      <4>1. m \in 1..(Len(v) + Len(w)) /\ ~(m <= Len(v))
        BY <3>1
      <4> HIDE DEF m
      <4>2. v2[m] = w[m - Len(v)]
        BY <1>2, <4>1
      <4> QED
        BY <4>2 DEF m
    <3> QED
      BY <3>1, <3>2, <3>3, Zenon
  <2> QED
    BY <2>1, <2>3, <2>4, <2>5, SeqEqual
<1>5. IsSlotOf(slot, w, k) => InPlace(o2, v2, k)
  BY <1>1, <1>4, Zenon DEF IsSlotOf, InPlace
<1> QED
  BY <1>2, <1>3, <1>5 DEF o2, v2, k

----------------------------------------------------------------------------
(* The loop's invariant.                                                   *)

LEMMA SameColumn ==
    ASSUME UNCHANGED col
    PROVE  /\ Rows' = Rows
           /\ \A k : Bad(k)' = Bad(k) /\ CertOf(k)' = CertOf(k)
           /\ \A k : FirstBad(k, firstErr)' <=> FirstBad(k, firstErr')
<1>1. \A k : Bad(k)' = Bad(k) /\ CertOf(k)' = CertOf(k)
  BY DEF Bad, CertOf
<1> QED
  BY <1>1 DEF Rows, FirstBad, Bad

LEMMA CoherentInit == Init => BatchCoherent
<1> SUFFICES ASSUME Init PROVE BatchCoherent
  OBVIOUS
<1>1. i = 0 /\ firstErr = "none" /\ result.err = "running"
  BY DEF Init, Running
<1>2. \A k \in 1..0 : FALSE
  OBVIOUS
<1> QED
  BY <1>1, <1>2, Zenon DEF BatchCoherent

LEMMA CoherentRow ==
    ASSUME TypeOK, BatchCoherent, NullRow \/ BadRow \/ GoodRow
    PROVE  BatchCoherent'
<1>1. PICK slot \in Slot, w \in Seq(Texts) :
          /\ out' = Append(out, slot) /\ slot.at = Len(values)
          /\ values' = values \o w
          /\ ~Bad(i + 1) => IsSlotOf(slot, w, i + 1)
  BY RowAppends
<1>2. /\ i \in Nat /\ i' = i + 1 /\ i + 1 \in 1..Rows /\ result.err = "running"
      /\ UNCHANGED <<fn, col, result, now>>
      /\ out \in Seq(Slot) /\ Len(out) = i /\ values \in Seq(Texts) /\ now \in Nat
  BY RowAppends, ClockAssumption DEF TypeOK, Rows
<1>3. /\ \A k \in 1..(i + 1) : k \in 1..i \/ k = i + 1
      /\ \A k \in 1..i : k \in 1..(i + 1)
      /\ i + 1 \in 1..(i + 1) /\ 1..((i + 1) - 1) = 1..i
  BY <1>2
<1>4. /\ Rows' = Rows
      /\ \A k : Bad(k)' = Bad(k) /\ CertOf(k)' = CertOf(k)
      /\ \A k : FirstBad(k, firstErr)' <=> FirstBad(k, firstErr')
  BY <1>2, SameColumn
<1>5. IF firstErr' = "none" THEN \A k \in 1..i' : ~Bad(k)'
                            ELSE \E k \in 1..i' : FirstBad(k, firstErr)'
  <2> DEFINE why == parseHandle(col.type, col.cells[i + 1]).err
  <2>1. firstErr' = IF Bad(i + 1) /\ firstErr = "none" THEN why ELSE firstErr
    BY RowErrors
  <2>2. Bad(i + 1) => why # "none"
    BY DEF Bad
  <2>3. CASE firstErr # "none"
    <3>1. PICK k \in 1..i : FirstBad(k, firstErr)
      BY <2>3 DEF BatchCoherent
    <3>2. k \in 1..i' /\ firstErr' = firstErr
      BY <1>2, <1>3, <2>1, <2>3, <3>1, Zenon
    <3>3. FirstBad(k, firstErr)'
      BY <1>4, <3>1, <3>2, Zenon
    <3> QED
      BY <2>3, <3>2, <3>3, Zenon
  <2>4. CASE firstErr = "none" /\ Bad(i + 1)
    <3>1. firstErr' = why /\ firstErr' # "none"
      BY <2>1, <2>2, <2>4, Zenon
    <3>2. \A k \in 1..i : ~Bad(k)
      BY <2>4, Zenon DEF BatchCoherent
    <3>3. FirstBad(i + 1, firstErr')
      BY <1>3, <2>4, <3>1, <3>2, Zenon DEF FirstBad
    <3> QED
      BY <1>2, <1>3, <1>4, <3>1, <3>3, Zenon
  <2>5. CASE firstErr = "none" /\ ~Bad(i + 1)
    <3>1. firstErr' = "none"
      BY <2>1, <2>5, Zenon
    <3>2. \A k \in 1..i : ~Bad(k)
      BY <2>5, Zenon DEF BatchCoherent
    <3>3. \A k \in 1..i' : ~Bad(k)'
      BY <1>2, <1>3, <1>4, <2>5, <3>2, Zenon
    <3> QED
      BY <3>1, <3>3, Zenon
  <2> QED
    BY <2>3, <2>4, <2>5, Zenon
<1>6. ASSUME NEW k \in 1..i'
      PROVE  /\ EndAt(out', values', k) <= Len(values')
             /\ ~Bad(k) => InPlace(out', values', k)
  <2>1. CASE k \in 1..i
    <3>1. k \in 1..Len(out) /\ EndAt(out, values, k) <= Len(values)
      BY <1>2, <2>1 DEF BatchCoherent
    <3>2. ~Bad(k) => InPlace(out, values, k)
      BY <2>1, Zenon DEF BatchCoherent
    <3> QED
      BY <1>1, <1>2, <3>1, <3>2, OldSlot
  <2>2. CASE k = i + 1
    <3>1. k = Len(out) + 1
      BY <1>2, <2>2
    <3> QED
      BY <1>1, <1>2, <2>2, <3>1, NewSlot
  <2> QED
    BY <1>2, <1>3, <2>1, <2>2, Zenon
<1>7. \A k \in 1..i' : EndAt(out, values, k)' <= Len(values')
  BY <1>6 DEF EndAt
<1>8. \A k \in 1..i' : ~Bad(k)' => InPlace(out, values, k)'
  <2> SUFFICES ASSUME NEW k \in 1..i', ~Bad(k) PROVE InPlace(out, values, k)'
    BY <1>4, Zenon
  <2>1. InPlace(out', values', k)
    BY <1>6
  <2>2. ListAt(out, values, k)' = ListAt(out', values', k)
    BY DEF ListAt, EndAt
  <2> QED
    BY <1>2, <1>4, <2>1, <2>2, Zenon DEF InPlace
<1>9. result'.err = "running"
  BY <1>2
<1> QED
  BY <1>5, <1>7, <1>8, <1>9, Zenon DEF BatchCoherent

LEMMA CoherentStep == TypeOK /\ BatchCoherent /\ [Next]_vars => BatchCoherent'
<1> SUFFICES ASSUME TypeOK, BatchCoherent, [Next]_vars PROVE BatchCoherent'
  OBVIOUS
<1>1. CASE NullRow \/ BadRow \/ GoodRow
  BY <1>1, CoherentRow
<1>2. ASSUME UNCHANGED <<fn, col, i, out, values, firstErr>>, now <= now', now' \in Nat,
             result'.err # "running" =>
                (i = Rows /\ result' = Outcome("none")) \/ result' = Outcome("map")
      PROVE  BatchCoherent'
  <2>1. now \in Nat
    BY ClockAssumption DEF TypeOK
  <2>2. Rows' = Rows /\ Outcome("none")' = Outcome("none") /\ Outcome("map")' = Outcome("map")
    BY <1>2 DEF Rows, Outcome, Running
  <2>3. \A k : Bad(k)' = Bad(k) /\ CertOf(k)' = CertOf(k) /\ (FirstBad(k, firstErr)' <=> FirstBad(k, firstErr'))
    BY <1>2, SameColumn
  <2>4. \A k : EndAt(out, values, k)' = EndAt(out, values, k)
    BY <1>2 DEF EndAt
  <2>5. ASSUME NEW k \in 1..i, InPlace(out, values, k) PROVE InPlace(out, values, k)'
    <3>1. ListAt(out, values, k)' = ListAt(out, values, k)
      BY <1>2 DEF ListAt, EndAt
    <3>2. \A t \in 0..now : t \in 0..now'
      BY <1>2, <2>1
    <3>3. out' = out /\ fn' = fn /\ col' = col
      BY <1>2
    <3> QED
      BY <2>3, <2>5, <3>1, <3>2, <3>3, Zenon DEF InPlace
  <2>6. IF firstErr' = "none" THEN \A k \in 1..i' : ~Bad(k)'
                              ELSE \E k \in 1..i' : FirstBad(k, firstErr)'
    <3>1. firstErr' = firstErr /\ i' = i
      BY <1>2
    <3>2. \A k : FirstBad(k, firstErr)' <=> FirstBad(k, firstErr)
      BY <2>3, <3>1, Zenon
    <3> QED
      BY <2>3, <3>1, <3>2, Zenon DEF BatchCoherent
  <2>7. \A k \in 1..i' : EndAt(out, values, k)' <= Len(values')
    BY <1>2, <2>4 DEF BatchCoherent
  <2>8. \A k \in 1..i' : ~Bad(k)' => InPlace(out, values, k)'
    BY <1>2, <2>3, <2>5, Zenon DEF BatchCoherent
  <2>9. result'.err # "running" =>
           (i' = Rows' /\ result' = Outcome("none")') \/ result' = Outcome("map")'
    BY <1>2, <2>2
  <2> QED
    BY <2>6, <2>7, <2>8, <2>9, Zenon DEF BatchCoherent
<1>3. CASE ProcessReturns
  BY <1>2, <1>3, ClockAssumption DEF ProcessReturns, TypeOK
<1>4. CASE MapFails
  BY <1>2, <1>4, ClockAssumption DEF MapFails, TypeOK
<1>5. CASE ClockTick
  BY <1>2, <1>5, ClockAssumption DEF ClockTick, TypeOK, BatchCoherent
<1>6. CASE UNCHANGED vars
  BY <1>2, <1>6, ClockAssumption DEF vars, TypeOK, BatchCoherent
<1> QED
  BY <1>1, <1>3, <1>4, <1>5, <1>6 DEF Next, Returned

\* The inductive invariant of the four Process loops.
THEOREM BatchStaysCoherent == Spec => []BatchCoherent
<1>1. TypeOK /\ BatchCoherent /\ [Next]_vars => BatchCoherent'
  BY CoherentStep
<1> QED
  BY CoherentInit, <1>1, TypeCorrect, PTL DEF Spec

----------------------------------------------------------------------------
(* What a caller relies on.                                                *)

LEMMA OutcomeFacts ==
    ASSUME TypeOK, BatchCoherent, result.err # "running"
    PROVE  /\ result.err \in Errors => firstErr = result.err /\ firstErr # "none"
           /\ result.err = "map" => firstErr = "none"
           /\ result.err = "none" => /\ i = Rows /\ firstErr = "none"
                                     /\ result.out = out /\ result.values = values
<1>1. firstErr \in Errors \cup {"none"} /\ "none" \notin Errors /\ "map" \notin Errors
  BY DEF TypeOK, Errors
<1>2. CASE firstErr = "none" /\ i = Rows /\ result = Outcome("none")
  BY <1>1, <1>2 DEF Outcome
<1>3. CASE firstErr = "none" /\ result = Outcome("map")
  BY <1>1, <1>3 DEF Outcome, Running
<1>4. CASE firstErr # "none"
  BY <1>1, <1>4 DEF Outcome, Running, BatchCoherent
<1> QED
  BY <1>2, <1>3, <1>4 DEF BatchCoherent

\* A batch fails with the error of its first bad row, for columns of any length;
\* MapColumn's own error is returned only where no row before it was bad.
THEOREM FirstBadRowFails == Spec => []FirstErrorWins
<1>1. TypeOK /\ BatchCoherent => FirstErrorWins
  <2> SUFFICES ASSUME TypeOK, BatchCoherent, result.err \in Errors \cup {"map"}
               PROVE  FirstErrorWins
    BY DEF FirstErrorWins
  <2>1. result.err # "running" /\ "map" \notin Errors
    BY DEF Errors
  <2>2. CASE result.err = "map"
    <3>1. firstErr = "none"
      BY <2>1, <2>2, OutcomeFacts
    <3>2. \A k \in 1..i : ~Bad(k)
      BY <3>1, Zenon DEF BatchCoherent
    <3> QED
      BY <2>1, <2>2, <3>2, Zenon DEF FirstErrorWins
  <2>3. CASE result.err \in Errors
    <3>1. firstErr = result.err /\ firstErr # "none"
      BY <2>1, <2>3, OutcomeFacts
    <3>2. \E k \in 1..i : FirstBad(k, firstErr)
      BY <3>1, Zenon DEF BatchCoherent
    <3>3. result.err # "map"
      BY <2>1, <2>3
    <3> QED
      BY <3>1, <3>2, <3>3, Zenon DEF FirstErrorWins
  <2> QED
    BY <2>2, <2>3
<1> QED
  BY <1>1, TypeCorrect, BatchStaysCoherent, PTL

\* No placeholder of a bad row is ever returned as a value.
THEOREM PlaceholdersStayInside == Spec => []NoPlaceholderEscapes
<1>1. TypeOK /\ BatchCoherent => NoPlaceholderEscapes
  <2> SUFFICES ASSUME TypeOK, BatchCoherent, result.err = "none"
               PROVE  \A k \in 1..Rows : ~Bad(k)
    BY DEF NoPlaceholderEscapes
  <2>1. i = Rows /\ firstErr = "none"
    BY OutcomeFacts
  <2> QED
    BY <2>1, Zenon DEF BatchCoherent
<1> QED
  BY <1>1, TypeCorrect, BatchStaysCoherent, PTL

\* Every row of a returned column holds the value of its own certificate, and
\* the lists cut out of the shared child buffer are those of their rows.
THEOREM ColumnsLineUp == Spec => []ColumnMatchesRows
<1>1. TypeOK /\ BatchCoherent => ColumnMatchesRows
  <2> SUFFICES ASSUME TypeOK, BatchCoherent, result.err = "none"
               PROVE  /\ Len(result.out) = Rows
                      /\ \A k \in 1..Rows : InPlace(result.out, result.values, k)
    BY DEF ColumnMatchesRows
  <2>1. /\ i = Rows /\ firstErr = "none"
        /\ result.out = out /\ result.values = values
    BY OutcomeFacts
  <2>2. Len(result.out) = Rows
    BY <2>1 DEF TypeOK
  <2>3. \A k \in 1..Rows : InPlace(out, values, k)
    BY <2>1, Zenon DEF BatchCoherent
  <2> QED
    BY <2>1, <2>2, <2>3, Zenon
<1> QED
  BY <1>1, TypeCorrect, BatchStaysCoherent, PTL
=============================================================================
