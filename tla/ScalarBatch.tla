---------------------------- MODULE ScalarBatch ----------------------------
(***************************************************************************)
(* The scalar functions over one Arrow batch (functions.go): Process walks *)
(* the rows, parses each certificate, appends the accessor's value to a    *)
(* builder, and at the end returns the column or the first error.  The     *)
(* four families differ in what they append for a bad row ("" or false by  *)
(* MapColumn, NULL by the timestamp and list builders), and the list one   *)
(* appends to two buffers.  MapColumn may also fail by itself.             *)
(* cert_is_expired reads the clock at each row.                            *)
(***************************************************************************)
EXTENDS Certificate

CONSTANTS
    Columns,    \* the input columns to try: [type, cells]
    MaxNow      \* bound: the clock runs from 0 to MaxNow

Column == [type : ColumnTypes, cells : Seq(Cell)]
Families == {"string", "is_expired", "is_ca", "timestamp", "sans"}

ASSUME ColumnsAssumption == Columns \subseteq Column
ASSUME ClockAssumption == MaxNow \in Nat

VARIABLES
    fn,        \* the function called, by family; the two booleans apart
    col,       \* the input column
    i,         \* rows processed
    out,       \* the builder: per row, whether it is valid and what it holds
    values,    \* list builder: the child buffer all rows share
    firstErr,  \* the error of the first bad row, or "none"
    result,    \* what Process returned
    now        \* the clock, 0 when Process is called

vars == <<fn, col, i, out, values, firstErr, result, now>>

Rows == Len(col.cells)

----------------------------------------------------------------------------
(* Slots of a builder.  at is where the slot's values begin in the child   *)
(* buffer; they end where the next slot's begin.                           *)

Slot == [valid : BOOLEAN, text : Texts \cup {""}, flag : BOOLEAN, at : Nat]

NullSlot == [valid |-> FALSE, text |-> "", flag |-> FALSE, at |-> Len(values)]

\* What MapColumn gets for a bad row: a value like any other.
Placeholder == [NullSlot EXCEPT !.valid = TRUE]

\* The accessor's value for certificate c, read now.
Value(c) ==
    CASE fn = "is_expired" -> [Placeholder EXCEPT !.flag = IsExpired(c, now)]
      [] fn = "is_ca"      -> [Placeholder EXCEPT !.flag = c.isCA]
      [] fn = "sans"       -> Placeholder
      [] OTHER             -> [Placeholder EXCEPT !.text = Text(c)]

Running == [err |-> "running", out |-> <<>>, values |-> <<>>]

TypeOK ==
    /\ fn \in Families
    /\ col \in Columns
    /\ i \in 0..Rows /\ Len(out) = i
    /\ out \in Seq(Slot)
    /\ values \in Seq(Texts)
    /\ firstErr \in Errors \cup {"none"}
    /\ result \in [err : Errors \cup {"none", "running", "map"}, out : Seq(Slot),
                   values : Seq(Texts)]
    /\ now \in 0..MaxNow

Init ==
    /\ fn \in Families
    /\ col \in Columns
    /\ i = 0 /\ out = <<>> /\ values = <<>> /\ firstErr = "none"
    /\ result = Running
    /\ now = 0

----------------------------------------------------------------------------
(* Rows.                                                                   *)

Row1Cell == col.cells[i + 1]
Handle   == parseHandle(col.type, Row1Cell)

NextRow == /\ result.err = "running"
           /\ i < Rows
           /\ i' = i + 1

\* Variant: a NULL row is skipped and leaves no slot.
NullRowSkipped ==
    /\ NextRow
    /\ Row1Cell.null
    /\ UNCHANGED <<fn, col, out, values, firstErr, result, now>>

\* A NULL certificate is never parsed: its slot is NULL.
NullRow ==
    /\ NextRow
    /\ Row1Cell.null
    /\ out' = Append(out, NullSlot)
    /\ UNCHANGED <<fn, col, values, firstErr, result, now>>

\* Variant: the error of the last bad row is kept.
KeepLast(old, new) == new

\* The error of the first bad row is kept, and the loop goes on.
KeepFirst(old, new) == IF old = "none" THEN new ELSE old

BadRow ==
    /\ NextRow
    /\ ~Row1Cell.null /\ Handle.err # "none"
    /\ firstErr' = KeepFirst(firstErr, Handle.err)
    /\ out' = Append(out, IF fn \in {"timestamp", "sans"} THEN NullSlot ELSE Placeholder)
    /\ UNCHANGED <<fn, col, values, result, now>>

\* Variant: the list slot is opened after its values have been appended.
GoodRowOpensLate ==
    /\ NextRow
    /\ ~Row1Cell.null /\ Handle.err = "none"
    /\ values' = IF fn = "sans" THEN values \o SANs(Handle.cert) ELSE values
    /\ out' = Append(out, [Value(Handle.cert) EXCEPT !.at = Len(values')])
    /\ UNCHANGED <<fn, col, firstErr, result, now>>

\* The slot is opened at the end of the child buffer, then the list's values
\* are appended to it.
GoodRow ==
    /\ NextRow
    /\ ~Row1Cell.null /\ Handle.err = "none"
    /\ out' = Append(out, Value(Handle.cert))
    /\ values' = IF fn = "sans" THEN values \o SANs(Handle.cert) ELSE values
    /\ UNCHANGED <<fn, col, firstErr, result, now>>

\* Variant: the error is dropped and the column returned.
OutcomeNoError(mapErr) == [err |-> "none", out |-> out, values |-> values]

\* The first error of a row and no column, or else the error of MapColumn, or
\* else the column.
Outcome(mapErr) ==
    IF firstErr = "none" /\ mapErr = "none"
    THEN [err |-> "none", out |-> out, values |-> values]
    ELSE [Running EXCEPT !.err = IF firstErr # "none" THEN firstErr ELSE mapErr]

ProcessReturns ==
    /\ result.err = "running"
    /\ i = Rows
    /\ result' = Outcome("none")
    /\ UNCHANGED <<fn, col, i, out, values, firstErr, now>>

\* MapColumn, which two of the families use, may give up at any row.
MapFails ==
    /\ result.err = "running"
    /\ fn \in {"string", "is_expired", "is_ca"}
    /\ result' = Outcome("map")
    /\ UNCHANGED <<fn, col, i, out, values, firstErr, now>>

ClockTick ==
    /\ result.err = "running"
    /\ now < MaxNow
    /\ now' = now + 1
    /\ UNCHANGED <<fn, col, i, out, values, firstErr, result>>

Returned == result.err # "running" /\ UNCHANGED vars

Next == NullRow \/ BadRow \/ GoodRow \/ ProcessReturns \/ MapFails \/ ClockTick \/ Returned

Spec == Init /\ [][Next]_vars

----------------------------------------------------------------------------
(* Properties.                                                             *)

Bad(k)  == ~col.cells[k].null /\ parseHandle(col.type, col.cells[k]).err # "none"
CertOf(k) == parseHandle(col.type, col.cells[k]).cert

\* Where the list of row k ends in the child buffer.
EndAt(o, v, k) == IF k = Len(o) THEN Len(v) ELSE o[k + 1].at

\* The list a reader of slots o over child buffer v finds at row k.
ListAt(o, v, k) == SubSeq(v, o[k].at + 1, EndAt(o, v, k))

\* Slot k is NULL exactly for a NULL row, and otherwise holds the value of that
\* row's own certificate, expiry as of some moment of the call.
InPlace(o, v, k) ==
    /\ o[k].valid = ~col.cells[k].null
    /\ o[k].valid =>
          CASE fn = "is_expired" -> \E t \in 0..now : o[k].flag = IsExpired(CertOf(k), t)
            [] fn = "is_ca" -> o[k].flag = CertOf(k).isCA
            [] fn = "sans"  -> ListAt(o, v, k) = CertOf(k).dns \o CertOf(k).ips
            [] OTHER        -> o[k].text = Text(CertOf(k))

\* A column that is returned has one slot per row, each with its own row's
\* value, lists cut out of the shared buffer where they were put in.
ColumnMatchesRows ==
    result.err = "none" =>
        /\ Len(result.out) = Rows
        /\ \A k \in 1..Rows : InPlace(result.out, result.values, k)

\* Row k is the first bad one, and why is its error.
FirstBad(k, why) ==
    Bad(k) /\ (\A j \in 1..(k - 1) : ~Bad(j)) /\ why = parseHandle(col.type, col.cells[k]).err

\* The error a batch fails with is that of its first bad row, whatever comes
\* before and after it, and an error of MapColumn never hides that of a row.
FirstErrorWins ==
    /\ result.err \in Errors => \E k \in 1..i : FirstBad(k, result.err)
    /\ result.err = "map" => \A k \in 1..i : ~Bad(k)

\* No placeholder of a bad row ("", false, NULL) is ever returned as a value:
\* one bad row fails the whole batch.
NoPlaceholderEscapes == result.err = "none" => \A k \in 1..Rows : ~Bad(k)

\* The scalar functions are pure: equal arguments of one batch get equal
\* answers.
EqualRowsEqualAnswers ==
    result.err = "none" =>
        \A j, k \in 1..Rows : col.cells[j] = col.cells[k] =>
            /\ result.out[j].text = result.out[k].text
            /\ result.out[j].flag = result.out[k].flag
=============================================================================
