---------------------------- MODULE ScanContract ----------------------------
(***************************************************************************)
(* What a table function promises the query that scans it, with no worker, *)
(* transport, cursor or token in sight:                                    *)
(*                                                                         *)
(*   - its source (a certificate's fields, an endpoint's chain) is read    *)
(*     before the first row is given and is frozen from then on;           *)
(*   - its rows are given in order, in full chunks of RowsPerTick except   *)
(*     for the last one, each row once;                                    *)
(*   - a scan ends only when every row of the source has been given, or    *)
(*     fails.                                                              *)
(***************************************************************************)
EXTENDS Naturals, Sequences

CONSTANTS Scans,         \* the scans of one query
          RowsPerTick    \* rows in a full chunk

VARIABLES status,   \* scan -> "new", "streaming", "done" or "failed"
          source,   \* scan -> the rows its source held when last read
          given     \* scan -> the rows given so far

vars == <<status, source, given>>

Init == /\ status = [s \in Scans |-> "new"]
        /\ source = [s \in Scans |-> <<>>]
        /\ given  = [s \in Scans |-> <<>>]

\* The source may be read again as long as the scan has not started.
Read(s) ==
    /\ status[s] = "new"
    /\ source' = [source EXCEPT ![s] = source'[s]]
    /\ UNCHANGED <<status, given>>

Start(s) ==
    /\ status[s] = "new"
    /\ status' = [status EXCEPT ![s] = "streaming"]
    /\ UNCHANGED <<source, given>>

\* The next chunk: full, or what is left when that is less.
Chunk(s) ==
    LET from == Len(given[s]) + 1
        full == Len(given[s]) + RowsPerTick
    IN  SubSeq(source[s], from, IF full > Len(source[s]) THEN Len(source[s]) ELSE full)

Deliver(s) ==
    /\ status[s] = "streaming"
    /\ given[s] # source[s]
    /\ given' = [given EXCEPT ![s] = @ \o Chunk(s)]
    /\ UNCHANGED <<status, source>>

Finish(s) ==
    /\ status[s] = "streaming"
    /\ given[s] = source[s]
    /\ status' = [status EXCEPT ![s] = "done"]
    /\ UNCHANGED <<source, given>>

\* One failure may take several scans down: those of one worker process.
Fail(F) ==
    /\ \A s \in F : status[s] \in {"new", "streaming"}
    /\ status' = [s \in Scans |-> IF s \in F THEN "failed" ELSE status[s]]
    /\ UNCHANGED <<source, given>>

Next == \/ \E s \in Scans : Read(s) \/ Start(s) \/ Deliver(s) \/ Finish(s)
        \/ \E F \in SUBSET Scans : Fail(F)

Spec == Init /\ [][Next]_vars
=============================================================================
