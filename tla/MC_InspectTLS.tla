--------------------------- MODULE MC_InspectTLS ---------------------------
(* A small endpoint for InspectTLS: two virtual hosts and a name it has no *)
(* certificate for.                                                        *)
EXTENDS InspectTLS

CONSTANTS host, alias, unknown, leaf, other, root

MCNames    == {host, alias, unknown}
MCServerNames == {NoName, alias, unknown}
MCPresents == [n \in MCNames |-> IF n = host THEN <<leaf, root>>
                                 ELSE IF n = alias THEN <<other>> ELSE <<>>]
MCTrusted  == {<<host, <<leaf, root>>>>}

\* Six-bit integers, four units a millisecond: 9 ms wraps to a negative
\* Duration and 17 ms to four units.
MCTimeoutsMs     == {-1, 0, 2, 9, 17}
=============================================================================
