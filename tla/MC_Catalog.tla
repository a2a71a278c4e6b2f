----------------------------- MODULE MC_Catalog -----------------------------
(* A leaf valid throughout, one that expires on the way, a CA still to come. *)
EXTENDS Catalog

MCSpec(name, from, to, ca) ==
    [Default(0, 0, 0) EXCEPT !.commonName = name, !.notBefore = from, !.notAfter = to,
                             !.isCA = ca]

MCSpecs == {Default(0, 1, 9), MCSpec("old", 0, 0, FALSE), MCSpec("ca", 1, 9, TRUE)}
MCTexts == {"example.test", "www.example.test", "127.0.0.1", "old", "ca"}
=============================================================================
