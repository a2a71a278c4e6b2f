--------------------------- MODULE MC_ScalarBatch ---------------------------
(* Columns of up to three rows over certificates with no, one and three SANs. *)
EXTENDS ScalarBatch

MCCert(name, to, dns, ips) ==
    [raw |-> name, notBefore |-> 0, notAfter |-> to, isCA |-> name = "root",
     dns |-> dns, ips |-> ips]

leaf == MCCert("leaf", 0, <<"a", "b">>, <<"::1">>)   \* expires during the batch
one  == MCCert("one", 9, <<>>, <<"::1">>)
root == MCCert("root", 9, <<>>, <<>>)

MCTexts == {"leaf", "one", "root", "a", "b", "::1"}

Asn1(c)    == [ok |-> TRUE, cert |-> c]
Block(c)   == [decodes |-> TRUE, type |-> "CERTIFICATE", der |-> Asn1(c)]
Key        == [decodes |-> TRUE, type |-> "other", der |-> Garbage]
Corrupt(c) == [decodes |-> FALSE, type |-> "CERTIFICATE", der |-> Asn1(c)]

Pem(space, blocks) ==
    [size |-> 1, space |-> space, armor |-> TRUE, blocks |-> blocks, der |-> Garbage]
Binary(space, der) ==
    [size |-> 1, space |-> space, armor |-> FALSE, blocks |-> <<>>, der |-> der]

NullCell == [null |-> TRUE, bytes |-> NoBytes]
Holding(bytes) == [null |-> FALSE, bytes |-> bytes]

\* One cell of each kind ParseCertificate tells apart.
GoodCells == {Holding(Binary(FALSE, Asn1(leaf))), Holding(Pem(TRUE, <<Block(one), Block(root)>>)),
              Holding(Pem(FALSE, <<Corrupt(leaf), Block(root)>>))}   \* the corrupt one is skipped
BadCells  == {Holding(NoBytes), Holding(Pem(FALSE, <<Corrupt(leaf)>>)),
              Holding(Pem(FALSE, <<Key, Block(leaf)>>)), Holding(Binary(FALSE, Garbage)),
              Holding(Binary(TRUE, Asn1(leaf)))}

ColumnsOf(type, cells) ==
    {[type |-> type, cells |-> c] : c \in UNION {[1..n -> cells] : n \in 0..3}}

MCColumns == ColumnsOf("String", GoodCells \cup BadCells \cup {NullCell})
             \cup ColumnsOf("Binary", GoodCells \cup {NullCell})
             \cup ColumnsOf("other", {NullCell, Holding(Binary(FALSE, Asn1(leaf)))})
MCRepeated == ColumnsOf("Binary", GoodCells)
=============================================================================
