---------------------------- MODULE MC_TableScan ----------------------------
(* Small instances of TableScan: certificates, calls and chains for TLC. *)
EXTENDS TableScan

CertOf(name, from, to) ==
    [raw |-> name, notBefore |-> from, notAfter |-> to, isCA |-> name = "root",
     dns |-> <<"host">>, ips |-> <<"::1">>]

leaf    == CertOf("leaf", 0, 0)       \* expires while a scan runs
renewed == CertOf("renewed", 0, 9)
root    == CertOf("root", 0, 9)

DerBytes(c)  == [NoBytes EXCEPT !.size = 1, !.der = [ok |-> TRUE, cert |-> c]]
GarbageBytes == [NoBytes EXCEPT !.size = 1]

Arg(fn, args, bytes) ==
    [fn |-> fn, args |-> args, colType |-> "Binary",
     cell |-> [null |-> args # "value", bytes |-> bytes]]

Info      == Arg("cert_info", "value", DerBytes(leaf))
Malformed == Arg("cert_info", "value", GarbageBytes)
Inspect   == Arg("tls_inspect", "value", NoBytes)

MCScanCalls == {Info, Inspect}
MCAllCalls  == {Info, Malformed, Inspect} \cup
               {Arg(fn, args, NoBytes) : fn \in {"cert_info", "tls_inspect"},
                                         args \in {"bad", "null"}}

MCTexts == {"leaf", "renewed", "root", "host", "::1"}

\* With four rows a tick: one short batch, one full batch, a full and a short one.
MCChains == {<<leaf>>, <<leaf, renewed, renewed, root>>,
             <<renewed, renewed, renewed, renewed, root>>}
MCTwoChains == {<<leaf, root, root, root>>, <<renewed, root, root, root, root>>}
=============================================================================
