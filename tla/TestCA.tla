-------------------------------- MODULE TestCA --------------------------------
(***************************************************************************)
(* internal/testca: self-signed certificates for the tests and the mock    *)
(* TLS server, with the encodings they are handed out in.                  *)
(***************************************************************************)
EXTENDS Certificate

CertSpec == [commonName : Texts, dns : Seq(Texts), ips : Seq(Texts),
             notBefore : Time, notAfter : Time, isCA : BOOLEAN]

\* A valid leaf, from one hour ago to a year from now.
Default(now, hour, year) ==
    [commonName |-> "example.test", dns |-> <<"example.test", "www.example.test">>,
     ips |-> <<"127.0.0.1">>, notBefore |-> now - hour, notAfter |-> now + year,
     isCA |-> FALSE]

\* The template, field by field, as CreateCertificate and the parser give it
\* back; the certificate's identity is that of its subject.
Template(spec) ==
    [raw |-> spec.commonName, notBefore |-> spec.notBefore, notAfter |-> spec.notAfter,
     isCA |-> spec.isCA, dns |-> spec.dns, ips |-> spec.ips]

AsDER(cert) == [size |-> 1, space |-> FALSE, armor |-> FALSE, blocks |-> <<>>,
                der |-> [ok |-> TRUE, cert |-> cert]]

AsPEM(type, cert) ==
    [size |-> 1, space |-> FALSE, armor |-> TRUE, der |-> Garbage,
     blocks |-> <<[decodes |-> TRUE, type |-> type, der |-> AsDER(cert).der]>>]

Generate(spec) ==
    LET cert == Template(spec)
    IN  [Cert |-> cert, DER |-> AsDER(cert), PEM |-> AsPEM("CERTIFICATE", cert),
         TLSCert |-> <<cert>>]
=============================================================================
