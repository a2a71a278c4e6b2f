---------------------------- MODULE Certificate ----------------------------
(***************************************************************************)
(* The pure, offline core of the worker: what the bytes of an argument     *)
(* mean (ParseCertificate), what the accessors read from a certificate,    *)
(* and the rows cert_info flattens it into.  There is no state here; the   *)
(* modules that process batches and scans are built from these operators.  *)
(*                                                                         *)
(* A certificate keeps the parts the worker computes with (its validity    *)
(* window, its CA flag, its two SAN lists).  Every text that is a function *)
(* of the certificate alone (subject, serial, fingerprint, ...) is stood   *)
(* for by the certificate's own identity, "raw".                           *)
(***************************************************************************)
EXTENDS Integers, Sequences

CONSTANT Texts    \* identities of certificates, DNS names and IP addresses

Time == Int

Cert == [raw : Texts, notBefore : Time, notAfter : Time, isCA : BOOLEAN,
         dns : Seq(Texts), ips : Seq(Texts)]

NoCert == [raw |-> "", notBefore |-> 0, notAfter |-> 0, isCA |-> FALSE,
           dns |-> <<>>, ips |-> <<>>]

----------------------------------------------------------------------------
(* The bytes of an argument, as far as ParseCertificate looks at them.     *)

\* What a DER parser makes of a byte string.
Garbage == [ok |-> FALSE, cert |-> NoCert]
Der == [ok : {TRUE}, cert : Cert] \cup {Garbage}

\* One "-----BEGIN ... -----END" block; decodes: its armor and base64 are fine.
PemBlock == [decodes : BOOLEAN, type : {"CERTIFICATE", "other"}, der : Der]

\* space: the bytes start with white space; armor: what follows that white
\* space starts with "-----BEGIN"; der: the bytes after that white space, as DER.
Bytes == [size : Nat, space : BOOLEAN, armor : BOOLEAN,
          blocks : Seq(PemBlock), der : Der]

NoBytes == [size |-> 0, space |-> FALSE, armor |-> FALSE, blocks |-> <<>>,
            der |-> Garbage]

\* encoding/pem: a block that does not decode is skipped and the first one
\* that does is returned; the rest of the text is ignored by the caller.
Decodable(raw) == {i \in DOMAIN raw.blocks : raw.blocks[i].decodes}
PemDecode(raw) ==
    raw.blocks[CHOOSE i \in Decodable(raw) : \A j \in Decodable(raw) : i <= j]

Errors == {"empty input", "no PEM block", "PEM block type", "bad DER", "column type"}
Parsed == [err : {"none"}, cert : Cert] \cup [err : Errors, cert : {NoCert}]
ParseFailed(why) == [err |-> why, cert |-> NoCert]

\* crypto/x509: parse one DER certificate.
ParseDer(der) == IF der.ok THEN [err |-> "none", cert |-> der.cert]
                           ELSE ParseFailed("bad DER")

\* The leading white space is trimmed only to look for the armor: the DER
\* branch parses the bytes as they came, where white space is not DER.
ParseCertificate(raw) ==
    CASE raw.size = 0 -> ParseFailed("empty input")
      [] raw.size # 0 /\ raw.armor /\ Decodable(raw) = {} -> ParseFailed("no PEM block")
      [] raw.size # 0 /\ raw.armor /\ Decodable(raw) # {} ->
            IF PemDecode(raw).type # "CERTIFICATE"
            THEN ParseFailed("PEM block type")
            ELSE ParseDer(PemDecode(raw).der)
      [] raw.size # 0 /\ ~raw.armor ->
            ParseDer(IF raw.space THEN Garbage ELSE raw.der)

----------------------------------------------------------------------------
(* Arrow columns.  A column has one type; a cell is NULL or holds bytes.   *)

Cell == [null : BOOLEAN, bytes : Bytes]

\* The column types certBytesAt can read bytes from.
CertColumnTypes == {"String", "LargeString", "Binary", "LargeBinary"}
ColumnTypes == CertColumnTypes \cup {"other"}

parseHandle(colType, cell) ==
    IF colType \in CertColumnTypes THEN ParseCertificate(cell.bytes)
                                   ELSE ParseFailed("column type")

----------------------------------------------------------------------------
(* Accessors.                                                              *)

\* Subject, Issuer, Serial, KeyAlgorithm, SignatureAlgorithm, Fingerprint
\* and the formatted validity bounds: texts the certificate determines.
Text(c) == c.raw

\* Both ends of the validity window belong to it.
IsExpired(c, now) == now < c.notBefore \/ now > c.notAfter

\* DNS names first, then the IP addresses.
SANs(c) == c.dns \o c.ips

FormatBool(b) == IF b THEN "true" ELSE "false"

----------------------------------------------------------------------------
(* The rows of the two table functions.                                    *)

InfoFields == <<"subject", "issuer", "serial", "not_before", "not_after",
                "is_expired", "key_algorithm", "signature_algorithm",
                "fingerprint_sha256", "is_ca", "sans">>

InfoRow == [field : {InfoFields[i] : i \in DOMAIN InfoFields},
            value : Texts \cup {"true", "false"}]

InfoValue(field, c, now) ==
    CASE field = "is_expired" -> FormatBool(IsExpired(c, now))
      [] field = "is_ca"      -> FormatBool(c.isCA)
      [] OTHER                -> Text(c)

CertInfo(c, now) ==
    [i \in DOMAIN InfoFields |->
        [field |-> InfoFields[i], value |-> InfoValue(InfoFields[i], c, now)]]

\* text stands for the subject, issuer and fingerprint columns.
ChainRow == [seq : Nat, text : Texts, notBefore : Time, notAfter : Time,
             isCA : BOOLEAN]

\* Variant: seq counts from minus one.
tlsChainRowShifted(chain, i) ==
    [seq |-> i - 2, text |-> Text(chain[i]), notBefore |-> chain[i].notBefore,
     notAfter |-> chain[i].notAfter, isCA |-> chain[i].isCA]

tlsChainRow(chain, i) ==
    [seq |-> i - 1, text |-> Text(chain[i]), notBefore |-> chain[i].notBefore,
     notAfter |-> chain[i].notAfter, isCA |-> chain[i].isCA]

ChainRows(chain) == [i \in DOMAIN chain |-> tlsChainRow(chain, i)]

Row == InfoRow \cup ChainRow
=============================================================================
