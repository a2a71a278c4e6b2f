-------------------------- MODULE CertificateProofs --------------------------
(***************************************************************************)
(* Lemmas about the operators of Certificate that the theorems about the   *)
(* batches and the scans rest on: what parsing gives, and what rows the    *)
(* table functions flatten a certificate or a chain into.                  *)
(***************************************************************************)
EXTENDS Certificate, WellFoundedInduction, TLAPS

\* A set of natural numbers that is not empty has a least element.
LEMMA LeastOf ==
    ASSUME NEW T, T \subseteq Nat, T # {}
    PROVE  \E x \in T : \A y \in T : x <= y
<1> DEFINE R == OpToRel(<, Nat)
<1>1. IsWellFoundedOn(R, Nat)
  BY NatLessThanWellFounded, Zenon
<1>2. \A x, y \in Nat : y < x => <<y, x>> \in R
  BY DEF OpToRel
<1> HIDE DEF R
<1>3. PICK x \in T : \A y \in T : ~(<<y, x>> \in R)
  BY <1>1, WFMin, ZenonT(20)
<1>4. \A y \in T : ~(y < x)
  BY <1>2, <1>3, Zenon
<1>5. \A y \in T : x <= y
  BY <1>4
<1> QED
  BY <1>5

\* pem.Decode returns one of the blocks of the text: the first that decodes.
LEMMA FirstDecodable ==
    ASSUME NEW raw \in Bytes, Decodable(raw) # {}
    PROVE  \E i \in Decodable(raw) :
              /\ PemDecode(raw) = raw.blocks[i]
              /\ PemDecode(raw) \in PemBlock
              /\ \A j \in DOMAIN raw.blocks : j < i => ~raw.blocks[j].decodes
<1> DEFINE D == Decodable(raw)
           k == CHOOSE i \in D : \A j \in D : i <= j
<1>1. raw.blocks \in Seq(PemBlock) /\ D \subseteq DOMAIN raw.blocks
  BY DEF Bytes, Decodable
<1>2. DOMAIN raw.blocks \subseteq Nat
  BY <1>1
<1>3. \E i \in D : \A j \in D : i <= j
  BY <1>1, <1>2, LeastOf, Zenon
<1>4. k \in D /\ \A j \in D : k <= j
  BY <1>3, Zenon
<1>5. PemDecode(raw) = raw.blocks[k]
  BY Zenon DEF PemDecode
<1>6. raw.blocks[k] \in PemBlock
  BY <1>1, <1>4
<1>7. \A j \in DOMAIN raw.blocks : j < k => ~raw.blocks[j].decodes
  <2> HIDE DEF k
  <2> QED BY <1>1, <1>2, <1>4 DEF Decodable
<1> QED
  BY <1>4, <1>5, <1>6, <1>7, Zenon

LEMMA ParseCertificateType ==
    ASSUME NEW raw \in Bytes
    PROVE  ParseCertificate(raw) \in Parsed
<1>1. ASSUME NEW der \in Der PROVE ParseDer(der) \in Parsed
  <2>1. CASE der.ok
    <3>1. ~Garbage.ok
      BY DEF Garbage
    <3>2. der \in [ok : {TRUE}, cert : Cert]
      BY <2>1, <3>1 DEF Der
    <3>3. der.cert \in Cert
      BY <3>2
    <3> QED
      BY <2>1, <3>3 DEF ParseDer, Parsed
  <2>2. CASE ~der.ok
    BY <2>2 DEF ParseDer, ParseFailed, Parsed, Errors
  <2> QED
    BY <2>1, <2>2
<1>2. \A why \in Errors : ParseFailed(why) \in Parsed
  BY DEF ParseFailed, Parsed
<1>3. Garbage \in Der
  BY DEF Der
<1>4. /\ raw.der \in Der /\ raw.armor \in BOOLEAN /\ raw.space \in BOOLEAN
  BY DEF Bytes
<1>5. CASE raw.size = 0
  BY <1>2, <1>5 DEF ParseCertificate, Errors
<1>6. CASE raw.size # 0 /\ raw.armor /\ Decodable(raw) = {}
  BY <1>2, <1>6 DEF ParseCertificate, Errors
<1>7. CASE raw.size # 0 /\ raw.armor /\ Decodable(raw) # {}
  <2>1. PemDecode(raw).der \in Der
    BY <1>7, FirstDecodable DEF PemBlock
  <2> QED
    BY <1>1, <1>2, <1>7, <2>1 DEF ParseCertificate, Errors
<1>8. CASE raw.size # 0 /\ ~raw.armor
  BY <1>1, <1>3, <1>4, <1>8 DEF ParseCertificate
<1> QED
  BY <1>4, <1>5, <1>6, <1>7, <1>8

LEMMA parseHandleType ==
    ASSUME NEW colType, NEW cell \in Cell
    PROVE  parseHandle(colType, cell) \in Parsed
<1>1. cell.bytes \in Bytes
  BY DEF Cell
<1> QED
  BY <1>1, ParseCertificateType DEF parseHandle, ParseFailed, Parsed, Errors

LEMMA CertInfoType ==
    ASSUME NEW c \in Cert, NEW t
    PROVE  CertInfo(c, t) \in Seq(Row)
<1>1. ASSUME NEW f PROVE InfoValue(f, c, t) \in Texts \cup {"true", "false"}
  <2>1. \A b : FormatBool(b) \in {"true", "false"}
    BY Zenon DEF FormatBool
  <2>2. Text(c) \in Texts
    BY DEF Text, Cert
  <2> QED
    BY <2>1, <2>2, Zenon DEF InfoValue
<1>2. ASSUME NEW i \in DOMAIN InfoFields
      PROVE  [field |-> InfoFields[i], value |-> InfoValue(InfoFields[i], c, t)] \in Row
  <2>1. InfoFields[i] \in {InfoFields[j] : j \in DOMAIN InfoFields}
    OBVIOUS
  <2> HIDE DEF InfoFields
  <2> QED
    BY <1>1, <2>1 DEF Row, InfoRow
<1>3. DOMAIN InfoFields = 1..11
  BY DEF InfoFields
<1>4. DOMAIN CertInfo(c, t) = 1..11 /\ \A i \in 1..11 : CertInfo(c, t)[i] \in Row
  BY <1>2, <1>3, Zenon DEF CertInfo
<1>5. CertInfo(c, t) = [i \in 1..11 |-> CertInfo(c, t)[i]]
  BY <1>3, <1>4, Zenon DEF CertInfo
<1> QED
  BY <1>4, <1>5

LEMMA ChainRowsType ==
    ASSUME NEW chain \in Seq(Cert)
    PROVE  ChainRows(chain) \in Seq(Row)
<1>1. ASSUME NEW i \in DOMAIN chain PROVE tlsChainRow(chain, i) \in Row
  <2>1. chain[i] \in Cert /\ i - 1 \in Nat
    OBVIOUS
  <2>2. tlsChainRow(chain, i) \in ChainRow
    BY <2>1 DEF tlsChainRow, Text, Cert, ChainRow
  <2> QED
    BY <2>2 DEF Row
<1>2. Len(chain) \in Nat /\ DOMAIN chain = 1..Len(chain)
  OBVIOUS
<1> QED
  BY <1>1, <1>2 DEF ChainRows
==============================================================================
