------------------------------- MODULE Catalog -------------------------------
(***************************************************************************)
(* What the worker tells the engine about itself (Register, the metadata   *)
(* of each function, the cert_fields view, cert_info's field list), kept   *)
(* by hand in four places, and a session of a client that relies on it: it *)
(* browses the view or an example, has a statement planned, runs it, and   *)
(* dumps the same certificate with cert_info, while time passes.           *)
(***************************************************************************)
EXTENDS TestCA

CONSTANTS
    Specs,    \* the certificates a session may be about
    MaxNow    \* bound: the clock runs from 0 to MaxNow

ASSUME SpecsAssumption == Specs \subseteq CertSpec
ASSUME ClockAssumption == MaxNow \in Nat

VARIABLES
    made,     \* the certificate of the session, as testca made it
    query,    \* what the client has read: the call to make, and who told it
    stmt,     \* the statement as planned
    answer,   \* what its last execution returned
    dump,     \* cert_info's rows for the same certificate
    now       \* the clock

vars == <<made, query, stmt, answer, dump, now>>

----------------------------------------------------------------------------
(* Registration.                                                           *)

\* A scalar of one of the families: its result type, the function its
\* examples call, and the accessor it applies to the parsed certificate.
Scalar(type, name, example, accessor) ==
    [name |-> name, type |-> type, example |-> example, accessor |-> accessor]

StringScalars ==
    {Scalar("VARCHAR", "cert_subject", "cert_subject", "Subject"),
     Scalar("VARCHAR", "cert_issuer", "cert_issuer", "Issuer"),
     Scalar("VARCHAR", "cert_serial", "cert_serial", "Serial"),
     Scalar("VARCHAR", "cert_key_algorithm", "cert_key_algorithm", "KeyAlgorithm"),
     Scalar("VARCHAR", "cert_signature_algorithm", "cert_signature_algorithm",
            "SignatureAlgorithm"),
     Scalar("VARCHAR", "cert_fingerprint", "cert_fingerprint", "Fingerprint")}

\* Variant: the example of the first is pasted into the second.
BoolScalarsPasted ==
    {Scalar("BOOLEAN", "cert_is_expired", "cert_is_expired", "IsExpired"),
     Scalar("BOOLEAN", "cert_is_ca", "cert_is_expired", "IsCA")}

BoolScalars ==
    {Scalar("BOOLEAN", "cert_is_expired", "cert_is_expired", "IsExpired"),
     Scalar("BOOLEAN", "cert_is_ca", "cert_is_ca", "IsCA")}

\* Variant: both ends of the window read the same accessor.
TimestampScalarsPasted ==
    {Scalar("TIMESTAMP", "cert_not_before", "cert_not_before", "NotBefore"),
     Scalar("TIMESTAMP", "cert_not_after", "cert_not_after", "NotBefore")}

TimestampScalars ==
    {Scalar("TIMESTAMP", "cert_not_before", "cert_not_before", "NotBefore"),
     Scalar("TIMESTAMP", "cert_not_after", "cert_not_after", "NotAfter")}

SANsScalar == {Scalar("VARCHAR[]", "cert_sans", "cert_sans", "SANs")}

\* The scalars; the two table functions, cert_info and tls_inspect, are not
\* called through a statement here.
Register == StringScalars \cup BoolScalars \cup TimestampScalars \cup SANsScalar

\* Metadata: each family declares all its functions StabilityConsistent.
Stability(f) == "consistent"

\* Variant: the flag is rendered like a text.
ApplyAsText(accessor, c, t) ==
    CASE accessor = "IsExpired" -> <<FormatBool(IsExpired(c, t))>>
      [] accessor = "SANs"      -> SANs(c)
      [] OTHER                  -> <<accessor, Text(c)>>

\* The accessors, and the value of a boolean or a list rendered as cert_info
\* renders it; the texts of a certificate are told apart by their accessor.
Apply(accessor, c, t) ==
    CASE accessor = "IsExpired" -> <<FormatBool(IsExpired(c, t))>>
      [] accessor = "IsCA"      -> <<FormatBool(c.isCA)>>
      [] accessor = "SANs"      -> SANs(c)
      [] OTHER                  -> <<accessor, Text(c)>>

\* cert_info: the accessor behind each of its fields.
InfoAccessors == <<"Subject", "Issuer", "Serial", "NotBefore", "NotAfter",
                   "IsExpired", "KeyAlgorithm", "SignatureAlgorithm",
                   "Fingerprint", "IsCA", "SANs">>

----------------------------------------------------------------------------
(* The browsable registry and the examples.                                *)

Field(field, scalar, type) == [field |-> field, scalar |-> scalar, type |-> type]

certFieldRegistry ==
    <<Field("subject", "cert_subject", "VARCHAR"),
      Field("issuer", "cert_issuer", "VARCHAR"),
      Field("serial", "cert_serial", "VARCHAR"),
      Field("not_before", "cert_not_before", "TIMESTAMP"),
      Field("not_after", "cert_not_after", "TIMESTAMP"),
      Field("is_expired", "cert_is_expired", "BOOLEAN"),
      Field("key_algorithm", "cert_key_algorithm", "VARCHAR"),
      Field("signature_algorithm", "cert_signature_algorithm", "VARCHAR"),
      Field("fingerprint_sha256", "cert_fingerprint", "VARCHAR"),
      Field("is_ca", "cert_is_ca", "BOOLEAN"),
      Field("sans", "cert_sans", "VARCHAR[]")>>

\* The rows the view's VALUES list gives back.
CertFieldsView == {certFieldRegistry[n] : n \in DOMAIN certFieldRegistry}

\* The scalars the schema's own examples call.
SchemaExampleQueries == {"cert_subject", "cert_is_expired", "cert_sans"}

\* The fields the example of cert_info selects.
certInfoExampleFields == {"subject", "issuer", "not_after", "is_ca"}

----------------------------------------------------------------------------
(* The session.                                                            *)

Encodings == {"PEM", "DER"}

\* DuckDB passes text as a VARCHAR and bytes as a BLOB column.
Argument(encoding) ==
    IF encoding = "PEM"
    THEN parseHandle("String", [null |-> FALSE, bytes |-> made.PEM])
    ELSE parseHandle("Binary", [null |-> FALSE, bytes |-> made.DER])

NoQuery  == [from |-> "none", of |-> "", calls |-> "", type |-> ""]
NoStmt   == [fn |-> Scalar("", "", "", ""), encoding |-> "PEM", planned |-> 0,
             folded |-> FALSE, value |-> <<>>]
NoAnswer == [done |-> FALSE, err |-> "none", value |-> <<>>, at |-> 0]
NoDump   == [rows |-> <<>>, at |-> 0]

\* One call of a scalar over one row, at the current time.
Evaluate(f, encoding) ==
    LET h == Argument(encoding)
    IN  [err |-> h.err,
         value |-> IF h.err = "none" THEN Apply(f.accessor, h.cert, now) ELSE <<>>]

Init ==
    /\ made \in {Generate(spec) : spec \in Specs}
    /\ query = NoQuery /\ stmt = NoStmt /\ answer = NoAnswer /\ dump = NoDump
    /\ now = 0

\* SELECT ... FROM cert_fields: the client learns which scalar gives a field.
Browse == \E row \in CertFieldsView :
    /\ query = NoQuery
    /\ query' = [from |-> "view", of |-> row.field, calls |-> row.scalar, type |-> row.type]
    /\ UNCHANGED <<made, stmt, answer, dump, now>>

\* The examples of a function, of the same text in its tags and its metadata.
ReadExample == \E f \in Register :
    /\ query = NoQuery
    /\ query' = [from |-> "example", of |-> f.name, calls |-> f.example, type |-> ""]
    /\ UNCHANGED <<made, stmt, answer, dump, now>>

ReadSchemaExample == \E name \in SchemaExampleQueries :
    /\ query = NoQuery
    /\ query' = [NoQuery EXCEPT !.from = "schema", !.calls = name]
    /\ UNCHANGED <<made, stmt, answer, dump, now>>

\* A client that has read nothing guesses a name.
Guess ==
    /\ query = NoQuery
    /\ query' = [NoQuery EXCEPT !.from = "guess", !.calls = "cert_expiry"]
    /\ UNCHANGED <<made, stmt, answer, dump, now>>

\* The engine binds the call.  A consistent function of constant arguments
\* may be evaluated there and then, once for every execution.
Plan(encoding, folds) == \E f \in Register :
    /\ query # NoQuery /\ stmt = NoStmt
    /\ f.name = query.calls
    /\ folds => Stability(f) = "consistent" /\ Evaluate(f, encoding).err = "none"
    /\ stmt' = [fn |-> f, encoding |-> encoding, planned |-> now, folded |-> folds,
                value |-> IF folds THEN Evaluate(f, encoding).value ELSE <<>>]
    /\ UNCHANGED <<made, query, answer, dump, now>>

\* A call of a function that is not registered.
PlanFails ==
    /\ query # NoQuery
    /\ \A f \in Register : f.name # query.calls
    /\ answer' = [NoAnswer EXCEPT !.done = TRUE, !.err = "binder", !.at = now]
    /\ UNCHANGED <<made, query, stmt, dump, now>>

Execute ==
    /\ stmt # NoStmt
    /\ LET fresh == Evaluate(stmt.fn, stmt.encoding)
       IN  answer' = [done |-> TRUE, at |-> now,
                      err   |-> IF stmt.folded THEN "none" ELSE fresh.err,
                      value |-> IF stmt.folded THEN stmt.value ELSE fresh.value]
    /\ UNCHANGED <<made, query, stmt, dump, now>>

\* cert_info of the session's certificate: one parse, one reading of the clock.
DumpInfo(encoding) ==
    /\ dump = NoDump
    /\ Argument(encoding).err = "none"
    /\ dump' = [rows |-> [n \in DOMAIN InfoFields |->
                            [field |-> InfoFields[n],
                             value |-> Apply(InfoAccessors[n], Argument(encoding).cert, now)]],
                at |-> now]
    /\ UNCHANGED <<made, query, stmt, answer, now>>

ClockTick == now < MaxNow /\ now' = now + 1 /\ UNCHANGED <<made, query, stmt, answer, dump>>

Next == \/ Browse \/ ReadExample \/ ReadSchemaExample \/ Guess
        \/ (\E e \in Encodings, folds \in BOOLEAN : Plan(e, folds))
        \/ PlanFails \/ Execute
        \/ (\E e \in Encodings : DumpInfo(e))
        \/ ClockTick

Spec == Init /\ [][Next]_vars

----------------------------------------------------------------------------
(* Properties.                                                             *)

\* Every part of the session has its type; in particular a planned statement
\* is of a registered function and a BOOLEAN one answers true or false.
TypeOK ==
    /\ made \in {Generate(spec) : spec \in Specs}
    /\ query.from \in {"none", "view", "example", "schema", "guess"}
    /\ stmt # NoStmt => stmt.fn \in Register /\ stmt.encoding \in Encodings
    /\ stmt.planned \in 0..now /\ stmt.folded \in BOOLEAN
    /\ answer.done \in BOOLEAN /\ answer.err \in Errors \cup {"none", "binder"}
    /\ answer.value # <<>> /\ stmt.fn.type = "BOOLEAN" => answer.value \in {<<"true">>, <<"false">>}
    /\ answer.at \in 0..now /\ dump.at \in 0..now
    /\ \A n \in DOMAIN dump.rows : dump.rows[n].field \in {InfoFields[m] : m \in DOMAIN InfoFields}
    /\ now \in 0..MaxNow

\* cert_is_expired may have been read at any moment from the planning to the
\* execution; the dump read it at its own.
VerdictMoved == \E t \in stmt.planned..answer.at :
    IsExpired(made.Cert, t) # IsExpired(made.Cert, dump.at)

\* The lockstep meta.go:319 asks for: cert_info has exactly one row of each
\* field of the view; the scalar the view names for it returns the type the
\* view says (meta.go:315) and answers with that row's value, for every
\* certificate, in either encoding, whenever the two are read; only is_expired
\* may differ, when the window opened or closed in between.
ViewMatchesDump ==
    query.from = "view" /\ answer.done /\ dump # NoDump =>
        /\ stmt.fn.type = query.type
        /\ \E n \in DOMAIN dump.rows :
            /\ \A m \in DOMAIN dump.rows : dump.rows[m].field = query.of <=> m = n
            /\ \/ answer.value = dump.rows[n].value
               \/ query.of = "is_expired" /\ VerdictMoved

\* What a client was told works as told (meta.go:71, functions.go:658): the
\* function exists, parses both encodings without an error, an example of a
\* function is a call of that function, and cert_info has the fields its own
\* example picks.
ToldCallsWork ==
    /\ query.from \in {"view", "example", "schema"} /\ answer.done =>
        /\ answer.err = "none"
        /\ query.from = "example" => stmt.fn.name = query.of
    /\ dump # NoDump => \A f \in certInfoExampleFields :
                            \E n \in DOMAIN dump.rows : dump.rows[n].field = f
=============================================================================
