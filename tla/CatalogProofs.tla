---------------------------- MODULE CatalogProofs ----------------------------
(***************************************************************************)
(* Proofs about Catalog: the four hand-kept lists of the worker agree for  *)
(* every certificate, in either encoding and whenever a client reads them. *)
(***************************************************************************)
EXTENDS Catalog, TLAPS

----------------------------------------------------------------------------
(* The parser gives a certificate back as testca made it.                  *)

LEMMA ParsesDER ==
  ASSUME NEW c
  PROVE  ParseCertificate(AsDER(c)) = [err |-> "none", cert |-> c]
<1> DEFINE raw == AsDER(c)
<1>1. /\ raw.size # 0 /\ ~raw.armor /\ ~raw.space
      /\ raw.der = [ok |-> TRUE, cert |-> c]
  BY DEF AsDER
<1> HIDE DEF raw
<1>2. ParseDer(raw.der) = [err |-> "none", cert |-> c]
  BY <1>1 DEF ParseDer
<1>3. ParseCertificate(raw) = ParseDer(raw.der)
  BY <1>1, Zenon DEF ParseCertificate
<1> QED
  BY <1>2, <1>3 DEF raw

LEMMA ParsesPEM ==
  ASSUME NEW c
  PROVE  ParseCertificate(AsPEM("CERTIFICATE", c)) = [err |-> "none", cert |-> c]
<1> DEFINE raw == AsPEM("CERTIFICATE", c)
           b == [decodes |-> TRUE, type |-> "CERTIFICATE", der |-> AsDER(c).der]
<1>1. raw.size # 0 /\ raw.armor /\ raw.blocks = <<b>>
  <2>1. raw = [size |-> 1, space |-> FALSE, armor |-> TRUE, der |-> Garbage,
               blocks |-> <<b>>]
    BY Zenon DEF AsPEM
  <2> HIDE DEF raw, b
  <2> QED
    BY <2>1
<1>2. /\ b.decodes /\ b.type = "CERTIFICATE" /\ b.der = [ok |-> TRUE, cert |-> c]
  BY DEF AsDER
<1> HIDE DEF raw, b
<1>3. DOMAIN raw.blocks = {1} /\ raw.blocks[1] = b
  BY <1>1
<1>4. Decodable(raw) = {1}
  BY <1>2, <1>3 DEF Decodable
<1>5. PemDecode(raw) = b
  <2>1. 1 <= 1
    OBVIOUS
  <2>2. (CHOOSE i \in Decodable(raw) : \A j \in Decodable(raw) : i <= j) = 1
    BY <1>4, <2>1, Zenon
  <2> QED
    BY <1>3, <2>2, Zenon DEF PemDecode
<1>6. ParseDer(b.der) = [err |-> "none", cert |-> c]
  BY <1>2 DEF ParseDer
<1>7. ParseCertificate(raw) = ParseDer(b.der)
  <2>1. Decodable(raw) # {}
    BY <1>4
  <2> QED
    BY <1>1, <1>2, <1>5, <2>1, Zenon DEF ParseCertificate
<1> QED
  BY <1>6, <1>7 DEF raw

Certificates == {Generate(spec) : spec \in Specs}

LEMMA ArgumentParses ==
  ASSUME made \in Certificates, NEW encoding \in Encodings
  PROVE  Argument(encoding).err = "none" /\ Argument(encoding).cert = made.Cert
<1>1. PICK spec \in Specs : made = Generate(spec)
  BY DEF Certificates
<1> DEFINE cert == Template(spec)
<1>2. /\ made.Cert = cert /\ made.DER = AsDER(cert)
      /\ made.PEM = AsPEM("CERTIFICATE", cert)
  BY <1>1 DEF Generate
<1> HIDE DEF cert
<1>3. "String" \in CertColumnTypes /\ "Binary" \in CertColumnTypes
  BY DEF CertColumnTypes
<1>4. /\ [null |-> FALSE, bytes |-> made.PEM].bytes = made.PEM
      /\ [null |-> FALSE, bytes |-> made.DER].bytes = made.DER
  OBVIOUS
<1>5. Argument(encoding) = [err |-> "none", cert |-> cert]
  <2>1. CASE encoding = "PEM"
    BY <1>2, <1>3, <1>4, <2>1, ParsesPEM, Zenon DEF Argument, parseHandle
  <2>2. CASE encoding = "DER"
    BY <1>2, <1>3, <1>4, <2>2, ParsesDER, Zenon DEF Argument, parseHandle
  <2> QED
    BY <2>1, <2>2 DEF Encodings
<1> QED
  BY <1>2, <1>5

\* So a call of a scalar answers with its accessor's value, and no error.
LEMMA EvaluateApplies ==
  ASSUME made \in Certificates, NEW f, NEW encoding \in Encodings
  PROVE  /\ Evaluate(f, encoding).err = "none"
         /\ Evaluate(f, encoding).value = Apply(f.accessor, made.Cert, now)
<1> DEFINE h == Argument(encoding)
<1>1. h.err = "none" /\ h.cert = made.Cert
  BY ArgumentParses
<1> HIDE DEF h
<1>2. Evaluate(f, encoding) =
        [err |-> h.err,
         value |-> IF h.err = "none" THEN Apply(f.accessor, h.cert, now) ELSE <<>>]
  BY Zenon DEF Evaluate, h
<1> QED
  BY <1>1, <1>2

----------------------------------------------------------------------------
(* The lockstep of the lists.                                              *)

\* The places of cert_info's fields and of the registry.
Places == 1..11

LEMMA ListsAligned ==
  /\ DOMAIN InfoFields = Places /\ DOMAIN certFieldRegistry = Places
  /\ \A n \in Places : certFieldRegistry[n].field = InfoFields[n]
  /\ \A n, m \in Places : InfoFields[n] = InfoFields[m] => n = m
<1>1. DOMAIN InfoFields = Places /\ DOMAIN certFieldRegistry = Places
  BY DEF InfoFields, certFieldRegistry, Places
<1>2. \A n \in Places : certFieldRegistry[n].field = InfoFields[n]
  BY DEF InfoFields, certFieldRegistry, Places, Field
<1>3. \A n, m \in Places : InfoFields[n] = InfoFields[m] => n = m
  BY DEF InfoFields, Places
<1> QED
  BY <1>1, <1>2, <1>3

\* The scalar that a row of the view names, as it is registered.
Registered(n) ==
  Scalar(certFieldRegistry[n].type, certFieldRegistry[n].scalar,
         certFieldRegistry[n].scalar, InfoAccessors[n])

\* The registry lists exactly the scalars there are.
LEMMA RegistryIsRegister == Register = {Registered(n) : n \in Places}
<1>1. \A n \in Places : Registered(n) \in Register
  BY DEF Registered, Register, StringScalars, BoolScalars, TimestampScalars, SANsScalar,
         Places, certFieldRegistry, Field, InfoAccessors
<1>2. \A f \in Register : \E n \in Places : f = Registered(n)
  BY DEF Registered, Register, StringScalars, BoolScalars, TimestampScalars, SANsScalar,
         Places, certFieldRegistry, Field, InfoAccessors
<1> QED
  BY <1>1, <1>2

LEMMA NamesDiffer ==
  \A n, m \in Places : certFieldRegistry[n].scalar = certFieldRegistry[m].scalar => n = m
BY DEF Places, certFieldRegistry, Field

----------------------------------------------------------------------------
(* Values.                                                                 *)

\* Which accessor a scalar applies depends on its name alone, and is that of
\* the field the view gives it for.
LEMMA Lockstep ==
  ASSUME NEW n \in Places, NEW f \in Register, f.name = certFieldRegistry[n].scalar
  PROVE  f.type = certFieldRegistry[n].type /\ f.accessor = InfoAccessors[n]
<1>1. PICK m \in Places : f = Registered(m)
  BY RegistryIsRegister
<1>2. f.name = certFieldRegistry[m].scalar
  BY <1>1, Zenon DEF Registered, Scalar
<1>3. m = n
  BY <1>2, NamesDiffer
<1> QED
  BY <1>1, <1>3, Zenon DEF Registered, Scalar

\* Every example is of the function it is given with.
LEMMA ExamplesOwn ==
  /\ \A f \in Register : f.example = f.name
  /\ \A f, g \in Register : f.name = g.name => f = g
  /\ \A name \in SchemaExampleQueries : \E f \in Register : f.name = name
<1>1. \A n \in Places : /\ Registered(n).name = certFieldRegistry[n].scalar
                        /\ Registered(n).example = certFieldRegistry[n].scalar
  BY DEF Registered, Scalar
<1>2. \A f \in Register : f.example = f.name
  BY <1>1, RegistryIsRegister, Zenon
<1>3. ASSUME NEW f \in Register, NEW g \in Register, f.name = g.name
      PROVE  f = g
  <2>1. PICK n \in Places : f = Registered(n)
    BY RegistryIsRegister
  <2>2. PICK m \in Places : g = Registered(m)
    BY RegistryIsRegister
  <2>3. n = m
    BY <1>1, <1>3, <2>1, <2>2, NamesDiffer
  <2> QED
    BY <2>1, <2>2, <2>3
<1>4. \A name \in SchemaExampleQueries : \E f \in Register : f.name = name
  <2>1. /\ certFieldRegistry[1].scalar = "cert_subject"
        /\ certFieldRegistry[6].scalar = "cert_is_expired"
        /\ certFieldRegistry[11].scalar = "cert_sans"
        /\ 1 \in Places /\ 6 \in Places /\ 11 \in Places
    BY DEF certFieldRegistry, Field, Places
  <2>2. \A n \in Places : \E f \in Register : f.name = certFieldRegistry[n].scalar
    BY <1>1, RegistryIsRegister
  <2> QED
    BY <2>1, <2>2 DEF SchemaExampleQueries
<1> QED
  BY <1>2, <1>3, <1>4

\* A value read twice is the same, but for the verdict on the window.
LEMMA ValuesAgree ==
  ASSUME NEW n \in Places, NEW c, NEW t, NEW u
  PROVE  \/ Apply(InfoAccessors[n], c, t) = Apply(InfoAccessors[n], c, u)
         \/ InfoFields[n] = "is_expired" /\ IsExpired(c, t) # IsExpired(c, u)
<1>1. InfoAccessors[n] = "IsExpired" => InfoFields[n] = "is_expired"
  BY DEF Places, InfoAccessors, InfoFields
<1>2. CASE InfoAccessors[n] # "IsExpired"
  BY <1>2, Zenon DEF Apply
<1>3. CASE InfoAccessors[n] = "IsExpired" /\ IsExpired(c, t) = IsExpired(c, u)
  BY <1>3, Zenon DEF Apply
<1>4. CASE InfoAccessors[n] = "IsExpired" /\ IsExpired(c, t) # IsExpired(c, u)
  BY <1>1, <1>4
<1> QED
  BY <1>2, <1>3, <1>4

\* A BOOLEAN scalar answers true or false.
LEMMA VerdictsAreBoolean ==
  ASSUME NEW f \in Register, f.type = "BOOLEAN", NEW c, NEW t
  PROVE  Apply(f.accessor, c, t) \in {<<"true">>, <<"false">>}
<1>1. f.accessor = "IsExpired" \/ f.accessor = "IsCA"
  BY DEF Register, StringScalars, BoolScalars, TimestampScalars, SANsScalar, Scalar
<1>2. \A b : FormatBool(b) = "true" \/ FormatBool(b) = "false"
  BY Zenon DEF FormatBool
<1>3. \E b : Apply(f.accessor, c, t) = <<FormatBool(b)>>
  <2>1. "IsCA" # "IsExpired"
    OBVIOUS
  <2> QED
    BY <1>1, <2>1, Zenon DEF Apply
<1> QED
  BY <1>2, <1>3, Zenon

----------------------------------------------------------------------------
(* The session.                                                            *)

\* What a client has read is in one of the lists.
QueryRead ==
    /\ query.from \in {"none", "view", "example", "schema", "guess"}
    /\ query.from = "none" => query = NoQuery
    /\ query.from = "view" => \E n \in Places :
          /\ query.of = certFieldRegistry[n].field
          /\ query.calls = certFieldRegistry[n].scalar
          /\ query.type = certFieldRegistry[n].type
    /\ query.from = "example" => \E f \in Register : query.of = f.name /\ query.calls = f.example
    /\ query.from = "schema" => query.calls \in SchemaExampleQueries

\* A planned statement is of the function the query calls; a folded value was
\* computed when it was planned.
StmtPlanned ==
    /\ stmt.planned \in 0..now /\ stmt.folded \in BOOLEAN
    /\ stmt # NoStmt =>
          /\ query # NoQuery
          /\ stmt.fn \in Register /\ stmt.fn.name = query.calls
          /\ stmt.encoding \in Encodings
          /\ stmt.folded => stmt.value = Apply(stmt.fn.accessor, made.Cert, stmt.planned)

\* An answer is the binder's refusal of a name nobody has, or the value of the
\* accessor at some moment since the planning.
AnswerGiven ==
    /\ answer.at \in 0..now /\ answer.done \in BOOLEAN
    /\ answer.err \in {"none", "binder"}
    /\ ~answer.done => answer.value = <<>>
    /\ answer.done =>
          \/ /\ answer.err = "binder" /\ answer.value = <<>> /\ query # NoQuery
             /\ \A f \in Register : f.name # query.calls
          \/ /\ answer.err = "none" /\ stmt # NoStmt
             /\ \E t \in stmt.planned..answer.at :
                   answer.value = Apply(stmt.fn.accessor, made.Cert, t)

\* A dump has the row of each field, of one moment.
DumpTaken ==
    /\ dump.at \in 0..now
    /\ dump = NoDump \/ dump.rows = [n \in DOMAIN InfoFields |->
          [field |-> InfoFields[n], value |-> Apply(InfoAccessors[n], made.Cert, dump.at)]]

SessionCoherent ==
    /\ made \in Certificates /\ now \in 0..MaxNow
    /\ QueryRead /\ StmtPlanned /\ AnswerGiven /\ DumpTaken

LEMMA SessionInit == Init => SessionCoherent
<1> SUFFICES ASSUME Init PROVE SessionCoherent
  OBVIOUS
<1>1. made \in Certificates /\ now = 0 /\ now \in 0..MaxNow
  BY ClockAssumption DEF Init, Certificates
<1>2. QueryRead
  BY DEF Init, QueryRead, NoQuery
<1>3. StmtPlanned
  <2>1. stmt = NoStmt /\ NoStmt.planned = 0 /\ NoStmt.folded = FALSE
    BY DEF Init, NoStmt
  <2>2. stmt.planned \in 0..now
    BY <1>1, <2>1
  <2>3. stmt.folded \in BOOLEAN
    BY <2>1, Zenon
  <2> QED
    BY <2>1, <2>2, <2>3, Zenon DEF StmtPlanned
<1>4. AnswerGiven
  BY <1>1 DEF Init, AnswerGiven, NoAnswer
<1>5. DumpTaken
  BY <1>1 DEF Init, DumpTaken, NoDump
<1> QED
  BY <1>1, <1>2, <1>3, <1>4, <1>5 DEF SessionCoherent

\* A client reads once, before it has anything planned or answered.
LEMMA ReadKeeps ==
  ASSUME SessionCoherent, query = NoQuery, QueryRead', query' # NoQuery,
         UNCHANGED <<made, stmt, answer, dump, now>>
  PROVE  SessionCoherent'
<1>1. stmt = NoStmt /\ ~answer.done
  BY DEF SessionCoherent, StmtPlanned, AnswerGiven
<1>2. StmtPlanned'
  BY <1>1 DEF SessionCoherent, StmtPlanned, NoStmt
<1>3. AnswerGiven'
  BY <1>1 DEF SessionCoherent, AnswerGiven
<1>4. DumpTaken'
  BY DEF SessionCoherent, DumpTaken
<1> QED
  BY <1>2, <1>3, <1>4 DEF SessionCoherent

LEMMA PlanKeeps ==
  ASSUME SessionCoherent, NEW encoding \in Encodings, NEW folds \in BOOLEAN,
         Plan(encoding, folds)
  PROVE  SessionCoherent'
<1>1. PICK f \in Register :
        /\ query # NoQuery /\ stmt = NoStmt /\ f.name = query.calls
        /\ stmt' = [fn |-> f, encoding |-> encoding, planned |-> now, folded |-> folds,
                    value |-> IF folds THEN Evaluate(f, encoding).value ELSE <<>>]
        /\ UNCHANGED <<made, query, answer, dump, now>>
  BY DEF Plan
<1>2. /\ stmt'.fn = f /\ stmt'.encoding = encoding /\ stmt'.planned = now
      /\ stmt'.folded = folds
      /\ folds => stmt'.value = Evaluate(f, encoding).value
  BY <1>1
<1>3. Evaluate(f, encoding).value = Apply(f.accessor, made.Cert, now)
  BY EvaluateApplies DEF SessionCoherent
<1>4. now \in 0..now
  BY ClockAssumption DEF SessionCoherent
<1>5. StmtPlanned'
  BY <1>1, <1>2, <1>3, <1>4 DEF StmtPlanned
<1>6. AnswerGiven'
  BY <1>1 DEF SessionCoherent, AnswerGiven
<1>7. QueryRead' /\ DumpTaken'
  BY <1>1 DEF SessionCoherent, QueryRead, DumpTaken
<1> QED
  BY <1>1, <1>5, <1>6, <1>7 DEF SessionCoherent

LEMMA PlanFailsKeeps ==
  ASSUME SessionCoherent, PlanFails
  PROVE  SessionCoherent'
<1>1. /\ answer'.done = TRUE /\ answer'.err = "binder" /\ answer'.value = <<>>
      /\ answer'.at = now
  BY DEF PlanFails, NoAnswer
<1>2. now \in 0..now
  BY ClockAssumption DEF SessionCoherent
<1>3. AnswerGiven'
  BY <1>1, <1>2 DEF PlanFails, AnswerGiven
<1>4. QueryRead' /\ DumpTaken' /\ StmtPlanned'
  BY DEF PlanFails, SessionCoherent, QueryRead, DumpTaken, StmtPlanned
<1> QED
  BY <1>3, <1>4 DEF PlanFails, SessionCoherent

LEMMA ExecuteKeeps ==
  ASSUME SessionCoherent, Execute
  PROVE  SessionCoherent'
<1> DEFINE fresh == Evaluate(stmt.fn, stmt.encoding)
<1>1. /\ stmt # NoStmt /\ UNCHANGED <<made, query, stmt, dump, now>>
      /\ answer'.done = TRUE /\ answer'.at = now
      /\ answer'.err = (IF stmt.folded THEN "none" ELSE fresh.err)
      /\ answer'.value = (IF stmt.folded THEN stmt.value ELSE fresh.value)
  BY DEF Execute
<1>2. fresh.err = "none" /\ fresh.value = Apply(stmt.fn.accessor, made.Cert, now)
  BY <1>1, EvaluateApplies DEF SessionCoherent, StmtPlanned
<1> HIDE DEF fresh
<1>3. stmt.planned \in stmt.planned..now /\ now \in stmt.planned..now /\ now \in 0..now
  BY ClockAssumption DEF SessionCoherent, StmtPlanned
<1>4. \E t \in stmt.planned..now : answer'.value = Apply(stmt.fn.accessor, made.Cert, t)
  <2>1. CASE stmt.folded
    BY <1>1, <1>3, <2>1 DEF SessionCoherent, StmtPlanned
  <2>2. CASE ~stmt.folded
    BY <1>1, <1>2, <1>3, <2>2
  <2> QED
    BY <2>1, <2>2
<1>5. answer'.err = "none"
  BY <1>1, <1>2
<1>6. AnswerGiven'
  BY <1>1, <1>3, <1>4, <1>5 DEF AnswerGiven
<1>7. QueryRead' /\ DumpTaken' /\ StmtPlanned'
  BY <1>1 DEF SessionCoherent, QueryRead, DumpTaken, StmtPlanned
<1> QED
  BY <1>1, <1>6, <1>7 DEF SessionCoherent

LEMMA DumpKeeps ==
  ASSUME SessionCoherent, NEW encoding \in Encodings, DumpInfo(encoding)
  PROVE  SessionCoherent'
<1>1. Argument(encoding).cert = made.Cert
  BY ArgumentParses DEF SessionCoherent
<1>2. /\ dump'.rows = [n \in DOMAIN InfoFields |->
                         [field |-> InfoFields[n],
                          value |-> Apply(InfoAccessors[n], made.Cert, now)]]
      /\ dump'.at = now /\ UNCHANGED <<made, query, stmt, answer, now>>
  BY <1>1, Zenon DEF DumpInfo
<1>3. now \in 0..now
  BY ClockAssumption DEF SessionCoherent
<1>4. DumpTaken'
  BY <1>2, <1>3, Zenon DEF DumpTaken
<1>5. QueryRead' /\ AnswerGiven' /\ StmtPlanned'
  BY <1>2 DEF SessionCoherent, QueryRead, AnswerGiven, StmtPlanned
<1> QED
  BY <1>2, <1>4, <1>5 DEF SessionCoherent

LEMMA TickKeeps ==
  ASSUME SessionCoherent, ClockTick
  PROVE  SessionCoherent'
<1>1. /\ now' = now + 1 /\ now \in Nat /\ now' \in 0..MaxNow
      /\ UNCHANGED <<made, query, stmt, answer, dump>>
  BY ClockAssumption DEF SessionCoherent, ClockTick
<1>2. \A x \in 0..now : x \in 0..now'
  BY <1>1
<1>3. StmtPlanned' /\ AnswerGiven' /\ DumpTaken' /\ QueryRead'
  BY <1>1, <1>2 DEF SessionCoherent, QueryRead, DumpTaken, AnswerGiven, StmtPlanned
<1> QED
  BY <1>1, <1>3 DEF SessionCoherent

LEMMA SessionNext ==
  ASSUME SessionCoherent, [Next]_vars
  PROVE  SessionCoherent'
<1>1. CASE Browse
  <2>1. PICK n \in Places : query' = [from |-> "view", of |-> certFieldRegistry[n].field,
            calls |-> certFieldRegistry[n].scalar, type |-> certFieldRegistry[n].type]
    BY <1>1, ListsAligned DEF Browse, CertFieldsView
  <2>2. QueryRead' /\ query' # NoQuery
    BY <2>1 DEF QueryRead, NoQuery
  <2> QED
    BY <1>1, <2>2, ReadKeeps DEF Browse
<1>2. CASE ReadExample
  <2>1. PICK f \in Register :
          query' = [from |-> "example", of |-> f.name, calls |-> f.example, type |-> ""]
    BY <1>2 DEF ReadExample
  <2>2. QueryRead' /\ query' # NoQuery
    BY <2>1 DEF QueryRead, NoQuery
  <2> QED
    BY <1>2, <2>2, ReadKeeps DEF ReadExample
<1>3. CASE ReadSchemaExample
  <2>1. PICK name \in SchemaExampleQueries :
          query' = [NoQuery EXCEPT !.from = "schema", !.calls = name]
    BY <1>3 DEF ReadSchemaExample
  <2>2. QueryRead' /\ query' # NoQuery
    BY <2>1 DEF QueryRead, NoQuery
  <2> QED
    BY <1>3, <2>2, ReadKeeps DEF ReadSchemaExample
<1>4. CASE Guess
  <2>1. QueryRead' /\ query' # NoQuery
    BY <1>4 DEF Guess, QueryRead, NoQuery
  <2> QED
    BY <1>4, <2>1, ReadKeeps DEF Guess
<1>5. CASE \E e \in Encodings, folds \in BOOLEAN : Plan(e, folds)
  BY <1>5, PlanKeeps
<1>6. CASE PlanFails
  BY <1>6, PlanFailsKeeps
<1>7. CASE Execute
  BY <1>7, ExecuteKeeps
<1>8. CASE \E e \in Encodings : DumpInfo(e)
  BY <1>8, DumpKeeps
<1>9. CASE ClockTick
  BY <1>9, TickKeeps
<1>10. CASE UNCHANGED vars
  BY <1>10 DEF vars, SessionCoherent, QueryRead, DumpTaken, AnswerGiven, StmtPlanned
<1> QED
  BY <1>1, <1>2, <1>3, <1>4, <1>5, <1>6, <1>7, <1>8, <1>9, <1>10 DEF Next

\* In every session: what was read is in a list, what was planned is what was
\* read, and an answer and a dump are of moments since.
THEOREM SessionStaysCoherent == Spec => []SessionCoherent
BY SessionInit, SessionNext, PTL DEF Spec

\* The rows of a dump are those of the fields, each once.
LEMMA DumpRows ==
  ASSUME SessionCoherent, dump # NoDump
  PROVE  /\ DOMAIN dump.rows = Places
         /\ \A n \in Places :
               /\ dump.rows[n].field = InfoFields[n]
               /\ dump.rows[n].value = Apply(InfoAccessors[n], made.Cert, dump.at)
<1>0. DOMAIN InfoFields = Places
  BY ListsAligned
<1>1. dump.rows = [n \in Places |->
          [field |-> InfoFields[n], value |-> Apply(InfoAccessors[n], made.Cert, dump.at)]]
  <2>1. dump.rows = [n \in DOMAIN InfoFields |->
          [field |-> InfoFields[n], value |-> Apply(InfoAccessors[n], made.Cert, dump.at)]]
    BY Zenon DEF SessionCoherent, DumpTaken
  <2> QED
    BY <1>0, <2>1, Zenon
<1>2. DOMAIN dump.rows = Places
  BY <1>1, Zenon
<1>3. ASSUME NEW n \in Places
      PROVE  dump.rows[n] =
               [field |-> InfoFields[n], value |-> Apply(InfoAccessors[n], made.Cert, dump.at)]
  BY <1>1, Zenon
<1>4. ASSUME NEW n \in Places
      PROVE  /\ dump.rows[n].field = InfoFields[n]
             /\ dump.rows[n].value = Apply(InfoAccessors[n], made.Cert, dump.at)
  <2>1. PICK v : v = Apply(InfoAccessors[n], made.Cert, dump.at)
    OBVIOUS
  <2>2. dump.rows[n] = [field |-> InfoFields[n], value |-> v]
    BY <1>3, <2>1, Zenon
  <2> QED
    BY <2>1, <2>2
<1> QED
  BY <1>2, <1>4, Zenon

----------------------------------------------------------------------------
(* What a client relies on.                                                *)

\* Every part of a session has its type, and a BOOLEAN scalar answers true or
\* false.
THEOREM TypeCorrect == Spec => []TypeOK
<1>1. SessionCoherent => TypeOK
  <2> SUFFICES ASSUME SessionCoherent PROVE TypeOK
    OBVIOUS
  <2>1. /\ made \in {Generate(spec) : spec \in Specs} /\ now \in 0..MaxNow
        /\ query.from \in {"none", "view", "example", "schema", "guess"}
        /\ stmt # NoStmt => stmt.fn \in Register /\ stmt.encoding \in Encodings
        /\ stmt.planned \in 0..now /\ stmt.folded \in BOOLEAN
        /\ answer.done \in BOOLEAN /\ answer.at \in 0..now /\ dump.at \in 0..now
    BY DEF SessionCoherent, Certificates, QueryRead, StmtPlanned, AnswerGiven, DumpTaken
  <2>2. answer.err \in Errors \cup {"none", "binder"}
    <3>1. answer.err \in {"none", "binder"}
      BY DEF SessionCoherent, AnswerGiven
    <3> QED
      BY <3>1
  <2>3. answer.value # <<>> /\ stmt.fn.type = "BOOLEAN" =>
           answer.value \in {<<"true">>, <<"false">>}
    BY VerdictsAreBoolean DEF SessionCoherent, AnswerGiven, StmtPlanned
  <2>4. \A n \in DOMAIN dump.rows :
           dump.rows[n].field \in {InfoFields[m] : m \in DOMAIN InfoFields}
    <3>1. CASE dump = NoDump
      BY <3>1 DEF NoDump
    <3>2. CASE dump # NoDump
      <4>1. ASSUME NEW n \in Places
            PROVE  dump.rows[n].field \in {InfoFields[m] : m \in DOMAIN InfoFields}
        BY <3>2, DumpRows, ListsAligned
      <4> QED
        BY <3>2, <4>1, DumpRows, Zenon
    <3> QED
      BY <3>1, <3>2
  <2> QED
    BY <2>1, <2>2, <2>3, <2>4, Zenon DEF TypeOK
<1> QED
  BY <1>1, SessionStaysCoherent, PTL

\* The lockstep of registration, view, accessors and cert_info (meta.go:315-319)
\* for every certificate, not only those of a session that was checked.
THEOREM ViewIsInLockstep == Spec => []ViewMatchesDump
<1>1. SessionCoherent => ViewMatchesDump
  <2> SUFFICES ASSUME SessionCoherent, query.from = "view", answer.done, dump # NoDump
               PROVE  /\ stmt.fn.type = query.type
                      /\ \E n \in DOMAIN dump.rows :
                            /\ \A m \in DOMAIN dump.rows :
                                  dump.rows[m].field = query.of <=> m = n
                            /\ \/ answer.value = dump.rows[n].value
                               \/ query.of = "is_expired" /\ VerdictMoved
    BY DEF ViewMatchesDump
  <2>1. PICK n \in Places : /\ query.of = certFieldRegistry[n].field
                            /\ query.calls = certFieldRegistry[n].scalar
                            /\ query.type = certFieldRegistry[n].type
    BY DEF SessionCoherent, QueryRead
  <2>2. Registered(n) \in Register /\ Registered(n).name = query.calls
    BY <2>1, RegistryIsRegister DEF Registered, Scalar
  <2>3. stmt # NoStmt /\ stmt.fn \in Register /\ stmt.fn.name = query.calls
    BY <2>2 DEF SessionCoherent, AnswerGiven, StmtPlanned
  <2>4. stmt.fn.type = query.type /\ stmt.fn.accessor = InfoAccessors[n]
    BY <2>1, <2>3, Lockstep
  <2>5. PICK t \in stmt.planned..answer.at :
           answer.value = Apply(InfoAccessors[n], made.Cert, t)
    BY <2>2, <2>4 DEF SessionCoherent, AnswerGiven
  <2>6. /\ DOMAIN dump.rows = Places
        /\ \A m \in Places : dump.rows[m].field = InfoFields[m]
        /\ dump.rows[n].value = Apply(InfoAccessors[n], made.Cert, dump.at)
    BY DumpRows
  <2>7. query.of = InfoFields[n] /\ \A m \in Places : InfoFields[m] = query.of <=> m = n
    BY <2>1, ListsAligned
  <2>8. \/ answer.value = dump.rows[n].value
        \/ query.of = "is_expired" /\ VerdictMoved
    BY <2>5, <2>6, <2>7, ValuesAgree DEF VerdictMoved
  <2>9. n \in DOMAIN dump.rows
        /\ \A m \in DOMAIN dump.rows : dump.rows[m].field = query.of <=> m = n
    BY <2>6, <2>7
  <2> QED
    BY <2>4, <2>8, <2>9, Zenon
<1> QED
  BY <1>1, SessionStaysCoherent, PTL

\* What a client was told to call exists, parses both encodings and is the
\* function the example was of; cert_info has the fields its example selects.
THEOREM ToldIsTrue == Spec => []ToldCallsWork
<1>1. SessionCoherent => ToldCallsWork
  <2> SUFFICES ASSUME SessionCoherent PROVE ToldCallsWork
    OBVIOUS
  <2>1. ASSUME query.from \in {"view", "example", "schema"}, answer.done
        PROVE  /\ answer.err = "none"
               /\ query.from = "example" => stmt.fn.name = query.of
    <3>1. \E f \in Register : f.name = query.calls
      <4>1. CASE query.from = "view"
        <5>1. PICK n \in Places : query.calls = certFieldRegistry[n].scalar
          BY <4>1 DEF SessionCoherent, QueryRead
        <5>2. Registered(n) \in Register
          BY RegistryIsRegister
        <5>3. Registered(n).name = certFieldRegistry[n].scalar
          BY DEF Registered, Scalar
        <5> QED
          BY <5>1, <5>2, <5>3
      <4>2. CASE query.from = "example"
        BY <4>2, ExamplesOwn DEF SessionCoherent, QueryRead
      <4>3. CASE query.from = "schema"
        BY <4>3, ExamplesOwn DEF SessionCoherent, QueryRead
      <4> QED
        BY <2>1, <4>1, <4>2, <4>3
    <3>2. answer.err = "none" /\ stmt.fn.name = query.calls
      BY <2>1, <3>1 DEF SessionCoherent, AnswerGiven, StmtPlanned
    <3>3. query.from = "example" => query.calls = query.of
      BY ExamplesOwn DEF SessionCoherent, QueryRead
    <3> QED
      BY <3>2, <3>3
  <2>2. ASSUME dump # NoDump, NEW f \in certInfoExampleFields
        PROVE  \E n \in DOMAIN dump.rows : dump.rows[n].field = f
    <3>1. \E n \in Places : InfoFields[n] = f
      BY DEF certInfoExampleFields, InfoFields, Places
    <3> QED
      BY <2>2, <3>1, DumpRows
  <2> QED
    BY <2>1, <2>2 DEF ToldCallsWork
<1> QED
  BY <1>1, SessionStaysCoherent, PTL
=============================================================================
