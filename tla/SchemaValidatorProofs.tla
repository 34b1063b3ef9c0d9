----------------------- MODULE SchemaValidatorProofs -----------------------
(***************************************************************************)
(* The three properties of the validator for every contract: any schema    *)
(* files of distinct names and $ids, any root catalog and endpoint         *)
(* modules, read or not, any requests, and every order in which files are  *)
(* read and the candidates for a template are tried.                       *)
(*                                                                         *)
(* The invariant says where the entries of the tables come from: a schema  *)
(* is that of the one file of its name, every readable file that was taken *)
(* is there, and a key of a table is an operation of a catalog that was    *)
(* read, with the body it has there and the directory of that catalog.     *)
(***************************************************************************)
EXTENDS SchemaValidator, FiniteSetTheorems, TLAPS

\* A catalog that was read.
Read(catalog) ==
    /\ Root.readable
    /\ catalog = Root \/ \E i \in DOMAIN Modules : found[i] = "loaded" /\ catalog = Modules[i]
OperationOf(op, catalog) == Read(catalog) /\ op \in Range(catalog.operations)

IsInline(op) == op.body # ABSENT /\ op.body.kind = "inline"
IsRef(op) == op.body # ABSENT /\ op.body.kind = "ref"
KeyOf(op) == <<op.method, op.path>>

FilesInv ==
    /\ files \subseteq Files
    /\ \A n \in DOMAIN schemas : \E f \in Files : f.readable /\ f.name = n /\ f.schema = schemas[n]
    /\ \A f \in Files \ files : f.readable => f.name \in DOMAIN schemas

PhaseInv ==
    /\ phase \in {"raised", "schemas", "catalogs", "ready"}
    /\ phase # "raised" => policy \in Policies
    /\ phase \in {"catalogs", "ready"} => files = {}
    /\ next_module \in Nat \ {0}
    /\ \E S : operations \in Seq(S)
    /\ phase = "catalogs" =>
          /\ Root.readable
          /\ \E catalog : /\ catalog_dir = catalog.dir
                          /\ \A op \in Range(operations) : OperationOf(op, catalog)

TablesInv ==
    /\ \A key \in DOMAIN inline_schemas : \E catalog, op :
          /\ OperationOf(op, catalog) /\ KeyOf(op) = key /\ IsInline(op)
          /\ inline_schemas[key] = [schema |-> op.body.schema, base |-> catalog.dir]
    /\ \A key \in DOMAIN endpoint_schemas : \E catalog, op :
          /\ OperationOf(op, catalog) /\ KeyOf(op) = key /\ IsRef(op)
          /\ endpoint_schemas[key] = op.body.name
    /\ \A key \in known_endpoints : \E catalog, op :
          /\ OperationOf(op, catalog) /\ KeyOf(op) = key
          /\ key \notin DOMAIN inline_schemas \cup DOMAIN endpoint_schemas => op.body = ABSENT
    /\ DOMAIN inline_schemas \cup DOMAIN endpoint_schemas \subseteq known_endpoints

ValidatorInv == FilesInv /\ PhaseInv /\ TablesInv
-----------------------------------------------------------------------------
(* The invariant *)

\* Whether a catalog is read does not change.
LEMMA ReadKept ==
  ASSUME found' = found
  PROVE  \A op, catalog : OperationOf(op, catalog)' = OperationOf(op, catalog)
  BY DEF OperationOf, Read

LEMMA LoadStep ==
  ASSUME ValidatorInv, NEW file \in Files, LoadSchemaFile(file)
  PROVE  ValidatorInv'
<1>1. FilesInv'
  <2>1. files' = files \ {file} /\ file \in files
    BY DEF LoadSchemaFile
  <2>2. CASE file.readable
    <3>1. schemas' = Put(schemas, file.name, file.schema)
      BY <2>2 DEF LoadSchemaFile
    <3>2. /\ DOMAIN schemas' = DOMAIN schemas \cup {file.name}
          /\ schemas'[file.name] = file.schema
          /\ \A n \in DOMAIN schemas : n # file.name => schemas'[n] = schemas[n]
      BY <3>1 DEF Put
    <3> QED  BY <2>1, <2>2, <3>2 DEF ValidatorInv, FilesInv
  <2>3. CASE ~file.readable
    <3>1. schemas' = schemas
      BY <2>3 DEF LoadSchemaFile
    <3> QED  BY <2>1, <2>3, <3>1 DEF ValidatorInv, FilesInv
  <2> QED  BY <2>2, <2>3
<1>2. PhaseInv' /\ TablesInv'
  BY ReadKept DEF LoadSchemaFile, tables, ValidatorInv, PhaseInv, TablesInv
<1> QED  BY <1>1, <1>2 DEF ValidatorInv

LEMMA OpenRootStep ==
  ASSUME ValidatorInv, OpenRoot
  PROVE  ValidatorInv'
<1>1. FilesInv' /\ TablesInv'
  BY ReadKept DEF OpenRoot, tables, ValidatorInv, FilesInv, TablesInv
<1>2. PhaseInv'
  <2>1. \E S : operations' \in Seq(S)
    <3>1. operations' = Root.operations \/ operations' = <<>>
      BY DEF OpenRoot
    <3>2. Root.operations \in Seq(Range(Root.operations))
      BY CatalogsAssumption DEF IsCatalog
    <3>3. <<>> \in Seq(Nat)
      OBVIOUS
    <3> QED  BY <3>1, <3>2, <3>3
  <2>2. Root.readable => \A op \in Range(Root.operations) : OperationOf(op, Root)'
    BY DEF OperationOf, Read
  <2> QED  BY <2>1, <2>2 DEF OpenRoot, ValidatorInv, PhaseInv
<1> QED  BY <1>1, <1>2 DEF ValidatorInv

LEMMA OpenModuleStep ==
  ASSUME ValidatorInv, OpenModule
  PROVE  ValidatorInv'
<1>0. next_module \in Nat \ {0} /\ Len(Modules) \in Nat /\ DOMAIN Modules = 1..Len(Modules)
  BY CatalogsAssumption DEF ValidatorInv, PhaseInv
<1>1. FilesInv' /\ TablesInv'
  BY ReadKept DEF OpenModule, tables, ValidatorInv, FilesInv, TablesInv
<1>2. CASE next_module > Len(Modules)
  BY <1>1, <1>2 DEF OpenModule, ValidatorInv, PhaseInv
<1>3. CASE next_module <= Len(Modules)
  <2>1. next_module \in DOMAIN Modules
    BY <1>0, <1>3
  <2>9. PICK module : module = Modules[next_module]
    OBVIOUS
  <2>2. module.operations \in Seq(Range(module.operations))
    BY <2>1, <2>9, CatalogsAssumption DEF IsCatalog
  <2>3. /\ operations' = (IF found[next_module] = "loaded" THEN module.operations ELSE <<>>)
        /\ catalog_dir' = module.dir /\ next_module' = next_module + 1
        /\ phase' = phase /\ UNCHANGED <<policy, found, files>>
    BY <1>0, <1>3, <2>9 DEF OpenModule
  <2>4. phase = "catalogs" /\ Root.readable
    BY DEF OpenModule, ValidatorInv, PhaseInv
  <2>5. found[next_module] = "loaded" => \A op \in Range(module.operations) : OperationOf(op, module)'
    BY <2>1, <2>3, <2>4, <2>9 DEF OperationOf, Read
  <2>6. \E S : operations' \in Seq(S)
    <3>1. <<>> \in Seq(Nat)
      OBVIOUS
    <3> QED  BY <2>2, <2>3, <3>1
  <2>7. \A op \in Range(operations') : OperationOf(op, module)'
    <3>1. Range(<<>>) = {}
      BY DEF Range
    <3> QED  BY <2>3, <2>5, <3>1
  <2>8. PhaseInv'
    BY <2>3, <2>4, <2>6, <2>7 DEF ValidatorInv, PhaseInv
  <2> QED  BY <1>1, <2>8 DEF ValidatorInv
<1> QED  BY <1>0, <1>2, <1>3

\* An operation of a catalog has no body, a named or an inline schema.
LEMMA BodyOfOperation ==
  ASSUME NEW op, NEW catalog, OperationOf(op, catalog)
  PROVE  op.body = ABSENT \/ IsInline(op) \/ IsRef(op)
  BY CatalogsAssumption DEF OperationOf, Read, IsCatalog, IsInline, IsRef

LEMMA RegisterStep ==
  ASSUME ValidatorInv, RegisterOperation
  PROVE  ValidatorInv'
<1>1. phase = "catalogs" /\ operations # <<>> /\ found' = found
  BY DEF RegisterOperation
<1>2. PICK S : operations \in Seq(S)
  BY DEF ValidatorInv, PhaseInv
<1>3. PICK catalog : /\ catalog_dir = catalog.dir
                     /\ \A o \in Range(operations) : OperationOf(o, catalog)
  BY <1>1 DEF ValidatorInv, PhaseInv
<1>4. PICK op : op = Head(operations)
  OBVIOUS
<1>5. PICK key : key = KeyOf(op)
  OBVIOUS
<1>6. /\ known_endpoints' = known_endpoints \cup {key}
      /\ endpoint_schemas' = ReferredAfter(op, key)
      /\ inline_schemas' = InlineAfter(op, key)
      /\ operations' = Tail(operations)
      /\ UNCHANGED <<policy, found, phase, files, next_module, catalog_dir, schemas>>
  BY <1>4, <1>5 DEF RegisterOperation, KeyOf, KnownAfter
<1>7. OperationOf(op, catalog)
  <2>1. op \in Range(operations)
    BY <1>1, <1>2, <1>4 DEF Range
  <2> QED  BY <1>3, <2>1
<1>8. PhaseInv' /\ FilesInv'
  <2>1. operations' \in Seq(S) /\ \A o \in Range(operations') : o \in Range(operations)
    BY <1>1, <1>2, <1>6 DEF Range
  <2>2. \A o \in Range(operations') : OperationOf(o, catalog)'
    BY <1>1, <1>3, <2>1, ReadKept
  <2>3. PhaseInv'
    BY <1>3, <1>6, <2>1, <2>2 DEF ValidatorInv, PhaseInv
  <2> QED  BY <1>6, <2>3 DEF ValidatorInv, FilesInv
<1>9. IsInline(op) =>
         /\ DOMAIN inline_schemas' = DOMAIN inline_schemas \cup {key}
         /\ inline_schemas'[key] = [schema |-> op.body.schema, base |-> catalog.dir]
         /\ \A k \in DOMAIN inline_schemas : k # key => inline_schemas'[k] = inline_schemas[k]
  BY <1>3, <1>6 DEF InlineAfter, IsInline, Put
<1>10. ~IsInline(op) => inline_schemas' = inline_schemas
  BY <1>6 DEF InlineAfter, IsInline
<1>11. IsRef(op) =>
         /\ DOMAIN endpoint_schemas' = DOMAIN endpoint_schemas \cup {key}
         /\ endpoint_schemas'[key] = op.body.name
         /\ \A k \in DOMAIN endpoint_schemas : k # key => endpoint_schemas'[k] = endpoint_schemas[k]
  BY <1>6 DEF ReferredAfter, IsRef, Put
<1>12. ~IsRef(op) => endpoint_schemas' = endpoint_schemas
  BY <1>6 DEF ReferredAfter, IsRef
<1>13. \A o, c : OperationOf(o, c)' = OperationOf(o, c)
  BY <1>1, ReadKept
<1>14. \A k \in DOMAIN inline_schemas' : \E c, o :
         /\ OperationOf(o, c)' /\ KeyOf(o) = k /\ IsInline(o)
         /\ inline_schemas'[k] = [schema |-> o.body.schema, base |-> c.dir]
  BY <1>5, <1>7, <1>9, <1>10, <1>13 DEF ValidatorInv, TablesInv
<1>15. \A k \in DOMAIN endpoint_schemas' : \E c, o :
         /\ OperationOf(o, c)' /\ KeyOf(o) = k /\ IsRef(o)
         /\ endpoint_schemas'[k] = o.body.name
  BY <1>5, <1>7, <1>11, <1>12, <1>13 DEF ValidatorInv, TablesInv
<1>16. /\ DOMAIN inline_schemas \subseteq DOMAIN inline_schemas'
       /\ DOMAIN endpoint_schemas \subseteq DOMAIN endpoint_schemas'
       /\ key \notin DOMAIN inline_schemas' \cup DOMAIN endpoint_schemas' => op.body = ABSENT
  BY <1>7, <1>9, <1>10, <1>11, <1>12, BodyOfOperation
<1>17. \A k \in known_endpoints' : \E c, o :
         /\ OperationOf(o, c)' /\ KeyOf(o) = k
         /\ k \notin DOMAIN inline_schemas' \cup DOMAIN endpoint_schemas' => o.body = ABSENT
  BY <1>5, <1>6, <1>7, <1>13, <1>16 DEF ValidatorInv, TablesInv
<1>18. DOMAIN inline_schemas' \cup DOMAIN endpoint_schemas' \subseteq known_endpoints'
  BY <1>6, <1>9, <1>10, <1>11, <1>12 DEF ValidatorInv, TablesInv
<1>19. TablesInv'
  BY <1>14, <1>15, <1>17, <1>18 DEF TablesInv, KeyOf, IsInline, IsRef
<1> QED  BY <1>8, <1>19 DEF ValidatorInv

\* Where the entries of the tables come from, in every state.
THEOREM ValidatorInvariance == Spec => []ValidatorInv
<1>1. Init => ValidatorInv
  <2> SUFFICES ASSUME Init PROVE ValidatorInv
    OBVIOUS
  <2>1. policy \in Policies \cup {"ValueError"}
    BY DEF Init, ResolvePolicy, Policies
  <2>2. DOMAIN EmptyMap = {}
    BY DEF EmptyMap
  <2>3. FilesInv /\ TablesInv
    BY <2>2 DEF Init, FilesInv, TablesInv
  <2>4. \E S : operations \in Seq(S)
    <3>1. operations \in Seq(Nat)
      BY DEF Init
    <3> QED  BY <3>1
  <2>5. PhaseInv
    BY <2>1, <2>4 DEF Init, PhaseInv, Policies
  <2> QED  BY <2>3, <2>5 DEF ValidatorInv
<1>2. ValidatorInv /\ [Next]_vars => ValidatorInv'
  <2> SUFFICES ASSUME ValidatorInv, [Next]_vars
               PROVE  ValidatorInv'
    OBVIOUS
  <2>1. ASSUME NEW file \in Files, LoadSchemaFile(file)
        PROVE  ValidatorInv'
    BY <2>1, LoadStep
  <2>2. CASE OpenRoot
    BY <2>2, OpenRootStep
  <2>3. CASE RegisterOperation
    BY <2>3, RegisterStep
  <2>4. CASE OpenModule
    BY <2>4, OpenModuleStep
  <2>5. ASSUME NEW r \in Requests, ValidateRequest(r)
        PROVE  ValidatorInv'
    BY <2>5, ReadKept DEF ValidateRequest, tables, ValidatorInv, FilesInv, PhaseInv, TablesInv
  <2>6. CASE UNCHANGED vars
    BY <2>6, ReadKept DEF vars, tables, ValidatorInv, FilesInv, PhaseInv, TablesInv
  <2> QED  BY <2>1, <2>2, <2>3, <2>4, <2>5, <2>6 DEF Next, Construct
<1> QED  BY <1>1, <1>2, PTL DEF Spec
-----------------------------------------------------------------------------
(* The verdicts *)

\* Every key is one of an operation of a catalog that was read.
LEMMA KeyIsOfOperation ==
  ASSUME ValidatorInv, NEW key \in Keys
  PROVE  key \in known_endpoints /\ \E catalog, op : OperationOf(op, catalog) /\ KeyOf(op) = key
  BY DEF ValidatorInv, TablesInv, Keys

LEMMA OperationDeclared ==
  ASSUME NEW op, NEW catalog, OperationOf(op, catalog)
  PROVE  op \in Declared
  BY DEF OperationOf, Read, Declared

\* An operation of the key that a request is normalised to declares the request.
LEMMA NormalizedDeclares ==
  ASSUME NEW r, NEW path \in NormalizeEndpoint(r.method, r.path), NEW op,
         KeyOf(op) = <<r.method, path>>
  PROVE  Declares(op, r)
<1>1. op.method = r.method /\ op.path = path
  BY DEF KeyOf
<1>2. CASE path = r.path
  <2>1. TemplateMatches(r.path, r.path)
    BY VariablesAssumption DEF TemplateMatches
  <2> QED  BY <1>1, <1>2, <2>1 DEF Declares
<1>3. CASE path # r.path
  <2>1. PICK k \in Keys : k[1] = r.method /\ TemplateMatches(k[2], r.path) /\ path = k[2]
    BY <1>3 DEF NormalizeEndpoint
  <2> QED  BY <1>1, <2>1 DEF Declares
<1> QED  BY <1>2, <1>3

\* What a named schema answers is what a readable file of the name, or of the
\* name with its suffix, answers.
LEMMA JsonIsOfFile ==
  ASSUME ValidatorInv, NEW name, NEW data, ValidateJson(name, data) # "schema_not_found"
  PROVE  \E f \in Files : /\ f.readable /\ f.name \in {name, Suffixed(name)}
                          /\ ValidateJson(name, data) = RunValidator(f.schema, ABSENT, data)
<1>1. PICK n \in {name, Suffixed(name)} :
         n \in DOMAIN schemas /\ ValidateJson(name, data) = RunValidator(schemas[n], ABSENT, data)
  <2>1. CASE Get(schemas, name) # ABSENT
    BY <2>1 DEF ValidateJson, Get
  <2>2. CASE Get(schemas, name) = ABSENT
    BY <2>2 DEF ValidateJson, Get
  <2> QED  BY <2>1, <2>2
<1>2. PICK f \in Files : f.readable /\ f.name = n /\ f.schema = schemas[n]
  BY <1>1 DEF ValidatorInv, FilesInv
<1> QED  BY <1>1, <1>2

LEMMA RunClean ==
  ASSUME NEW schema, NEW base, NEW data, RunValidator(schema, base, data) = "clean"
  PROVE  data \in schema.accepts
  BY DEF RunValidator, Run

\* Once all files are taken, the registered schemas are those of the readable
\* files.
LEMMA AllRegistered ==
  ASSUME ValidatorInv, files = {}
  PROVE  Range(schemas) = Library
<1>1. ASSUME NEW n \in DOMAIN schemas
      PROVE  schemas[n] \in Library
  <2>1. PICK f \in Files : f.readable /\ f.name = n /\ f.schema = schemas[n]
    BY DEF ValidatorInv, FilesInv
  <2> QED  BY <2>1 DEF Library
<1>2. ASSUME NEW f \in Files, f.readable
      PROVE  f.schema \in Range(schemas)
  <2>1. f.name \in DOMAIN schemas
    BY <1>2 DEF ValidatorInv, FilesInv
  <2>2. PICK g \in Files : g.name = f.name /\ g.schema = schemas[f.name]
    BY <2>1 DEF ValidatorInv, FilesInv
  <2>3. schemas[f.name] = f.schema
    BY <2>2, FilesAssumption
  <2> QED  BY <2>1, <2>3 DEF Range
<1> QED  BY <1>1, <1>2 DEF Range, Library

\* What is in every closed set around a start is itself closed.
LEMMA LeastIsClosed ==
  ASSUME NEW documents, NEW start, NEW R,
         R = {e \in Evaluations(documents, start) :
                \A S \in SUBSET Evaluations(documents, start) :
                    start \in S /\ IsClosed(documents, S) => e \in S}
  PROVE  start \in R /\ R \subseteq Evaluations(documents, start) /\ IsClosed(documents, R)
<1>1. start \in Evaluations(documents, start)
  BY DEF Evaluations
<1>2. ASSUME NEW e \in R, NEW c \in Calls(documents, e)
      PROVE  c \in R
  <2>1. c \in Evaluations(documents, start)
    <3>1. PICK d \in documents : \E r \in d.refs : c = Follow(d, r)
      BY DEF Calls
    <3> QED  BY <3>1 DEF Evaluations
  <2>2. ASSUME NEW S \in SUBSET Evaluations(documents, start), start \in S, IsClosed(documents, S)
        PROVE  c \in S
    <3>1. e \in S
      BY <2>2
    <3> QED  BY <2>2, <3>1 DEF IsClosed
  <2> QED  BY <2>1, <2>2
<1> QED  BY <1>1, <1>2 DEF IsClosed

\* An evaluation over the readable files fails to resolve just when it comes to
\* a reference that leads nowhere.
LEMMA DanglingIsUnresolved ==
  ASSUME NEW schema, NEW base, NEW data
  PROVE  Resolves(Anchored(Library, schema, base), Start(schema, base, data))
            <=> ~Dangling(schema, base, data)
<1>1. PICK documents : documents = Anchored(Library, schema, base)
  OBVIOUS
<1>2. PICK start : start = Start(schema, base, data)
  OBVIOUS
<1>3. PICK R : R = Reached(schema, base, data)
  OBVIOUS
<1>4. R = {e \in Evaluations(documents, start) :
             \A S \in SUBSET Evaluations(documents, start) :
                 start \in S /\ IsClosed(documents, S) => e \in S}
  BY <1>1, <1>2, <1>3 DEF Reached
<1>5. Dangling(schema, base, data) <=> \E e \in R : LeadsNowhere(documents, e)
  BY <1>1, <1>3 DEF Dangling
<1>6. start \in R /\ R \subseteq Evaluations(documents, start) /\ IsClosed(documents, R)
  BY <1>4, LeastIsClosed
<1>7. Resolves(documents, start) <=> ~ \E e \in R : LeadsNowhere(documents, e)
  BY <1>4, <1>6 DEF Resolves
<1> QED  BY <1>1, <1>2, <1>5, <1>7

\* What a validator that has taken all files answers of a payload is so.
LEMMA RunIsRight ==
  ASSUME ValidatorInv, files = {}, NEW schema, NEW base, NEW data
  PROVE  /\ RunValidator(schema, base, data) = "reference_error" => Dangling(schema, base, data)
         /\ RunValidator(schema, base, data) = "errors" => Refuses(schema, base, data)
  BY AllRegistered, DanglingIsUnresolved DEF RunValidator, Run, Refuses

\* Where an outcome comes from: an operation of a catalog that was read and
\* that declares the request, with the schema of its body, or no operation.
LEMMA OutcomeIsOfOperation ==
  ASSUME ValidatorInv, NEW r, NEW path \in NormalizeEndpoint(r.method, r.path),
         NEW outcome, outcome = ValidateKey(<<r.method, path>>, r.data)
  PROVE  \/ outcome = "schema_not_found"
         \/ \E catalog, op :
               /\ OperationOf(op, catalog) /\ Declares(op, r)
               /\ \/ op.body = ABSENT /\ outcome = "clean"
                  \/ IsInline(op) /\ outcome = RunValidator(op.body.schema, catalog.dir, r.data)
                  \/ IsRef(op) /\ \E f \in Referred(op) : outcome = RunValidator(f.schema, ABSENT, r.data)
         \/ outcome = HandleUnmapped(<<r.method, path>>)
<1>1. PICK key : key = <<r.method, path>>
  OBVIOUS
<1>2. CASE key \in DOMAIN inline_schemas
  <2>1. PICK catalog, op :
           /\ OperationOf(op, catalog) /\ KeyOf(op) = key /\ IsInline(op)
           /\ inline_schemas[key] = [schema |-> op.body.schema, base |-> catalog.dir]
    BY <1>2 DEF ValidatorInv, TablesInv
  <2>2. outcome = RunValidator(op.body.schema, catalog.dir, r.data)
    BY <1>1, <1>2, <2>1 DEF ValidateKey
  <2> QED  BY <1>1, <2>1, <2>2, NormalizedDeclares
<1>3. CASE key \notin DOMAIN inline_schemas /\ key \in DOMAIN endpoint_schemas
  <2>1. PICK catalog, op :
           /\ OperationOf(op, catalog) /\ KeyOf(op) = key /\ IsRef(op)
           /\ endpoint_schemas[key] = op.body.name
    BY <1>3 DEF ValidatorInv, TablesInv
  <2>2. outcome = ValidateJson(op.body.name, r.data)
    BY <1>1, <1>3, <2>1 DEF ValidateKey
  <2>3. CASE outcome # "schema_not_found"
    <3>1. PICK f \in Files : /\ f.readable /\ f.name \in {op.body.name, Suffixed(op.body.name)}
                             /\ outcome = RunValidator(f.schema, ABSENT, r.data)
      BY <2>2, <2>3, JsonIsOfFile
    <3>2. f \in Referred(op)
      BY <3>1 DEF Referred
    <3> QED  BY <1>1, <2>1, <3>1, <3>2, NormalizedDeclares
  <2> QED  BY <2>3
<1>4. CASE key \notin DOMAIN inline_schemas \cup DOMAIN endpoint_schemas /\ key \in known_endpoints
  <2>1. PICK catalog, op : OperationOf(op, catalog) /\ KeyOf(op) = key /\ op.body = ABSENT
    BY <1>4 DEF ValidatorInv, TablesInv
  <2>2. outcome = "clean"
    BY <1>1, <1>4 DEF ValidateKey
  <2> QED  BY <1>1, <2>1, <2>2, NormalizedDeclares
<1>5. CASE key \notin DOMAIN inline_schemas \cup DOMAIN endpoint_schemas \cup known_endpoints
  BY <1>1, <1>5 DEF ValidateKey
<1> QED  BY <1>2, <1>3, <1>4, <1>5

\* The policy a ready validator has is one of the three, and only "allow" calls
\* an unmapped endpoint clean.
LEMMA UnmappedOutcome ==
  ASSUME ValidatorInv, phase = "ready", NEW key
  PROVE  /\ HandleUnmapped(key) \notin {"reference_error", "errors"}
         /\ policy # "allow" => HandleUnmapped(key) # "clean"
<1>1. policy \in {"strict", "warn", "allow"}
  BY DEF ValidatorInv, PhaseInv, Policies
<1>2. /\ policy = "strict" => HandleUnmapped(key) = "raised"
      /\ policy = "warn" => HandleUnmapped(key) = "unvalidated_marker"
      /\ policy = "allow" => HandleUnmapped(key) = "clean"
  BY DEF HandleUnmapped
<1> QED  BY <1>1, <1>2

\* The steps other than validate_request leave the last verdict, the policy
\* and the catalogs that could be read as they are.
LEMMA OtherSteps ==
  ASSUME [Next]_vars, ~ \E r \in Requests : ValidateRequest(r)
  PROVE  UNCHANGED <<verdict, policy, found>>
  BY DEF Next, Construct, LoadSchemaFile, OpenRoot, RegisterOperation, OpenModule, vars, tables

\* The validator fails closed, for every contract: unless its owner chose
\* "allow", a request it calls clean has a route that a catalog it could read
\* declares, without a body or with a schema that accepts the payload
\* (validate_request, _handle_unmapped_endpoint).
THEOREM CleanDeclared == Spec => []CleanIsDeclared
<1>1. Init => CleanIsDeclared
  BY DEF Init, CleanIsDeclared
<1>2. ValidatorInv /\ CleanIsDeclared /\ [Next]_vars => CleanIsDeclared'
  <2> SUFFICES ASSUME ValidatorInv, CleanIsDeclared, [Next]_vars
               PROVE  CleanIsDeclared'
    OBVIOUS
  <2>1. ASSUME NEW r \in Requests, ValidateRequest(r)
        PROVE  CleanIsDeclared'
    <3>1. PICK path \in NormalizeEndpoint(r.method, r.path) :
             verdict' = [request |-> r, outcome |-> ValidateKey(<<r.method, path>>, r.data)]
      BY <2>1 DEF ValidateRequest, Outcomes
    <3>2. PICK outcome : outcome = ValidateKey(<<r.method, path>>, r.data)
      OBVIOUS
    <3>3. phase = "ready" /\ policy' = policy /\ Declared' = Declared
      BY <2>1 DEF ValidateRequest, Declared
    <3>4. CASE outcome = "clean" /\ policy # "allow"
      <4>1. HandleUnmapped(<<r.method, path>>) # "clean"
        BY <3>3, <3>4, UnmappedOutcome
      <4>2. PICK catalog, op :
               /\ OperationOf(op, catalog) /\ Declares(op, r)
               /\ \/ op.body = ABSENT /\ outcome = "clean"
                  \/ IsInline(op) /\ outcome = RunValidator(op.body.schema, catalog.dir, r.data)
                  \/ IsRef(op) /\ \E f \in Referred(op) : outcome = RunValidator(f.schema, ABSENT, r.data)
        BY <3>2, <3>4, <4>1, OutcomeIsOfOperation
      <4>3. Accepts(op, r.data)
        BY <3>4, <4>2, RunClean DEF Accepts, IsInline, IsRef
      <4>4. op \in Declared'
        BY <3>3, <4>2, OperationDeclared
      <4> QED  BY <3>1, <4>2, <4>3, <4>4 DEF CleanIsDeclared
    <3> QED  BY <3>1, <3>2, <3>3, <3>4 DEF CleanIsDeclared
  <2>2. CASE ~ \E r \in Requests : ValidateRequest(r)
    BY <2>2, OtherSteps DEF CleanIsDeclared, Declared
  <2> QED  BY <2>1, <2>2
<1> QED  BY <1>1, <1>2, ValidatorInvariance, PTL DEF Spec

\* A reference error is a defect of the contract and an error one of the
\* payload, for every contract and every order in which files and catalogs were
\* read: some schema that is declared for the request comes, on this payload and
\* through any chain of references, to a document or a pointer that is not there,
\* or comes to none such and refuses the payload (_run_validator,
\* _anchored_validator).
THEOREM ReferenceErrorReal == Spec => []ReferenceErrorIsReal
<1>1. Init => ReferenceErrorIsReal
  BY DEF Init, ReferenceErrorIsReal
<1>2. ValidatorInv /\ ReferenceErrorIsReal /\ [Next]_vars => ReferenceErrorIsReal'
  <2> SUFFICES ASSUME ValidatorInv, ReferenceErrorIsReal, [Next]_vars
               PROVE  ReferenceErrorIsReal'
    OBVIOUS
  <2>1. ASSUME NEW r \in Requests, ValidateRequest(r)
        PROVE  ReferenceErrorIsReal'
    <3>1. PICK path \in NormalizeEndpoint(r.method, r.path) :
             verdict' = [request |-> r, outcome |-> ValidateKey(<<r.method, path>>, r.data)]
      BY <2>1 DEF ValidateRequest, Outcomes
    <3>2. PICK outcome : outcome = ValidateKey(<<r.method, path>>, r.data)
      OBVIOUS
    <3>3. phase = "ready" /\ files = {}
      BY <2>1 DEF ValidateRequest, ValidatorInv, PhaseInv
    <3>4. CASE outcome \in {"reference_error", "errors"}
      <4>1. HandleUnmapped(<<r.method, path>>) \notin {"reference_error", "errors"}
        BY <3>3, UnmappedOutcome
      <4>2. PICK catalog, op :
               /\ OperationOf(op, catalog) /\ Declares(op, r)
               /\ \/ op.body = ABSENT /\ outcome = "clean"
                  \/ IsInline(op) /\ outcome = RunValidator(op.body.schema, catalog.dir, r.data)
                  \/ IsRef(op) /\ \E f \in Referred(op) : outcome = RunValidator(f.schema, ABSENT, r.data)
        BY <3>2, <3>4, <4>1, OutcomeIsOfOperation
      <4>3. PICK s \in BodySchemas(op, catalog) : outcome = RunValidator(s[1], s[2], r.data)
        <5>1. CASE IsInline(op)
          <6>1. BodySchemas(op, catalog) = {<<op.body.schema, catalog.dir>>}
            BY <5>1 DEF BodySchemas, IsInline
          <6>2. outcome = RunValidator(op.body.schema, catalog.dir, r.data)
            BY <3>4, <4>2, <5>1 DEF IsInline, IsRef
          <6> QED  BY <6>1, <6>2
        <5>2. CASE IsRef(op)
          <6>1. BodySchemas(op, catalog) = {<<f.schema, ABSENT>> : f \in Referred(op)}
            BY <5>2 DEF BodySchemas, IsRef
          <6>2. PICK f \in Referred(op) : outcome = RunValidator(f.schema, ABSENT, r.data)
            BY <3>4, <4>2, <5>2 DEF IsInline, IsRef
          <6>3. <<f.schema, ABSENT>> \in BodySchemas(op, catalog)
            BY <6>1
          <6> QED  BY <6>2, <6>3
        <5> QED  BY <3>4, <4>2, <5>1, <5>2
      <4>4. IF outcome = "errors" THEN Refuses(s[1], s[2], r.data) ELSE Dangling(s[1], s[2], r.data)
        BY <3>3, <3>4, <4>3, RunIsRight
      <4>5. catalog \in Catalogs /\ op \in Range(catalog.operations)
        BY <4>2 DEF OperationOf, Read, Catalogs, Range
      <4> QED  BY <3>1, <3>2, <4>2, <4>4, <4>5 DEF ReferenceErrorIsReal
    <3> QED  BY <3>1, <3>2, <3>4 DEF ReferenceErrorIsReal
  <2>2. CASE ~ \E r \in Requests : ValidateRequest(r)
    BY <2>2, OtherSteps DEF ReferenceErrorIsReal
  <2> QED  BY <2>1, <2>2
<1> QED  BY <1>1, <1>2, ValidatorInvariance, PTL DEF Spec

\* If a request is normalised to several templates, every one is clean.
LEMMA SeveralAreClean ==
  ASSUME ValidatorInv, OverlapsHaveNoBody, NEW r \in Requests,
         NEW path \in NormalizeEndpoint(r.method, r.path),
         NEW other \in NormalizeEndpoint(r.method, r.path), path # other
  PROVE  ValidateKey(<<r.method, path>>, r.data) = "clean"
<1>1. <<r.method, r.path>> \notin Keys
  BY DEF NormalizeEndpoint
<1>2. PICK k \in Keys : k[1] = r.method /\ k[2] = path
  BY <1>1 DEF NormalizeEndpoint
<1>3. PICK k2 \in Keys : k2[1] = r.method /\ k2[2] = other
  BY <1>1 DEF NormalizeEndpoint
<1>4. PICK catalog2, op2 : OperationOf(op2, catalog2) /\ KeyOf(op2) = k2
  BY KeyIsOfOperation
<1>5. PICK catalog1, op1 : OperationOf(op1, catalog1) /\ KeyOf(op1) = k
  BY KeyIsOfOperation
<1>6. k = <<r.method, path>> /\ k2 = <<r.method, other>> /\ op2.path = other
  BY <1>2, <1>3, <1>4, <1>5 DEF KeyOf
<1>7. r.path \notin {path, other}
  BY <1>1, <1>6
<1>8. ASSUME NEW catalog, NEW op, OperationOf(op, catalog), KeyOf(op) = k
      PROVE  op.body = ABSENT
  <2>1. op.path = path
    BY <1>6, <1>8 DEF KeyOf
  <2>2. Declares(op, r) /\ Declares(op2, r)
    BY <1>4, <1>6, <1>8, NormalizedDeclares
  <2>3. op \in Declared /\ op2 \in Declared
    BY <1>4, <1>8, OperationDeclared
  <2> QED  BY <1>6, <1>7, <2>1, <2>2, <2>3 DEF OverlapsHaveNoBody
<1>9. k \notin DOMAIN inline_schemas /\ k \notin DOMAIN endpoint_schemas
  BY <1>8 DEF ValidatorInv, TablesInv, IsInline, IsRef
<1>10. k \in known_endpoints
  BY KeyIsOfOperation
<1> QED  BY <1>6, <1>9, <1>10 DEF ValidateKey

\* One verdict per request, for every contract whose overlapping templates have
\* no body, whatever order the candidates are iterated in
\* (_normalize_endpoint).
THEOREM VerdictIsUnique == Spec => []OneVerdict
<1>1. ValidatorInv => OneVerdict
  <2> SUFFICES ASSUME ValidatorInv, phase = "ready", OverlapsHaveNoBody, NEW r \in Requests
               PROVE  Cardinality(Outcomes(r)) = 1
    BY DEF OneVerdict
  <2>1. PICK path : path \in NormalizeEndpoint(r.method, r.path)
    BY DEF NormalizeEndpoint
  <2>2. \A other \in NormalizeEndpoint(r.method, r.path) :
           ValidateKey(<<r.method, other>>, r.data) = ValidateKey(<<r.method, path>>, r.data)
    <3> TAKE other \in NormalizeEndpoint(r.method, r.path)
    <3>1. CASE other # path
      BY <2>1, <3>1, SeveralAreClean
    <3> QED  BY <3>1
  <2>3. Outcomes(r) = {ValidateKey(<<r.method, path>>, r.data)}
    BY <2>1, <2>2 DEF Outcomes
  <2> QED  BY <2>3, FS_Singleton
<1> QED  BY <1>1, ValidatorInvariance, PTL
=============================================================================
