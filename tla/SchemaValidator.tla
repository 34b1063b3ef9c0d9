--------------------------- MODULE SchemaValidator ---------------------------
(***************************************************************************)
(* validator.py: a SchemaValidator loads the packaged schema files in the  *)
(* order the file system gives them, registers the operations of a         *)
(* contract's root catalog and then of its endpoint modules, any of which  *)
(* may be missing or unreadable, and answers validate_request calls.       *)
(*                                                                         *)
(* A path is a sequence of segments, a segment in Variables a "{name}" of  *)
(* a template. A request body is ABSENT, a named or an inline schema.      *)
(*                                                                         *)
(* A schema is what the jsonschema library makes of it: its absolute $id,  *)
(* a directory and a name, or ABSENT; the pointers that lead to a part of  *)
(* it; which references it follows, when the part at a pointer is          *)
(* evaluated on an instance, and on which part of the instance; and the    *)
(* payloads that it accepts in the end. Payloads that are too deep for the *)
(* interpreter's stack and other exceptions of the library are left out.   *)
(***************************************************************************)
EXTENDS Naturals, Sequences, FiniteSets, SequencesExt

CONSTANTS ABSENT,       \* no request body, no policy given, nothing found
          Variables,    \* segments of a template that match any segment
          EMPTY,        \* the empty segment, and the pointer to a whole document
          INLINE,       \* __inline_request_schema__
          Files,        \* schema files: [name, readable, schema]
          Root,         \* the root catalog: [readable, dir, operations]
          Modules,      \* sequence of endpoint modules: [file, dir, operations]
          Requests,     \* [method, path, data] a caller may send
          Suffixed(_)   \* a schema name with "_schema" after it

Policies == {"strict", "warn", "allow"}
ModuleStates == {"loaded", "escapes", "missing", "unreadable"}

\* The packaged files have distinct names and distinct $ids, so none replaces
\* another. The $id of one of them is not absolute, and nothing refers to it.
ASSUME FilesAssumption ==
    \A f, g \in Files :
        f.name = g.name \/ (f.schema.id = g.schema.id /\ f.schema.id # ABSENT) => f = g

\* A catalog lists operations, each with no body, a named or an inline schema.
IsCatalog(catalog) ==
    /\ catalog.operations \in Seq(Range(catalog.operations))
    /\ \A op \in Range(catalog.operations) : op.body = ABSENT \/ op.body.kind \in {"ref", "inline"}
ASSUME CatalogsAssumption ==
    /\ IsCatalog(Root) /\ Modules \in Seq(Range(Modules))
    /\ \A i \in DOMAIN Modules : IsCatalog(Modules[i])

\* A variable is "{name}", which is no empty segment.
ASSUME VariablesAssumption == EMPTY \notin Variables

-----------------------------------------------------------------------------
(* The evaluation of a schema *)

\* The document a reference of the document id leads to. An absolute reference
\* goes up past every directory.
Target(id, r) ==
    IF r.name = ABSENT THEN id ELSE <<SubSeq(id[1], 1, Len(id[1]) - r.up) \o r.down, r.name>>
Follow(d, r) == [document |-> Target(d.id, r), pointer |-> r.pointer, instance |-> r.part]

\* iter_errors: the evaluations that one evaluation asks for.
Calls(documents, e) ==
    UNION {{Follow(d, r) : r \in {q \in d.refs : q.at = e.pointer /\ q.on = e.instance}} :
              d \in {c \in documents : c.id = e.document}}
LeadsNowhere(documents, e) ==
    ~ \E d \in documents : d.id = e.document /\ e.pointer \in d.pointers
Evaluations(documents, start) ==
    {start} \cup UNION {{Follow(d, r) : r \in d.refs} : d \in documents}
IsClosed(documents, S) == \A e \in S : Calls(documents, e) \subseteq S

\* Whatever the evaluation comes to is there, or else it ends with Unresolvable.
Resolves(documents, start) ==
    \E S \in SUBSET Evaluations(documents, start) :
        /\ start \in S /\ IsClosed(documents, S)
        /\ \A e \in S : ~LeadsNowhere(documents, e)

\* _anchored_validator: the schema stands at its own absolute $id, in place of
\* the registered one, or else in the directory of the catalog that declared
\* it, or of no catalog, at the root. A schema without an absolute $id is out of
\* reach of the references of others.
Anchor(schema, base) ==
    IF schema.id # ABSENT THEN schema.id ELSE <<IF base = ABSENT THEN <<>> ELSE base, INLINE>>
Anchored(registered, schema, base) ==
    {d \in registered : d.id \notin {ABSENT, Anchor(schema, base)}}
    \cup {[schema EXCEPT !.id = Anchor(schema, base)]}
Start(schema, base, data) ==
    [document |-> Anchor(schema, base), pointer |-> EMPTY, instance |-> data]

\* _run_validator.
Run(registered, schema, base, data) ==
    IF ~Resolves(Anchored(registered, schema, base), Start(schema, base, data)) THEN "reference_error"
    ELSE IF data \in schema.accepts THEN "clean" ELSE "errors"

\* The schemas that an operation of a catalog declares, in their places: an
\* inline one, or those of the readable files of the name it refers to.
Referred(op) == {f \in Files : f.readable /\ f.name \in {op.body.name, Suffixed(op.body.name)}}
BodySchemas(op, catalog) ==
    IF op.body = ABSENT THEN {}
    ELSE IF op.body.kind = "inline" THEN {<<op.body.schema, catalog.dir>>}
    ELSE {<<f.schema, ABSENT>> : f \in Referred(op)}
Library == {f.schema : f \in {g \in Files : g.readable}}
Catalogs == {Root} \cup Range(Modules)

\* No schema comes back to itself on one and the same instance, which would
\* exhaust the interpreter's stack on every payload.
ASSUME LoopsAssumption ==
    \A catalog \in Catalogs, r \in Requests : \A op \in Range(catalog.operations) :
    \A s \in BodySchemas(op, catalog) :
        LET documents == Anchored(Library, s[1], s[2])
        IN  \A S \in SUBSET Evaluations(documents, Start(s[1], s[2], r.data)) :
                S # {} => \E e \in S : Calls(documents, e) \cap S = {}
-----------------------------------------------------------------------------
(* The validator *)

VARIABLES policy,                \* self.unknown_endpoint_policy
          found,                 \* what each module's path leads to
          phase,                 \* where the constructor is
          files,                 \* schema files still to be read
          operations,            \* operations of the open catalog still to be registered
          next_module,           \* index of the next endpoint module
          catalog_dir,           \* directory of the open catalog
          schemas,               \* self._schemas
          endpoint_schemas,      \* self._endpoint_schemas
          inline_schemas,        \* self._inline_request_schemas with their base ids
          known_endpoints,       \* self._known_endpoints
          verdict                \* the last call and its outcome
tables == <<endpoint_schemas, inline_schemas, known_endpoints>>
vars == <<policy, found, phase, files, operations, next_module, catalog_dir, schemas, tables, verdict>>

Put(f, k, v) == [x \in DOMAIN f \cup {k} |-> IF x = k THEN v ELSE f[x]]
Get(f, k) == IF k \in DOMAIN f THEN f[k] ELSE ABSENT
EmptyMap == [x \in {} |-> x]
-----------------------------------------------------------------------------
(* The constructor *)

\* _resolve_unknown_endpoint_policy: the argument, then the environment, then
\* "warn"; anything else raises.
ResolvePolicy(explicit, env) ==
    LET candidate == IF explicit # ABSENT THEN explicit ELSE env
    IN  IF candidate = ABSENT THEN "warn"
        ELSE IF candidate \in Policies THEN candidate ELSE "ValueError"

Init ==
    /\ \E explicit \in Policies \cup {ABSENT, "other"}, env \in Policies \cup {ABSENT, "other"} :
          policy = ResolvePolicy(explicit, env)
    /\ found \in [DOMAIN Modules -> ModuleStates]
    /\ phase = IF policy = "ValueError" THEN "raised" ELSE "schemas"
    /\ files = Files
    /\ operations = <<>> /\ next_module = 1 /\ catalog_dir = ABSENT
    /\ schemas = EmptyMap
    /\ endpoint_schemas = EmptyMap /\ inline_schemas = EmptyMap /\ known_endpoints = {}
    /\ verdict = ABSENT

\* One file of rglob("*.json"): a file that cannot be read is skipped, one of
\* a name already loaded replaces it.
LoadSchemaFile(file) ==
    /\ phase = "schemas"
    /\ file \in files
    /\ files' = files \ {file}
    /\ schemas' = IF file.readable THEN Put(schemas, file.name, file.schema) ELSE schemas
    /\ UNCHANGED <<policy, found, phase, operations, next_module, catalog_dir, tables, verdict>>

\* _load_endpoint_mappings opens the root catalog. An unreadable root leaves
\* the modules unread too.
OpenRoot ==
    /\ phase = "schemas"
    /\ files = {}
    /\ phase' = IF Root.readable THEN "catalogs" ELSE "ready"
    /\ operations' = IF Root.readable THEN Root.operations ELSE <<>>
    /\ catalog_dir' = Root.dir
    /\ UNCHANGED <<policy, found, files, next_module, schemas, tables, verdict>>

\* The three tables after _register_operation. A later declaration of the same
\* key replaces an earlier one of its own kind only.
KnownAfter(op, key) == known_endpoints \cup {key}
InlineAfterRootBase(op, key) ==
    IF op.body # ABSENT /\ op.body.kind = "inline"
    THEN Put(inline_schemas, key, [schema |-> op.body.schema, base |-> Root.dir])
    ELSE inline_schemas
InlineAfter(op, key) ==
    IF op.body # ABSENT /\ op.body.kind = "inline"
    THEN Put(inline_schemas, key, [schema |-> op.body.schema, base |-> catalog_dir])
    ELSE inline_schemas
ReferredAfter(op, key) ==
    IF op.body # ABSENT /\ op.body.kind = "ref"
    THEN Put(endpoint_schemas, key, op.body.name) ELSE endpoint_schemas

RegisterOperation ==
    /\ phase = "catalogs"
    /\ operations # <<>>
    /\ LET op == Head(operations)
           key == <<op.method, op.path>>
       IN  /\ known_endpoints' = KnownAfter(op, key)
           /\ endpoint_schemas' = ReferredAfter(op, key)
           /\ inline_schemas' = InlineAfter(op, key)
    /\ operations' = Tail(operations)
    /\ UNCHANGED <<policy, found, phase, files, next_module, catalog_dir, schemas, verdict>>

\* _load_endpoint_modules: a module that is not there, escapes the package or
\* cannot be parsed is skipped with a warning.
OpenModule ==
    /\ phase = "catalogs"
    /\ operations = <<>>
    /\ IF next_module > Len(Modules)
       THEN phase' = "ready" /\ UNCHANGED <<operations, next_module, catalog_dir>>
       ELSE /\ operations' = IF found[next_module] = "loaded"
                             THEN Modules[next_module].operations ELSE <<>>
            /\ catalog_dir' = Modules[next_module].dir
            /\ next_module' = next_module + 1
            /\ UNCHANGED phase
    /\ UNCHANGED <<policy, found, files, schemas, tables, verdict>>
-----------------------------------------------------------------------------
(* validate_request *)

\* _template_matches_endpoint.
TemplateMatches(template, path) ==
    /\ Len(template) = Len(path)
    /\ \A i \in DOMAIN template :
          IF template[i] \in Variables THEN path[i] # EMPTY ELSE template[i] = path[i]

Keys == DOMAIN endpoint_schemas \cup DOMAIN inline_schemas \cup known_endpoints

\* _normalize_endpoint: the path itself when it is registered, else a matching
\* template. The candidates are a set of strings, whose order of iteration
\* differs from process to process: any of the matching ones may come first.
NormalizeTemplatesFirst(method, path) ==
    LET matching == {k \in Keys : k[1] = method /\ TemplateMatches(k[2], path)}
    IN  IF matching = {} THEN {path} ELSE {k[2] : k \in matching}
NormalizeEndpoint(method, path) ==
    LET matching == {k \in Keys : k[1] = method /\ TemplateMatches(k[2], path)}
    IN  IF <<method, path>> \in Keys \/ matching = {} THEN {path}
        ELSE {k[2] : k \in matching}

RunValidator(schema, base, data) == Run(Range(schemas), schema, base, data)

\* validate_json.
ValidateJson(name, data) ==
    LET schema == IF Get(schemas, name) # ABSENT THEN Get(schemas, name)
                  ELSE Get(schemas, Suffixed(name))
    IN  IF schema = ABSENT THEN "schema_not_found" ELSE RunValidator(schema, ABSENT, data)

\* _handle_unmapped_endpoint.
HandleUnmappedAllowed(key) == "clean"
HandleUnmapped(key) ==
    CASE policy = "strict" -> "raised"
      [] policy = "warn" -> "unvalidated_marker"
      [] policy = "allow" -> "clean"

ValidateKey(key, data) ==
    IF key \in DOMAIN inline_schemas
    THEN RunValidator(inline_schemas[key].schema, inline_schemas[key].base, data)
    ELSE IF key \in DOMAIN endpoint_schemas THEN ValidateJson(endpoint_schemas[key], data)
    ELSE IF key \in known_endpoints THEN "clean"
    ELSE HandleUnmapped(key)

Outcomes(r) == {ValidateKey(<<r.method, path>>, r.data) : path \in NormalizeEndpoint(r.method, r.path)}

ValidateRequest(r) ==
    /\ phase = "ready"
    /\ \E outcome \in Outcomes(r) : verdict' = [request |-> r, outcome |-> outcome]
    /\ UNCHANGED <<policy, found, phase, files, operations, next_module, catalog_dir, schemas, tables>>

Construct == (\E file \in Files : LoadSchemaFile(file)) \/ OpenRoot \/ RegisterOperation \/ OpenModule
Next == Construct \/ \E r \in Requests : ValidateRequest(r)
Spec == Init /\ [][Next]_vars
-----------------------------------------------------------------------------
(* Properties *)

\* The operations of the catalogs that could be read.
Declared ==
    IF ~Root.readable THEN {}
    ELSE Range(Root.operations) \cup
         UNION {Range(Modules[i].operations) : i \in {j \in DOMAIN Modules : found[j] = "loaded"}}

Declares(op, r) == op.method = r.method /\ TemplateMatches(op.path, r.path)

\* Whether a body accepts a payload.
Accepts(op, data) ==
    \/ op.body = ABSENT
    \/ op.body.kind = "inline" /\ data \in op.body.schema.accepts
    \/ op.body.kind = "ref" /\ \E f \in Referred(op) : data \in f.schema.accepts

\* The validator fails closed: unless its owner chose "allow", it calls a
\* request clean only when a catalog that was read declares the route, and
\* either the route has no body or the payload is one its schema accepts. An
\* endpoint module that is missing or broken never turns its routes into ones
\* that pass (_handle_unmapped_endpoint).
CleanIsDeclared ==
    verdict # ABSENT /\ verdict.outcome = "clean" /\ policy # "allow" =>
        \E op \in Declared : Declares(op, verdict.request) /\ Accepts(op, verdict.request.data)

\* Two operations that match a request by different templates have no body.
OverlapsHaveNoBody ==
    \A op1, op2 \in Declared : \A r \in Requests :
        Declares(op1, r) /\ Declares(op2, r) /\ op1.path # op2.path
            /\ r.path \notin {op1.path, op2.path} => op1.body = ABSENT /\ op2.body = ABSENT

\* Overlapping templates are harmless as long as none of them has a body, as
\* in the packaged contracts: then every process gives a request one verdict,
\* whatever the order in which it iterates over the candidates.
OneVerdict ==
    phase = "ready" /\ OverlapsHaveNoBody => \A r \in Requests : Cardinality(Outcomes(r)) = 1

\* The evaluations a payload leads to, along references among the readable
\* files: those in every closed set that the evaluation of the schema is in.
Reached(schema, base, data) ==
    LET documents == Anchored(Library, schema, base)
        start == Start(schema, base, data)
    IN  {e \in Evaluations(documents, start) :
            \A S \in SUBSET Evaluations(documents, start) :
                start \in S /\ IsClosed(documents, S) => e \in S}
Dangling(schema, base, data) ==
    \E e \in Reached(schema, base, data) : LeadsNowhere(Anchored(Library, schema, base), e)
Refuses(schema, base, data) == ~Dangling(schema, base, data) /\ data \notin schema.accepts

\* A reference error is a defect of the contract and an error one of the
\* payload, and neither is taken for the other (_run_validator's comment on
\* laundering), whichever files and catalogs were read in which order. A
\* reference error is given only when some schema that is declared for the
\* request, evaluated on this payload, comes through any chain of references to
\* a document that no readable file has or to a pointer that is not in it; an
\* error only when some declared schema comes to no such end and refuses it.
\* Inline schemas are at home in their own catalog (_anchored_validator).
ReferenceErrorIsReal ==
    verdict # ABSENT /\ verdict.outcome \in {"reference_error", "errors"} =>
        \E catalog \in Catalogs : \E op \in Range(catalog.operations) :
            /\ Declares(op, verdict.request)
            /\ \E s \in BodySchemas(op, catalog) :
                  IF verdict.outcome = "errors" THEN Refuses(s[1], s[2], verdict.request.data)
                  ELSE Dangling(s[1], s[2], verdict.request.data)
=============================================================================
