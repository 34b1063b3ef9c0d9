----------------------------- MODULE SchemaDiff -----------------------------
(***************************************************************************)
(* The structural comparator of scripts/breaking_schema_check.py: the      *)
(* findings between the old and the new shape of one schema or of one      *)
(* OpenAPI document, in the order the code emits them.                     *)
(*                                                                         *)
(* A schema is a function of its keywords, [ref |-> [doc, def]] when it is *)
(* a $ref, or one of the constants ANY and NOTHING for true and false.     *)
(* Types, enums and required names are sets, a pointer is a sequence of    *)
(* segments, and a document's URI is a sequence of names: <<file>> for a   *)
(* file, longer for the scope of a fragment inside one.                    *)
(***************************************************************************)
EXTENDS Integers, Sequences, FiniteSets, SequencesExt

CONSTANTS ABSENT,      \* a keyword or a member that is not there
          ANY,         \* the schema true
          NOTHING,     \* the schema false
          ODD,         \* a value of a shape the comparator does not model
          SAME,        \* the document of a "#..." reference
          ROOT,        \* a reference to a whole document
          MAX_HOPS,    \* deref's limit on a chain of references
          MAX_NESTING  \* the depth at which comparison stops

Get(f, k) == IF k \in DOMAIN f THEN f[k] ELSE ABSENT
IsObject(v) == v \notin {ABSENT, ANY, NOTHING, ODD}
IsList(v) == IsObject(v)
\* _as_dict: anything but an object is no members.
AsDict(v) == IF IsObject(v) THEN v ELSE [x \in {} |-> x]
OrEmpty(s) == IF s = ABSENT THEN {} ELSE s
\* The findings that f has for each name of its domain, one after another.
InTurn(f) == FoldSet(LAMBDA name, before : before \o f[name], <<>>, DOMAIN f)
Listed(S) == FoldSet(LAMBDA x, before : Append(before, x), <<>>, S)
-----------------------------------------------------------------------------
(* Findings *)

\* emit, with the identity a finding is acknowledged by.
Finding(scope, pointer, rule, severity, subject, old, new) ==
    <<[file |-> scope.file, rule |-> rule, pointer |-> pointer, role |-> scope.role,
       severity |-> severity, subject |-> subject, old |-> old, new |-> new]>>
Emit(scope, pointer, rule, severity) ==
    Finding(scope, pointer, rule, severity, ABSENT, ABSENT, ABSENT)

\* _keyword_finding: a request breaks when it accepts less, a response when
\* it guarantees less, a schema of either use both ways.
Severity(role, narrowed) ==
    CASE role = "request" -> IF narrowed THEN "BREAKING" ELSE "INFO"
      [] role = "response" -> IF narrowed THEN "INFO" ELSE "BREAKING"
      [] OTHER -> "BREAKING"
Keyword(scope, pointer, rule, narrowed, subject, old, new) ==
    Finding(scope, pointer, rule, Severity(scope.role, narrowed), subject, old, new)
-----------------------------------------------------------------------------
(* References *)

Resolved(node, base, visited, end) ==
    [node |-> node, base |-> base, visited |-> visited, end |-> end]

\* _split_ref and the lookup of the registry: the document a reference
\* names, and what it points at there.
RefKey(ref, base) == [doc |-> IF ref.doc = SAME THEN base ELSE <<ref.doc>>, def |-> ref.def]
Lookup(registry, key) ==
    IF key.doc \notin DOMAIN registry THEN ABSENT
    ELSE IF key.def = ROOT THEN registry[key.doc]
    ELSE Get(AsDict(Get(AsDict(registry[key.doc]), "definitions")), key.def)

\* deref: follows a chain of references; the end is "found", "cyclic" or
\* "unresolved".
RECURSIVE Deref(_, _, _, _, _)
Deref(node, base, registry, visited, hops) ==
    IF ~IsObject(node) THEN Resolved(node, base, visited, "found")
    ELSE IF "ref" \notin DOMAIN node THEN Resolved(node, base, visited, "found")
    ELSE LET key == RefKey(node.ref, base)
             target == Lookup(registry, key)
         IN  IF hops + 1 > MAX_HOPS \/ key \in visited
             THEN Resolved(node, base, visited, "cyclic")
             ELSE IF target = ABSENT THEN Resolved(node, base, visited, "unresolved")
             ELSE Deref(target, key.doc, registry, visited \cup {key}, hops + 1)

\* _build_registry: every file that is an object, under its own URI.
Registry(tree) ==
    [uri \in {<<f>> : f \in {g \in DOMAIN tree : IsObject(tree[g])}} |-> tree[uri[1]]]
-----------------------------------------------------------------------------
(* The comparator *)

Scope(file, role, old_base, new_base, old_reg, new_reg) ==
    [file |-> file, role |-> role, old_base |-> old_base, new_base |-> new_base,
     old_reg |-> old_reg, new_reg |-> new_reg, old_visited |-> {}, new_visited |-> {},
     depth |-> 0]

RECURSIVE CompareNode(_, _, _, _)
\* _NodeScope.recurse
Recurse(scope, old, new, pointer) ==
    CompareNode([scope EXCEPT !.depth = @ + 1], old, new, pointer)

ClosednessRank(s) ==
    LET ap == Get(s, "additionalProperties")
    IN  IF ap = NOTHING THEN 2 ELSE IF IsObject(ap) THEN 1 ELSE 0

\* _set_delta: what has gone and what has come between two optional sets. A
\* side without a constraint is a member of its own.
SetDelta(old, new) ==
    [removed |-> IF old = ABSENT /\ new # ABSENT THEN {"<was unconstrained>"}
                 ELSE OrEmpty(old) \ OrEmpty(new),
     added |-> IF new = ABSENT /\ old # ABSENT THEN {"<now unconstrained>"}
               ELSE OrEmpty(new) \ OrEmpty(old)]

\* _enum_delta: dropping the enum is a removal, introducing one an addition.
EnumDelta(old, new) ==
    [removed |-> IF old # ABSENT /\ new = ABSENT THEN {"<enum constraint removed entirely>"}
                 ELSE OrEmpty(old) \ OrEmpty(new),
     added |-> IF new # ABSENT /\ old = ABSENT THEN {"<enum constraint added>"}
               ELSE OrEmpty(new) \ OrEmpty(old)]

DeltaFindings(scope, pointer, rule, delta, old, new) ==
    (IF delta.removed = {} THEN <<>>
     ELSE Keyword(scope, pointer, rule, TRUE, [direction |-> "removed", values |-> delta.removed], old, new))
    \o (IF delta.added = {} THEN <<>>
        ELSE Keyword(scope, pointer, rule, FALSE, [direction |-> "added", values |-> delta.added], old, new))

CompareType(scope, pointer, old, new) ==
    LET o == Get(old, "type")
        n == Get(new, "type")
    IN  IF o = n THEN <<>> ELSE DeltaFindings(scope, pointer, "type", SetDelta(o, n), o, n)
CompareEnum(scope, pointer, old, new) ==
    LET o == Get(old, "enum")
        n == Get(new, "enum")
    IN  IF o = n THEN <<>> ELSE DeltaFindings(scope, pointer, "enum", EnumDelta(o, n), o, n)

CompareAdditionalProperties(scope, pointer, old, new) ==
    LET ranks == <<ClosednessRank(old), ClosednessRank(new)>>
    IN  (IF ranks[1] = ranks[2] THEN <<>>
         ELSE Keyword(scope, pointer, "additionalProperties", ranks[2] > ranks[1],
                      "additionalProperties", ranks[1], ranks[2]))
        \o (IF ranks # <<1, 1>> THEN <<>>
            ELSE Recurse(scope, old.additionalProperties, new.additionalProperties,
                         Append(pointer, "additionalProperties")))

\* A pattern that changes counts as a narrowing.
ComparePattern(scope, pointer, old, new) ==
    LET o == Get(old, "pattern")
        n == Get(new, "pattern")
    IN  IF o = n THEN <<>> ELSE Keyword(scope, pointer, "pattern", n # ABSENT, "pattern", o, n)

\* _compare_max_bounds and _compare_min_bounds: an absent bound is infinite,
\* and lowering an upper bound or raising a lower one narrows.
MaxKeys == {"maxLength", "maximum", "maxItems", "maxProperties"}
MinKeys == {"minLength", "minimum", "minItems", "minProperties"}
Tighter(kw, a, b) ==
    /\ a # ABSENT
    /\ \/ b = ABSENT
       \/ kw \in MaxKeys /\ a < b
       \/ kw \in MinKeys /\ a > b
CompareBounds(scope, pointer, old, new) ==
    InTurn([kw \in MaxKeys \cup MinKeys |->
        LET o == Get(old, kw)
            n == Get(new, kw)
        IN  IF o = n THEN <<>>
            ELSE Keyword(scope, pointer, kw, Tighter(kw, n, o), kw, o, n)])

CompareRequired(scope, pointer, old, new) ==
    LET o == OrEmpty(Get(old, "required"))
        n == OrEmpty(Get(new, "required"))
    IN  InTurn([name \in n \ o |-> Keyword(scope, pointer, "required", TRUE, name, FALSE, TRUE)])
        \o InTurn([name \in o \ n |-> Keyword(scope, pointer, "required", FALSE, name, TRUE, FALSE)])

\* _property_removed and _property_added: what an open object gains or loses
\* is information only.
PropertyRemoved(scope, pointer, name, new_rank) ==
    IF new_rank >= 1 THEN Keyword(scope, pointer, "property_removed", TRUE, name, TRUE, FALSE)
    ELSE Emit(scope, pointer, "property_removed", "INFO")
PropertyAdded(scope, pointer, name, old_rank) ==
    IF old_rank >= 1 THEN Keyword(scope, pointer, "property_added", FALSE, name, FALSE, TRUE)
    ELSE Emit(scope, pointer, "property_added", "INFO")

CompareProperties(scope, pointer, old, new) ==
    LET o == AsDict(Get(old, "properties"))
        n == AsDict(Get(new, "properties"))
        At(name) == pointer \o <<"properties", name>>
    IN  InTurn([name \in DOMAIN o \cup DOMAIN n |->
            IF name \notin DOMAIN n THEN PropertyRemoved(scope, At(name), name, ClosednessRank(new))
            ELSE IF name \notin DOMAIN o THEN PropertyAdded(scope, At(name), name, ClosednessRank(old))
            ELSE Recurse(scope, o[name], n[name], At(name))])

PatternPropertyAdded(scope, pointer, pat, old_rank) ==
    IF old_rank >= 1 THEN Keyword(scope, pointer, "patternProperties_added", FALSE, pat, FALSE, TRUE)
    ELSE Emit(scope, pointer, "patternProperties_added", "INFO")
ComparePatternProperties(scope, pointer, old, new) ==
    LET o == AsDict(Get(old, "patternProperties"))
        n == AsDict(Get(new, "patternProperties"))
        At(pat) == pointer \o <<"patternProperties", pat>>
    IN  InTurn([pat \in DOMAIN o \cup DOMAIN n |->
            IF pat \notin DOMAIN n
            THEN Keyword(scope, At(pat), "patternProperties_removed", ClosednessRank(new) >= 1,
                         pat, TRUE, FALSE)
            ELSE IF pat \notin DOMAIN o THEN PatternPropertyAdded(scope, At(pat), pat, ClosednessRank(old))
            ELSE Recurse(scope, o[pat], n[pat], At(pat))])

\* A shape of items that is neither absent nor an object (a list, a Boolean)
\* is left to a manual review.
CompareItems(scope, pointer, old, new) ==
    LET o == Get(old, "items")
        n == Get(new, "items")
        p == Append(pointer, "items")
    IN  IF IsObject(o) /\ IsObject(n) THEN Recurse(scope, o, n, p)
        ELSE IF o = ABSENT /\ IsObject(n) THEN Keyword(scope, p, "items", TRUE, "items", o, n)
        ELSE IF IsObject(o) /\ n = ABSENT THEN Keyword(scope, p, "items", FALSE, "items", o, n)
        ELSE IF o # n THEN Emit(scope, p, "items_structure_changed", "INFO")
        ELSE <<>>

\* _compare_combinator_branches: branches are aligned by position.
CompareBranches(scope, p, c, o, n) ==
    IF Len(o) # Len(n)
    THEN Finding(scope, p, c \o "_branch_count_changed", "BREAKING", c, Len(o), Len(n))
    ELSE FlattenSeq([i \in DOMAIN o |-> Recurse(scope, o[i], n[i], Append(p, ToString(i)))])

CompareCombinator(scope, pointer, c, old, new) ==
    LET o == Get(old, c)
        n == Get(new, c)
        p == Append(pointer, c)
    IN  IF o = ABSENT /\ n = ABSENT THEN <<>>
        ELSE IF o = ABSENT /\ IsList(n)
        THEN IF c = "allOf" /\ n = <<>> THEN Emit(scope, p, c \o "_added", "INFO")
             ELSE Keyword(scope, p, c \o "_added", TRUE, c, 0, Len(n))
        ELSE IF IsList(o) /\ n = ABSENT
        THEN IF c = "allOf" /\ o = <<>> THEN Emit(scope, p, c \o "_removed", "INFO")
             ELSE Keyword(scope, p, c \o "_removed", FALSE, c, Len(o), 0)
        ELSE IF ~IsList(o) \/ ~IsList(n) THEN Emit(scope, p, c \o "_shape_changed", "BREAKING")
        ELSE CompareBranches(scope, p, c, o, n)

\* compare_node after _resolve_node_pair has followed both sides' references
\* and has stopped on what it cannot follow.
CompareNode(scope, old_raw, new_raw, pointer) ==
    LET old == Deref(old_raw, scope.old_base, scope.old_reg, scope.old_visited, 0)
        new == Deref(new_raw, scope.new_base, scope.new_reg, scope.new_visited, 0)
        here == [scope EXCEPT !.old_base = old.base, !.new_base = new.base,
                              !.old_visited = old.visited, !.new_visited = new.visited]
        o == old.node
        n == new.node
    IN  IF scope.depth > MAX_NESTING THEN Emit(scope, pointer, "depth_limit", "INFO")
        ELSE IF "unresolved" \in {old.end, new.end}
        THEN Emit(scope, pointer, "unresolved_ref", "BREAKING")
        ELSE IF ~IsObject(o) \/ ~IsObject(n)
        THEN IF o = n THEN <<>> ELSE Emit(scope, pointer, "leaf_changed", "INFO")
        ELSE IF "cyclic" \in {old.end, new.end} THEN Emit(scope, pointer, "cyclic_ref", "INFO")
        ELSE FlattenSeq(<<CompareType(here, pointer, o, n),
                          CompareEnum(here, pointer, o, n),
                          CompareAdditionalProperties(here, pointer, o, n),
                          ComparePattern(here, pointer, o, n),
                          CompareBounds(here, pointer, o, n),
                          CompareRequired(here, pointer, o, n),
                          CompareProperties(here, pointer, o, n),
                          ComparePatternProperties(here, pointer, o, n),
                          CompareItems(here, pointer, o, n),
                          CompareCombinator(here, pointer, "oneOf", o, n),
                          CompareCombinator(here, pointer, "anyOf", o, n),
                          CompareCombinator(here, pointer, "allOf", o, n)>>)
-----------------------------------------------------------------------------
(* OpenAPI documents *)

\* _localize_schema_fragment: a fragment with definitions of its own is a
\* document for the references inside it.
Localize(base, registry, pointer, fragment) ==
    IF "definitions" \in DOMAIN fragment
    THEN [base |-> base \o pointer,
          reg |-> [uri \in DOMAIN registry \cup {base \o pointer} |->
                      IF uri = base \o pointer THEN fragment ELSE registry[uri]]]
    ELSE [base |-> base, reg |-> registry]

MediaSchema(content, media) == Get(AsDict(Get(content, media)), "schema")
CompareMedia(scope, role, old_content, new_content, pointer) ==
    LET oc == AsDict(old_content)
        nc == AsDict(new_content)
    IN  InTurn([media \in DOMAIN oc \cup DOMAIN nc |->
            LET o == MediaSchema(oc, media)
                n == MediaSchema(nc, media)
                p == pointer \o <<"content", media, "schema">>
                old == Localize(scope.old_base, scope.old_reg, p, o)
                new == Localize(scope.new_base, scope.new_reg, p, n)
            IN  IF IsObject(o) /\ IsObject(n)
                THEN CompareNode(Scope(scope.file, role, old.base, new.base, old.reg, new.reg), o, n, p)
                ELSE IF o = ABSENT /\ IsObject(n)
                THEN Emit([scope EXCEPT !.role = role], p, "schema_added", "INFO")
                ELSE IF IsObject(o) /\ n = ABSENT
                THEN Emit([scope EXCEPT !.role = role], p, "schema_removed", "BREAKING")
                ELSE <<>>])

IsRequired(part) == Get(part, "required") = TRUE
CompareRequiredFlag(scope, pointer, old, new, part) ==
    CASE ~IsRequired(old) /\ IsRequired(new) -> Emit(scope, pointer, part \o "_required", "BREAKING")
      [] IsRequired(old) /\ ~IsRequired(new) -> Emit(scope, pointer, part \o "_optional", "INFO")
      [] OTHER -> <<>>

CompareRequestBody(scope, pointer, old, new) ==
    LET o == Get(old, "requestBody")
        n == Get(new, "requestBody")
        p == Append(pointer, "requestBody")
    IN  IF IsObject(o) /\ IsObject(n)
        THEN CompareRequiredFlag(scope, p, o, n, "request_body")
             \o CompareMedia(scope, "request", Get(o, "content"), Get(n, "content"), p)
        ELSE IF o = ABSENT /\ IsObject(n)
        THEN Emit(scope, p, "request_body_added", IF IsRequired(n) THEN "BREAKING" ELSE "INFO")
        ELSE IF IsObject(o) /\ n = ABSENT THEN Emit(scope, p, "request_body_removed", "INFO")
        ELSE <<>>

\* _named_parameters: the last parameter of a name is the one of that name.
NamedParameters(op) ==
    LET list == IF "parameters" \in DOMAIN op THEN op.parameters ELSE <<>>
        Of(name) == {i \in DOMAIN list : list[i].name = name}
    IN  [name \in {list[i].name : i \in DOMAIN list} |->
            list[CHOOSE i \in Of(name) : \A j \in Of(name) : j <= i]]

CompareSharedParameter(scope, p, old, new) ==
    CompareRequiredFlag(scope, p, old, new, "parameter")
    \o (IF IsObject(Get(old, "schema")) /\ IsObject(Get(new, "schema"))
        THEN CompareNode(scope, old.schema, new.schema, Append(p, "schema"))
        ELSE <<>>)
CompareParameters(scope, pointer, old, new) ==
    LET o == NamedParameters(old)
        n == NamedParameters(new)
        At(name) == pointer \o <<"parameters", name>>
    IN  InTurn([name \in DOMAIN o \cup DOMAIN n |->
            IF name \notin DOMAIN n
            THEN Emit(scope, At(name), "parameter_removed", IF IsRequired(o[name]) THEN "BREAKING" ELSE "INFO")
            ELSE IF name \notin DOMAIN o
            THEN Emit(scope, At(name), "parameter_added", IF IsRequired(n[name]) THEN "BREAKING" ELSE "INFO")
            ELSE CompareSharedParameter(scope, At(name), o[name], n[name])])

\* A response given by reference has no content of its own and is not
\* followed.
CompareResponses(scope, pointer, old, new) ==
    LET o == AsDict(Get(old, "responses"))
        n == AsDict(Get(new, "responses"))
        At(status) == pointer \o <<"responses", status>>
        response == [scope EXCEPT !.role = "response"]
    IN  InTurn([status \in DOMAIN o \cup DOMAIN n |->
            IF status \notin DOMAIN n THEN Emit(response, At(status), "response_status_removed", "BREAKING")
            ELSE IF status \notin DOMAIN o THEN Emit(response, At(status), "response_status_added", "INFO")
            ELSE CompareMedia(scope, "response", Get(o[status], "content"), Get(n[status], "content"), At(status))])

CompareOperation(scope, pointer, old, new) ==
    CompareRequestBody(scope, pointer, old, new)
    \o CompareParameters(scope, pointer, old, new)
    \o CompareResponses(scope, pointer, old, new)

\* compare_endpoints_file. A path item's own "parameters" list is a key like
\* a method, but is no operation and is not compared.
CompareEndpointsFile(scope, old_doc, new_doc) ==
    LET o == AsDict(Get(old_doc, "paths"))
        n == AsDict(Get(new_doc, "paths"))
        Methods(paths, path) == AsDict(Get(paths, path))
        Of(path, method) ==
            LET p == <<"paths", path, method>>
            IN  IF method \notin DOMAIN Methods(n, path) THEN Emit(scope, p, "endpoint_removed", "BREAKING")
                ELSE IF method \notin DOMAIN Methods(o, path) THEN Emit(scope, p, "endpoint_added", "INFO")
                ELSE IF method = "parameters" THEN <<>>
                ELSE CompareOperation(scope, p, o[path][method], n[path][method])
    IN  InTurn([path \in DOMAIN o \cup DOMAIN n |->
            InTurn([method \in DOMAIN Methods(o, path) \cup DOMAIN Methods(n, path) |-> Of(path, method)])])
=============================================================================
