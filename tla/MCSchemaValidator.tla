------------------------- MODULE MCSchemaValidator -------------------------
(***************************************************************************)
(* A contract with what the packaged ones have: a route next to a template *)
(* that matches it, overlapping templates without a body, a schema found   *)
(* by its suffixed name, a route declared by two catalogs, a schema file   *)
(* that cannot be read, an inline body with an $id of its own. References  *)
(* go to a file of the same and of the parent directory, to a definition   *)
(* and to one of another file; some are dangling, in the declared schema,  *)
(* behind another one, or on one of the payloads only.                     *)
(***************************************************************************)
EXTENDS SchemaValidator

\* An instance is as good or as bad as the payload it is part of.
Schema(id, pointers, refs, accepts) ==
    [id |-> id, pointers |-> {""} \cup pointers, refs |-> refs, accepts |-> accepts]
At(at, on, up, down, name, pointer) ==
    [at |-> at, on |-> on, up |-> up, down |-> down, name |-> name, pointer |-> pointer, part |-> on]
Beside(name, pointer, on) == At("", on, 0, <<>>, name, pointer)
Op(method, path, body) == [method |-> method, path |-> path, body |-> body]
Ref(name) == [kind |-> "ref", name |-> name]
Inline(schema) == [kind |-> "inline", schema |-> schema]

File(name, readable, schema) == [name |-> name, readable |-> readable, schema |-> schema]
MCFiles ==
    {File("item_schema", TRUE,
          Schema(<<<<"items">>, "item">>, {}, {Beside("common", "name", "good")}, {"good"})),
     \* on a bad payload, a definition that is not there; on a good one, the parent's
     File("common", TRUE,
          Schema(<<<<"items">>, "common">>, {"name"},
                 {At("name", "good", 1, <<>>, "shared", "text"), Beside(ABSENT, "name", "good"),
                  At("name", "bad", 0, <<>>, ABSENT, "gone")}, {"good", "bad"})),
     File("shared", TRUE, Schema(<<<<>>, "shared">>, {"text"}, {}, {"good", "bad"})),
     \* an $id that is not absolute: its references start at the root
     File("meta", TRUE, Schema(ABSENT, {}, {Beside("shared", "", "good")}, {"good"})),
     File("lost", FALSE, Schema(<<<<"items">>, "lost">>, {}, {}, {"good"}))}
MCRoot ==
    [readable |-> TRUE, dir |-> <<>>,
     operations |-> <<Op("POST", <<"items", "{id}">>, Ref("item")),
                      Op("POST", <<"items", "search">>, Inline(Schema(ABSENT, {}, {}, {"bad"}))),
                      Op("POST", <<"lost">>, Ref("lost")), Op("POST", <<"meta">>, Ref("meta"))>>]
MCModules ==
    <<[dir |-> <<"items">>,
       operations |-> <<Op("POST", <<"orders">>,
                           Inline(Schema(ABSENT, {}, {Beside("common", "name", p) : p \in {"good", "bad"}},
                                         {"good"}))),
                        Op("GET", <<"{a}", "list">>, ABSENT), Op("GET", <<"runs", "{b}">>, ABSENT)>>],
      [dir |-> <<"other">>,
       operations |-> <<Op("POST", <<"orders">>, Ref("common")),
                        Op("POST", <<"audits">>, Inline(Schema(ABSENT, {}, {Beside("common", "", "good")}, {}))),
                        \* a changed copy of a packaged schema
                        Op("POST", <<"copies">>, Inline(Schema(<<<<"items">>, "common">>, {},
                                                               {Beside("item", "", "good")}, {"bad"})))>>]>>
MCRequests ==
    {[method |-> "POST", path |-> p, data |-> d] :
        p \in {<<"items", "search">>, <<"items", "7">>, <<"items", "">>, <<"lost">>, <<"orders">>,
               <<"audits">>, <<"copies">>, <<"meta">>, <<"nowhere">>}, d \in {"good", "bad"}}
    \cup {[method |-> "GET", path |-> <<"runs", "list">>, data |-> "good"]}
MCSuffixed(name) == IF name = "item" THEN "item_schema" ELSE "no_such_schema"
=============================================================================
