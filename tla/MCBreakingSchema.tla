-------------------------- MODULE MCBreakingSchema --------------------------
(***************************************************************************)
(* Model checking of the breaking-change gate: a request, a response and a *)
(* bare schema moved between any two of their variants, files that change  *)
(* their users, references that lead in circles, an endpoints document,    *)
(* and an allowlist grown over three runs.                                 *)
(***************************************************************************)
EXTENDS SchemaContract, TLC

MCKind(f) ==
    CASE f = "widget_request_schema" -> "request"
      [] f = "widget_response_schema" -> "response"
      [] f = "widgets_endpoints" -> "endpoints"
      [] OTHER -> "bare"
MCPatternNames(pat) == {"c"}
-----------------------------------------------------------------------------
(* Payloads *)

Payload(t, v, n, m, e) == [t |-> t, v |-> v, n |-> n, m |-> m, e |-> e]
None == [x \in {} |-> x]
Str(v, n) == Payload("string", v, n, None, <<>>)
Num(n) == Payload("number", "", n, None, <<>>)
Obj(m) == Payload("object", "", 0, m, <<>>)
Arr(e) == Payload("array", "", 0, None, e)

Values == {Str("x", 1), Str("y", 2), Num(1), Num(5)}
Objects ==
    {Obj(None)} \cup {Obj([a |-> v]) : v \in Values \cup {Arr(<<>>), Arr(<<Num(1)>>)}}
    \cup {Obj([b |-> Str("x", 1)]), Obj([c |-> Str("x", 1)])}
    \cup {Obj([a |-> v, b |-> w]) : v \in {Str("x", 1), Str("y", 2)}, w \in {Str("x", 1), Num(1)}}
    \cup {Obj([a |-> Str("x", 1), c |-> v]) : v \in {Str("x", 1), Num(1)}}
    \cup {Obj([a |-> Str("x", 1), next |-> Obj([a |-> v])]) : v \in {Str("y", 2), Num(1)}}
MCPayloads == Values \cup Objects
-----------------------------------------------------------------------------
(* Schemas *)

String == [type |-> {"string"}, maxLength |-> 2]
Number == [type |-> {"number"}, minimum |-> 1]
Ref(doc) == [ref |-> [doc |-> doc, def |-> ROOT]]
Local(def) == [ref |-> [doc |-> SAME, def |-> def]]
Object(properties, required) ==
    [type |-> {"object"}, properties |-> properties, required |-> required]

\* A schema and its neighbours, one keyword or two away from each other.
\* Introducing or dropping a whole enum is the subject of a run of its own,
\* and a widened branch of a oneOf is among the changes only a schema of
\* both uses reports.
Variants == <<
    Object([a |-> String], {"a"}),
    Object([a |-> [type |-> {"string"}, maxLength |-> 1]], {"a"}),
    Object([a |-> [type |-> {"string"}]], {"a"}),
    Object([a |-> [type |-> {"string", "number"}]], {"a"}),
    Object([a |-> Number], {"a"}),
    Object([a |-> [type |-> {"number"}, minimum |-> 2]], {"a"}),
    Object([a |-> [maxLength |-> 2]], {}),
    Object([a |-> String, b |-> String], {"a"}),
    Object([a |-> String, b |-> String], {"a", "b"}),
    Object([b |-> String], {"a"}),
    Object([a |-> String], {"a"}) @@ [additionalProperties |-> NOTHING],
    Object([a |-> String, b |-> String], {"a"}) @@ [additionalProperties |-> NOTHING],
    Object([a |-> String], {"a"}) @@ [additionalProperties |-> String],
    Object([a |-> String], {"a"}) @@ [additionalProperties |-> Number],
    Object([a |-> String], {"a"}) @@
        [additionalProperties |-> NOTHING, patternProperties |-> [c |-> String]],
    Object([a |-> String], {"a"}) @@
        [additionalProperties |-> NOTHING, patternProperties |-> [c |-> Number]],
    Object([a |-> [type |-> {"array"}]], {}),
    Object([a |-> [type |-> {"array"}, items |-> String]], {}),
    Object([a |-> [type |-> {"array"}, items |-> Number, maxItems |-> 1]], {}),
    [type |-> {"object"}, anyOf |-> <<Object([a |-> String], {"a"}), Object([a |-> Number], {"a"})>>],
    [type |-> {"object"}, anyOf |-> <<Object([a |-> String], {"a"}), Object([a |-> Number], {"a", "b"})>>],
    [type |-> {"object"}, anyOf |-> <<Object([a |-> String], {"a"})>>],
    [type |-> {"object"}, allOf |-> <<>>],
    [type |-> {"object"}, allOf |-> <<[maxProperties |-> 1]>>],
    [type |-> {"object"}],
    [type |-> {"object"}, maxProperties |-> 1]>>
EitherUse == <<
    Object([a |-> [enum |-> {"x"}]], {"a"}),
    Object([a |-> [enum |-> {"x", "y"}]], {"a"}),
    Object([a |-> [pattern |-> {"x"}]], {"a"}),
    Object([a |-> [pattern |-> {"x", "y"}]], {"a"}),
    Object([a |-> [enum |-> {"x"}, pattern |-> {"x"}]], {"a"}),
    [oneOf |-> <<Object([a |-> String], {"a"}), Object([b |-> String], {"b"})>>],
    [oneOf |-> <<Object([a |-> String], {"a"}), Object([a |-> Number], {"a"})>>],
    [oneOf |-> <<[type |-> {"object"}], Object([a |-> Number], {"a"})>>]>>

Content(schema) == [content |-> [json |-> [schema |-> schema]]]
Body(schema, required) == Content(schema) @@ [required |-> required]
Post(request, response) ==
    [paths |-> [w |-> [post |-> [requestBody |-> Body(request, TRUE),
                                 responses |-> [ok |-> Content(response)]]]]]
WidgetsApi == Post(Ref("widget_request_schema"), Ref("widget_response_schema"))

RequestFamily == [i \in DOMAIN Variants |->
    [widgets_endpoints |-> WidgetsApi, widget_request_schema |-> Variants[i],
     widget_response_schema |-> Variants[1]]]
ResponseFamily == [i \in DOMAIN Variants |->
    [widgets_endpoints |-> WidgetsApi, widget_request_schema |-> Variants[1],
     widget_response_schema |-> Variants[i]]]
BareFamily == [i \in DOMAIN (Variants \o EitherUse) |->
    [widget_schema |-> (Variants \o EitherUse)[i]]]

\* The response schema comes into a request, and the request schema behind a
\* bare one into a response, before, with or after a change of their own.
ApiWith(request, response) == Post(Ref(request), Ref(response))
RoleFamily ==
    LET Tree(api, inner, request, response) ==
            [widgets_endpoints |-> api, widget_schema |-> Object([a |-> String, next |-> inner], {"a"}),
             widget_request_schema |-> request, widget_response_schema |-> response]
        plain == WidgetsApi
        behind == ApiWith("widget_request_schema", "widget_schema")
        shared == ApiWith("widget_response_schema", "widget_response_schema")
        reqref == Ref("widget_request_schema")
    IN  << Tree(plain, String, Variants[1], Variants[1]),
           Tree(plain, reqref, Variants[2], Variants[1]),
           Tree(behind, reqref, Variants[1], Variants[1]),
           Tree(behind, reqref, Variants[4], Variants[1]),
           Tree(behind, String, Variants[1], Variants[2]),
           Tree(shared, String, Variants[1], Variants[1]),
           Tree(shared, String, Variants[3], Variants[2]),
           Tree(shared, reqref, Variants[2], Variants[3]) >>

\* References that return to their own file, dangle, or lead to another one,
\* and files that come and go.
ReferenceFamily ==
    LET Chain(a) == Object([a |-> a, next |-> Ref("node_schema")], {"a"})
    IN  << [node_schema |-> Chain(String)],
           [node_schema |-> Chain([type |-> {"string"}, maxLength |-> 1])],
           [node_schema |-> Chain(Local("label")) @@ [definitions |-> [label |-> String]]],
           [node_schema |-> Chain(Local("label")) @@ [definitions |-> [label |-> Number]]],
           [node_schema |-> Chain(Local("label"))],
           [node_schema |-> Chain(Ref("label_schema")), label_schema |-> String],
           [node_schema |-> Chain(Ref("label_schema")), label_schema |-> Number],
           [node_schema |-> Chain(Ref("label_schema"))],
           [label_schema |-> String] >>

Parameter(name, schema, required) == [name |-> name, schema |-> schema, required |-> required]
LocalDefinition(schema) == Local("d") @@ [definitions |-> [d |-> schema]]
EndpointsFamily ==
    LET Api(op) == [widgets_endpoints |-> [paths |-> [w |-> [get |-> op]]]]
        Get1(params, response) == [parameters |-> params, responses |-> [ok |-> Content(response)]]
        Send(params, body) == [parameters |-> params, requestBody |-> body, responses |-> [ok |-> Content(String)]]
        q == <<Parameter("q", String, FALSE)>>
    IN  << Api(Get1(q, String)),
           Api(Get1(<<Parameter("q", String, TRUE)>>, String)),
           Api(Get1(<<Parameter("q", Number, FALSE)>>, String)),
           Api(Get1(<<Parameter("q", Number, FALSE), Parameter("q", String, FALSE)>>, String)),
           Api(Get1(q \o <<Parameter("r", String, FALSE)>>, String)),
           Api(Get1(q \o <<Parameter("r", String, TRUE)>>, String)),
           Api(Get1(q, [type |-> {"string"}])),
           Api(Get1(q, LocalDefinition(String))),
           Api(Get1(q, LocalDefinition(Number))),
           Api(Send(q, Body(String, FALSE))),
           Api(Send(q, Body(String, TRUE))),
           Api(Send(q, Body(LocalDefinition(String), TRUE))),
           Api(Send(q, Body([type |-> {"string"}, maxLength |-> 1], TRUE))),
           Api(Send(q, [required |-> TRUE, content |-> [form |-> [schema |-> String]]])),
           Api([parameters |-> q, responses |-> [gone |-> Content(String)]]),
           Api([parameters |-> q, responses |-> [ok |-> Content(String), gone |-> Content(String)]]),
           [widgets_endpoints |-> [paths |-> [w |-> [post |-> Get1(q, String)]]]],
           [widgets_endpoints |-> [paths |-> [v |-> [get |-> Get1(q, String)]]]] >>

\* Few trees and several runs of the gate, for the allowlist.
AllowlistFamily ==
    LET Tree(request, response) ==
            [widgets_endpoints |-> WidgetsApi, widget_request_schema |-> request,
             widget_response_schema |-> response]
    IN  << Tree(Variants[3], Variants[1]), Tree(Variants[1], Variants[1]),
           Tree(Variants[2], Variants[3]), Tree(Variants[9], Variants[1]) >>

MCFamilies == <<RequestFamily, ResponseFamily, BareFamily, RoleFamily, ReferenceFamily,
                EndpointsFamily, AllowlistFamily>>
MCGateRuns == <<1, 1, 1, 1, 1, 1, 3>>

\* The references of the base branch resolve: the tests of the repository
\* load every schema.
MCBases(f) == IF f = 5 THEN {1, 2, 3, 4, 6, 7, 9} ELSE DOMAIN Families[f]

\* An entry of the historical form acknowledges what lies under a pointer.
MCHistorical(f) ==
    IF f # 7 THEN <<>>
    ELSE <<[file |-> "widget_response_schema", rule |-> "maxLength", version |-> "5.0.0",
            pointer_prefix |-> <<"properties", "a">>, reason |-> GoodReason]>>
-----------------------------------------------------------------------------
\* An enum that a request did not have.
EnumFamily ==
    LET Tree(a) == [widgets_endpoints |-> WidgetsApi, widget_response_schema |-> Variants[1],
                    widget_request_schema |-> Object([a |-> a], {"a"})]
    IN  <<Tree([type |-> {"string"}]), Tree([type |-> {"string"}, enum |-> {"x"}])>>
EnumFamilies == <<EnumFamily>>
EnumGateRuns == <<1>>
=============================================================================
