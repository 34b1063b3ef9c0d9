--------------------------- MODULE SchemaContract ---------------------------
(***************************************************************************)
(* What the gate of BreakingSchemaCheck is for: the payloads that the old  *)
(* and the new schemas accept, and what a merged change may do to those    *)
(* who send and receive them.                                              *)
(*                                                                         *)
(* A payload is a record of its type t, a string's value v, a number's     *)
(* value or a string's length n, an object's members m and an array's      *)
(* elements e. A pattern is the set of strings, or of member names, that   *)
(* it matches.                                                             *)
(***************************************************************************)
EXTENDS BreakingSchemaCheck

CONSTANTS Payloads,        \* payloads of the schema files and of the endpoints
          PatternNames(_)  \* the member names that a key of patternProperties matches

Declared(s) == DOMAIN AsDict(Get(s, "properties"))
PatternsFor(s, name) ==
    {pat \in DOMAIN AsDict(Get(s, "patternProperties")) : name \in PatternNames(pat)}

\* The keywords of a schema that constrain the value alone.
WithinBounds(p, s) ==
    LET Size(kw) == CASE kw \in {"maxLength", "minLength", "maximum", "minimum"} -> p.n
                      [] kw \in {"maxItems", "minItems"} -> Len(p.e)
                      [] OTHER -> Cardinality(DOMAIN p.m)
        AppliesTo(kw) == CASE kw \in {"maxLength", "minLength"} -> p.t = "string"
                           [] kw \in {"maximum", "minimum"} -> p.t = "number"
                           [] kw \in {"maxItems", "minItems"} -> p.t = "array"
                           [] OTHER -> p.t = "object"
    IN  /\ \A kw \in DOMAIN s \cap MaxKeys : AppliesTo(kw) => Size(kw) <= s[kw]
        /\ \A kw \in DOMAIN s \cap MinKeys : AppliesTo(kw) => Size(kw) >= s[kw]

\* JSON Schema validity.
RECURSIVE Valid(_, _, _, _)
Valid(p, node, start, registry) ==
    LET r == Deref(node, start, registry, {}, 0)
        s == r.node
        Sub(q, sub) == Valid(q, sub, r.base, registry)
        ap == Get(s, "additionalProperties")
    IN  IF r.end # "found" THEN FALSE
        ELSE IF ~IsObject(s) THEN s # NOTHING
        ELSE /\ "type" \in DOMAIN s => p.t \in s.type
             /\ "enum" \in DOMAIN s => p.t = "string" /\ p.v \in s.enum
             /\ "pattern" \in DOMAIN s /\ p.t = "string" => p.v \in s.pattern
             /\ WithinBounds(p, s)
             /\ p.t = "object" =>
                   /\ OrEmpty(Get(s, "required")) \subseteq DOMAIN p.m
                   /\ \A name \in DOMAIN p.m :
                         /\ name \in Declared(s) => Sub(p.m[name], s.properties[name])
                         /\ \A pat \in PatternsFor(s, name) : Sub(p.m[name], s.patternProperties[pat])
                         /\ name \in Declared(s) \/ PatternsFor(s, name) # {} \/ ap = ABSENT
                               \/ Sub(p.m[name], ap)
             /\ p.t = "array" /\ IsObject(Get(s, "items")) =>
                   \A i \in DOMAIN p.e : Sub(p.e[i], s.items)
             /\ "allOf" \in DOMAIN s => \A i \in DOMAIN s.allOf : Sub(p, s.allOf[i])
             /\ "anyOf" \in DOMAIN s => \E i \in DOMAIN s.anyOf : Sub(p, s.anyOf[i])
             /\ "oneOf" \in DOMAIN s => Cardinality({i \in DOMAIN s.oneOf : Sub(p, s.oneOf[i])}) = 1

\* A schema where it stands: with the document its references start from.
Placed(node, start, registry) == [node |-> node, base |-> start, reg |-> registry]
Follow(s) == Deref(s.node, s.base, s.reg, {}, 0)

\* What the gate lets an object gain or lose without a word: a member that
\* the new schema names and the old one, being open, did not, or the other
\* way round. A map of a value schema counts as open to a sender when a
\* member is added and to a reader when one is removed.
OpenTo(s, direction, side) == ClosednessRank(s) = 0 \/ (ClosednessRank(s) = 1 /\ direction = side)
Unannounced(name, o, n, direction) ==
    \/ /\ name \in Declared(n) \ Declared(o) \/ PatternsFor(n, name) \ PatternsFor(o, name) # {}
       /\ OpenTo(o, direction, "request")
    \/ name \in Declared(o) \ Declared(n) /\ OpenTo(n, direction, "response")
    \/ /\ PatternsFor(o, name) \ PatternsFor(n, name) # {}
       /\ ClosednessRank(n) = 1 /\ direction = "response"

\* A payload is familiar when it carries no such member.
RECURSIVE Familiar(_, _, _, _)
Familiar(p, old, new, direction) ==
    LET o == Follow(old)
        n == Follow(new)
        Sub(q, a, b) == Familiar(q, Placed(a, o.base, old.reg), Placed(b, n.base, new.reg), direction)
        Both(k) == IsObject(Get(o.node, k)) /\ IsObject(Get(n.node, k))
    IN  IF ~IsObject(o.node) \/ ~IsObject(n.node) \/ o.end # "found" \/ n.end # "found" THEN TRUE
        ELSE /\ \A name \in DOMAIN p.m :
                   /\ ~Unannounced(name, o.node, n.node, direction)
                   /\ name \in Declared(o.node) \cap Declared(n.node) =>
                         Sub(p.m[name], o.node.properties[name], n.node.properties[name])
                   /\ Both("additionalProperties") =>
                         Sub(p.m[name], o.node.additionalProperties, n.node.additionalProperties)
             /\ Both("items") => \A i \in DOMAIN p.e : Sub(p.e[i], o.node.items, n.node.items)
             /\ \A c \in {"allOf", "anyOf", "oneOf"} :
                   Both(c) => \A i \in DOMAIN o.node[c] \cap DOMAIN n.node[c] :
                                 Sub(p, o.node[c][i], n.node[c][i])

\* Someone who sends the payloads of the old schema can be refused, someone
\* who reads those of the new one can meet what the old one ruled out.
Breaks(direction, old, new) ==
    \E p \in Payloads :
        /\ Familiar(p, old, new, direction)
        /\ LET was == Valid(p, old.node, old.base, old.reg)
               is == Valid(p, new.node, new.base, new.reg)
           IN  IF direction = "request" THEN was /\ ~is ELSE is /\ ~was
-----------------------------------------------------------------------------
(* Who uses a file *)

\* The files that references lead to from those of S, whatever the order.
RECURSIVE Reach(_, _)
Reach(tree, S) ==
    LET T == S \cup UNION {RefGraph(tree, f) : f \in S}
    IN  IF T = S THEN S ELSE Reach(tree, T)
UsedIn(tree, direction) ==
    Reach(tree, {f \in Names : direction \in CrawlEndpointRoles(tree)[f]})

\* Requests and responses that carry a file's schema; of a file that no
\* endpoint uses, what its name says.
Directions(f) ==
    LET used == {d \in {"request", "response"} : f \in UsedIn(Old, d) \cup UsedIn(New, d)}
    IN  IF used # {} THEN used
        ELSE IF Kind(f) \in {"request", "response"} THEN {Kind(f)} ELSE {"request", "response"}

\* A caller of an operation, and a reader of its answers, after the change.
\* A fragment with definitions of its own is the document of its references.
InFile(node, file, tree) == Placed(node, <<file>>, Registry(tree))
InMedia(content, media, file, tree) ==
    LET local == Localize(<<file>>, Registry(tree), <<media>>, content[media].schema)
    IN  Placed(content[media].schema, local.base, local.reg)
MediaBreak(direction, oc, nc, file) ==
    \/ DOMAIN oc \ DOMAIN nc # {}
    \/ \E media \in DOMAIN oc \cap DOMAIN nc :
          Breaks(direction, InMedia(oc, media, file, Old), InMedia(nc, media, file, New))
CallerBreaks(file, old, new) ==
    LET o == NamedParameters(old)
        n == NamedParameters(new)
        ob == Get(old, "requestBody")
        nb == Get(new, "requestBody")
    IN  \/ \E name \in DOMAIN n : IsRequired(n[name]) /\ ~IsRequired(AsDict(Get(o, name)))
        \/ \E name \in DOMAIN o \cap DOMAIN n :
              Breaks("request", InFile(o[name].schema, file, Old), InFile(n[name].schema, file, New))
        \/ IsObject(nb) /\ IsRequired(nb) /\ ~IsRequired(AsDict(ob))
        \/ IsObject(ob) /\ IsObject(nb) /\ MediaBreak("request", ob.content, nb.content, file)
ReaderBreaks(file, old, new) ==
    \/ DOMAIN old.responses \ DOMAIN new.responses # {}
    \/ \E status \in DOMAIN old.responses \cap DOMAIN new.responses :
          MediaBreak("response", AsDict(Get(old.responses[status], "content")),
                     AsDict(Get(new.responses[status], "content")), file)
EndpointsBreak(file) ==
    \E path \in DOMAIN Old[file].paths :
        \E method \in DOMAIN Old[file].paths[path] \ {"parameters"} :
            LET n == Get(AsDict(Get(New[file].paths, path)), method)
                o == Old[file].paths[path][method]
            IN  n = ABSENT \/ CallerBreaks(file, o, n) \/ ReaderBreaks(file, o, n)

Broken(f) ==
    IF f \notin DOMAIN New THEN TRUE
    ELSE IF Kind(f) = "endpoints" THEN EndpointsBreak(f)
    ELSE \E d \in Directions(f) : Breaks(d, InFile(Old[f], f, Old), InFile(New[f], f, New))
-----------------------------------------------------------------------------
\* The files that make up what f says.
Sources(tree, f) ==
    IF f \notin DOMAIN tree THEN {f}
    ELSE Reach(tree, {f} \cup {target[1] : target \in Walk(tree[f], "any")})

\* What the policy of the gate says, "you may not break it silently": when
\* the gate passes, a file whose change can get a familiar payload refused,
\* or let a reader meet one it was told would not come, has been
\* acknowledged, or a file that its references lead to has, by an entry with
\* a real reason and a version. The role of each file, the direction of each
\* rule and the matching of entries together decide it.
NoSilentBreak ==
    phase = "passed" =>
        \A f \in DOMAIN Old : Broken(f) =>
            \E i \in DOMAIN acked :
                /\ acked[i][1].file \in Sources(Old, f) \cup Sources(New, f)
                /\ ~ReasonRejected(Get(acked[i][2], "reason"))
                /\ Get(acked[i][2], "version") # ABSENT

\* An entry that lists findings lets through only a finding that the gate
\* has printed, in that file, at that place, with that old and new value,
\* for someone to look at: neither a later change at the same place nor an
\* edited entry is covered by it.
AcknowledgedWasPrinted ==
    \A i \in DOMAIN acked : "findings" \in DOMAIN acked[i][2] =>
        \E j \in DOMAIN printed : FingerprintOf(printed[j]) = FingerprintOf(acked[i][1])

\* What the docstring of _keyword_finding says of a request schema: a change
\* after which a previously valid submission is rejected is reported as
\* BREAKING.
RejectedSubmissionIsBreaking ==
    phase \in {"passed", "failed"} =>
        \A f \in DOMAIN Old \cap DOMAIN New :
            /\ Kind(f) = "request"
            /\ Breaks("request", InFile(Old[f], f, Old), InFile(New[f], f, New))
            => \E i \in DOMAIN findings : findings[i].file = f /\ findings[i].severity = "BREAKING"
=============================================================================
