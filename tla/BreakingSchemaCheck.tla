------------------------ MODULE BreakingSchemaCheck ------------------------
(***************************************************************************)
(* scripts/breaking_schema_check.py as the gate of a branch: the roles of  *)
(* the schema files, the comparison of every changed file, the allowlist   *)
(* and the exit code, while the author of the branch revises the schemas   *)
(* and acknowledges findings between two runs of the gate.                 *)
(*                                                                         *)
(* A tree is a function from file names to documents. The branch moves     *)
(* through the trees of one family. An entry of the allowlist is a         *)
(* function of its keys; a SHA-256 fingerprint is what it is taken over.   *)
(***************************************************************************)
EXTENDS SchemaDiff

CONSTANTS Families,           \* sequences of trees a branch may hold
          Bases(_),           \* of a family: the trees the base branch may start from
          Kind(_),            \* of a file's name: "request", "response", "bare", "endpoints"
          Historical(_),      \* the allowlist entries of a family's base branch
          MIN_REASON_LENGTH,  \* _MIN_REASON_LENGTH
          GATE_RUNS           \* bound on the runs of the gate, for each family

VARIABLES family,     \* which family
          base, head, \* indexes of the tree of the base branch and of the branch
          allow,      \* the entries of breaking_schema_allowlist.json in the branch
          phase,      \* "editing", "roles", "compare", "judge", "failed", "passed"
          roles,      \* propagate_roles of either tree so far
          todo,       \* changed files still to be compared
          findings,   \* Report.findings
          acked,      \* Report.breaking_acked: pairs of a finding and an entry
          unacked,    \* Report.breaking_unacked
          printed,    \* findings the gate has printed for acknowledgement so far
          gate_runs
vars == <<family, base, head, allow, phase, roles, todo, findings, acked, unacked, printed, gate_runs>>

Trees == Families[family]
Old == Trees[base]
New == Trees[head]
Names == UNION {DOMAIN Trees[i] : i \in DOMAIN Trees}
-----------------------------------------------------------------------------
(* Roles *)

\* crawl_endpoint_roles' and build_ref_graph's walk: the files that node's
\* references name, each with the part of an operation it stands in. The
\* names of members are not keywords here.
NextContext(key, context) ==
    CASE key \in {"requestBody", "parameters"} -> "request"
      [] key = "responses" -> "response"
      [] OTHER -> context
Leaves == {"ref", "type", "enum", "pattern", "required", "name"} \cup MaxKeys \cup MinKeys
Lists == {"parameters", "oneOf", "anyOf", "allOf"}
RECURSIVE Walk(_, _)
Walk(node, context) ==
    IF ~IsObject(node) THEN {}
    ELSE (IF "ref" \in DOMAIN node /\ context # ABSENT
          THEN IF node.ref.doc = SAME THEN {} ELSE {<<node.ref.doc, context>>}
          ELSE {})
         \cup UNION {LET next == NextContext(key, context)
                     IN  IF key \in Lists /\ IsList(node[key])
                         THEN UNION {Walk(node[key][i], next) : i \in DOMAIN node[key]}
                         ELSE Walk(node[key], next) : key \in DOMAIN node \ Leaves}

CrawlEndpointRoles(tree) ==
    LET direct == UNION {Walk(AsDict(Get(AsDict(tree[f]), "paths")), ABSENT) :
                             f \in {g \in DOMAIN tree : Kind(g) = "endpoints"}}
    IN  [f \in Names |-> {role \in {"request", "response"} : <<f, role>> \in direct}]

RefGraph(tree, f) ==
    IF f \notin DOMAIN tree THEN {}
    ELSE IF Kind(f) = "endpoints" THEN {}
    ELSE {target[1] : target \in Walk(tree[f], "any")} \ {f}

RolesOfHead(f) == roles[2][f]

\* compare_trees merges the roles that the two trees give a file.
MergedRoles(f) == roles[1][f] \cup roles[2][f]

\* classify_file_role: the suffix of the name, unless the endpoints say
\* otherwise.
ClassifyFileRole(f) ==
    IF Kind(f) = "request" /\ "response" \notin MergedRoles(f) THEN "request"
    ELSE IF Kind(f) = "response" /\ "request" \notin MergedRoles(f) THEN "response"
    ELSE "conservative"
-----------------------------------------------------------------------------
(* The allowlist *)

Identity(f) == <<f.pointer, f.role, f.subject, f.old, f.new>>
\* _fingerprint_for_identity
Fingerprint(file, rule, identity) == <<file, rule, identity>>
FingerprintOf(f) == Fingerprint(f.file, f.rule, Identity(f))

\* reason_rejection: a reason is a sentence, not a placeholder.
ReasonRejected(reason) ==
    \/ reason = ABSENT
    \/ reason.placeholder
    \/ reason.length < MIN_REASON_LENGTH
    \/ ~reason.spaced
\* _entry_problems
HasProblems(e) == ReasonRejected(Get(e, "reason")) \/ Get(e, "version") = ABSENT

StoredPointerMatches(e, stored, f) == stored.complete /\ stored.identity[1] = f.pointer

\* _stored_identity_matches: exactly the keys of an identity, a fingerprint
\* of that identity under the entry's own file and rule, and the finding's.
StoredIdentityMatches(e, stored, f) ==
    /\ stored.complete
    /\ stored.fingerprint = Fingerprint(e.file, e.rule, stored.identity)
    /\ stored.fingerprint = FingerprintOf(f)
    /\ stored.identity = Identity(f)

\* _entry_matches_finding. An entry that only names pointers matches nothing,
\* one of the historical form every finding under its prefix.
\* The code compares prefixes as text; no name here begins another.
EntryMatches(e, f) ==
    /\ e.file = f.file
    /\ IF "findings" \in DOMAIN e
       THEN /\ Get(e, "rule") = f.rule
            /\ IsList(e.findings)
            /\ \E i \in DOMAIN e.findings : StoredIdentityMatches(e, e.findings[i], f)
       ELSE /\ "pointer" \notin DOMAIN e
            /\ Get(e, "rule") \in {ABSENT, f.rule}
            /\ IsPrefix(IF "pointer_prefix" \in DOMAIN e THEN e.pointer_prefix ELSE <<>>, f.pointer)

\* find_allow_entry: the first entry that matches and counts, or 0.
FindAllowEntry(f) ==
    LET Counting == {i \in DOMAIN allow : EntryMatches(allow[i], f) /\ ~HasProblems(allow[i])}
    IN  IF Counting = {} THEN 0 ELSE CHOOSE i \in Counting : \A j \in Counting : i <= j
-----------------------------------------------------------------------------
(* The gate *)

Init ==
    /\ family \in DOMAIN Families
    /\ base \in Bases(family) /\ head = base
    /\ allow = Historical(family)
    /\ phase = "editing"
    /\ roles = <<>> /\ todo = <<>> /\ findings = <<>>
    /\ acked = <<>> /\ unacked = <<>> /\ printed = <<>>
    /\ gate_runs = 0

\* The author leaves another tree in the branch.
Edit(h) ==
    /\ phase \in {"editing", "failed"}
    /\ gate_runs < GATE_RUNS[family]
    /\ h # head /\ h # base
    /\ head' = h
    /\ phase' = "editing"
    /\ acked' = <<>> /\ unacked' = <<>> /\ findings' = <<>>
    /\ UNCHANGED <<family, base, allow, roles, todo, printed, gate_runs>>

\* changed_schema_files: a rename is the removal of one file and the addition
\* of another.
Changed ==
    LET files == Listed({f \in DOMAIN Old \cup DOMAIN New : Get(Old, f) # Get(New, f)})
        Status(f) == IF f \notin DOMAIN Old THEN "A" ELSE IF f \notin DOMAIN New THEN "D" ELSE "M"
    IN  [i \in DOMAIN files |-> <<Status(files[i]), files[i]>>]

\* main loads the two trees and the allowlist; compare_trees starts.
StartGate ==
    /\ phase = "editing" /\ head # base
    /\ gate_runs < GATE_RUNS[family]
    /\ gate_runs' = gate_runs + 1
    /\ roles' = <<CrawlEndpointRoles(Old), CrawlEndpointRoles(New)>>
    /\ todo' = Changed
    /\ phase' = "roles"
    /\ UNCHANGED <<family, base, head, allow, findings, acked, unacked, printed>>

\* propagate_roles: one reference of the graph of one tree, in any order.
Propagates(side, f, t) == f # t /\ ~(roles[side][f] \subseteq roles[side][t])
PropagateRole(side, f, t) ==
    /\ phase = "roles"
    /\ t \in RefGraph(IF side = 1 THEN Old ELSE New, f)
    /\ Propagates(side, f, t)
    /\ roles' = [roles EXCEPT ![side][t] = @ \cup roles[side][f]]
    /\ UNCHANGED <<family, base, head, allow, phase, todo, findings, acked, unacked, printed, gate_runs>>

RolesSettled ==
    /\ phase = "roles"
    /\ \A f \in Names : /\ \A t \in RefGraph(Old, f) : ~Propagates(1, f, t)
                        /\ \A t \in RefGraph(New, f) : ~Propagates(2, f, t)
    /\ phase' = "compare"
    /\ UNCHANGED <<family, base, head, allow, roles, todo, findings, acked, unacked, printed, gate_runs>>

\* The findings of one changed file.
FileFindings(status, f) ==
    LET Of(role) == Scope(f, role, <<f>>, <<f>>, Registry(Old), Registry(New))
    IN  CASE status = "A" -> Emit(Of("n/a"), <<>>, "new_file", "INFO")
          [] status = "D" -> Emit(Of("n/a"), <<>>, "file_removed", "BREAKING")
          [] OTHER -> IF Old[f] = ABSENT \/ New[f] = ABSENT
                      THEN Emit(Of("n/a"), <<>>, "missing_side", "INFO")
                      ELSE IF Kind(f) = "endpoints"
                      THEN CompareEndpointsFile(Of("request"), Old[f], New[f])
                      ELSE CompareNode(Of(ClassifyFileRole(f)), Old[f], New[f], <<>>)

CompareFile ==
    /\ phase = "compare" /\ todo # <<>>
    /\ findings' = findings \o FileFindings(Head(todo)[1], Head(todo)[2])
    /\ todo' = Tail(todo)
    /\ UNCHANGED <<family, base, head, allow, phase, roles, acked, unacked, printed, gate_runs>>

\* The rest of compare_trees, print_report and the exit code.
Judge ==
    /\ phase = "compare" /\ todo = <<>>
    /\ LET Breaking(f) == f.severity = "BREAKING"
           breaking == SelectSeq(findings, Breaking)
           Acked(f) == FindAllowEntry(f) # 0
           Unacked(f) == ~Acked(f)
           covered == SelectSeq(breaking, Acked)
       IN  /\ acked' = [i \in DOMAIN covered |-> <<covered[i], allow[FindAllowEntry(covered[i])]>>]
           /\ unacked' = SelectSeq(breaking, Unacked)
           /\ phase' = IF unacked' = <<>> THEN "passed" ELSE "failed"
           /\ printed' = printed \o unacked'
    /\ roles' = <<>>
    /\ UNCHANGED <<family, base, head, allow, todo, findings, gate_runs>>

\* _print_allowlist_suggestions: an entry for each file and rule, with the
\* identity and the fingerprint of each of its findings.
Groups == {<<unacked[i].file, unacked[i].rule>> : i \in DOMAIN unacked}
Suggestion(group) ==
    LET InGroup(f) == <<f.file, f.rule>> = group
        own == SelectSeq(unacked, InGroup)
    IN  [file |-> group[1], rule |-> group[2],
         findings |-> [i \in DOMAIN own |->
             [identity |-> Identity(own[i]), fingerprint |-> FingerprintOf(own[i]), complete |-> TRUE]]]

Reason(length, spaced, placeholder) ==
    [length |-> length, spaced |-> spaced, placeholder |-> placeholder]
GoodReason == Reason(MIN_REASON_LENGTH, TRUE, FALSE)

With(e, key, value) == [k \in DOMAIN e \cup {key} |-> IF k = key THEN value ELSE e[k]]
Without(e, key) == [k \in DOMAIN e \ {key} |-> e[k]]
Answered(e) == With(With(e, "reason", GoodReason), "version", "5.6.0")
EditStored(e, key, value) ==
    With(e, "findings", [i \in DOMAIN e.findings |-> [e.findings[i] EXCEPT ![key] = value]])

\* What an author makes of a suggestion.
Ways == {"as_printed", "no_reason", "placeholder", "short", "one_word", "no_version",
         "pointer_only", "key_dropped", "pointer_moved", "rule_dropped"}
Entry(way, group) ==
    LET e == Answered(Suggestion(group))
    IN  CASE way = "as_printed" -> e
          [] way = "no_reason" -> Without(e, "reason")
          [] way = "placeholder" -> With(e, "reason", Reason(MIN_REASON_LENGTH, TRUE, TRUE))
          [] way = "short" -> With(e, "reason", Reason(MIN_REASON_LENGTH - 1, TRUE, FALSE))
          [] way = "one_word" -> With(e, "reason", Reason(MIN_REASON_LENGTH, FALSE, FALSE))
          [] way = "no_version" -> Without(e, "version")
          [] way = "pointer_only" -> With(Without(e, "findings"), "pointer", e.findings[1].identity[1])
          [] way = "key_dropped" -> EditStored(e, "complete", FALSE)
          [] way = "pointer_moved" ->
                 EditStored(e, "identity", [e.findings[1].identity EXCEPT ![1] = Append(@, "moved")])
          [] way = "rule_dropped" -> Without(e, "rule")

\* The author adds an entry for every group the gate has printed.
Acknowledge(way) ==
    /\ phase = "failed"
    /\ gate_runs < GATE_RUNS[family]
    /\ LET groups == Listed(Groups)
       IN  allow' = allow \o [i \in DOMAIN groups |-> Entry(way, groups[i])]
    /\ phase' = "editing"
    /\ acked' = <<>> /\ unacked' = <<>> /\ findings' = <<>>
    /\ UNCHANGED <<family, base, head, roles, todo, printed, gate_runs>>

\* The branch is merged; the next one starts from it.
Land ==
    /\ phase = "passed"
    /\ gate_runs < GATE_RUNS[family]
    /\ base' = head
    /\ phase' = "editing"
    /\ acked' = <<>> /\ unacked' = <<>> /\ findings' = <<>>
    /\ UNCHANGED <<family, head, allow, roles, todo, printed, gate_runs>>

Next ==
    \/ \E h \in DOMAIN Trees : Edit(h)
    \/ StartGate
    \/ \E side \in 1..2, f, t \in Names : PropagateRole(side, f, t)
    \/ RolesSettled
    \/ CompareFile
    \/ Judge
    \/ \E way \in Ways : Acknowledge(way)
    \/ Land
Spec == Init /\ [][Next]_vars
=============================================================================
