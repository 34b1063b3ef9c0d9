------------------------- MODULE DeclaredInvariants -------------------------
(***************************************************************************)
(* invariants.validate_declared_invariants: the relations a schema         *)
(* declares in x-traigent-invariants are evaluated on a payload one after  *)
(* another. A relation resolves its pointers and compares two subtrees:    *)
(* _exact_structural_equal validates the left one, then the right one,     *)
(* then compares them, each with an explicit stack (top first). One step   *)
(* is one iteration of a loop.                                             *)
(***************************************************************************)
EXTENDS JsonHeap, SequencesExt

CONSTANTS MAX_COMPARISON_DEPTH, MAX_COMPARISON_NODES,
          Cases,     \* the [heap, root, declarations] evaluated
          NameRank,  \* the rank a string's text has as a member name
          MISSING    \* the _MISSING sentinel

ASSUME ComparisonAssumption ==
    MAX_COMPARISON_DEPTH \in Nat \ {0} /\ MAX_COMPARISON_NODES \in Nat \ {0}

VARIABLES heap, root,
          declarations,   \* the schema's declarations, in order
          current,        \* the index of the one being evaluated
          stage,          \* "declarations", "relation", "left", "right", "compare", "done"
          left, right,    \* the subtrees compared
          work, open_ids, \* _prevalidate_canonical's stack and open-path set
          remaining,      \* its node budget
          pairs,          \* _compare_validated's stack
          held,           \* for each evaluated declaration, whether it held
          outcome         \* "none", "returned" or the exception raised

compared == <<left, right>>
walk == <<work, open_ids, remaining>>
vars == <<heap, root, declarations, current, stage, compared, walk, pairs, held, outcome>>

Visit(n, d) == [tag |-> "VALIDATE", node |-> n, depth |-> d]
Leave(n) == [tag |-> "LEAVE", node |-> n]

\* type(value): the exact type, whatever fp2 would say of the value.
ExactType(o) ==
    CASE o.type = "unsafe_int" -> "int"
      [] o.type \in {"unsafe_float", "nonfinite"} -> "float"
      [] o.type = "lone_str" -> "str"
      [] OTHER -> o.type

\* _pointer_step, _object_member and _array_item. A segment is the rank it
\* has as a member name and the index it stands for (MISSING when it is not
\* a canonical array index). Keys that are not exact strings are skipped.
PointerStep(n, seg) ==
    IF n = MISSING THEN MISSING
    ELSE LET o == heap[n]
             named == {i \in DOMAIN o.keys : o.keys[i].type # "other" /\ o.keys[i].rank = seg.rank}
         IN  CASE o.type = "dict" /\ named # {} -> o.kids[CHOOSE i \in named : TRUE]
               [] o.type = "list" /\ seg.index # MISSING /\ seg.index < Len(o.kids) ->
                     o.kids[seg.index + 1]
               [] OTHER -> MISSING

\* _resolve_pointer: a pointer is its sequence of segments.
ResolvePointer(pointer) == FoldLeft(PointerStep, root, pointer)

\* The two subtrees a declaration compares, MISSING where one is absent, and
\* whether it asserts anything of this payload.
LeftOf(d) ==
    IF d.relation # "selector_lookup_equals_literal" THEN ResolvePointer(d.left_pointer)
    ELSE LET selector == ResolvePointer(d.selector_pointer)
             map == ResolvePointer(d.map_pointer)
         IN  IF \/ selector = MISSING \/ map = MISSING
                \/ ExactType(heap[selector]) # "str" \/ heap[map].type # "dict"
             THEN MISSING
             ELSE PointerStep(map, [rank |-> NameRank[heap[selector].val], index |-> MISSING])

RightOf(d) ==
    IF d.relation = "selector_lookup_equals_literal" THEN d.literal
    ELSE ResolvePointer(d.right_pointer)

Asserts(d) ==
    d.relation = "condition_implies_unequal" =>
        LET c == ResolvePointer(d.condition_pointer)
        IN  c # MISSING /\ heap[c].type = "bool" /\ heap[c].val = "true"

\* Whether the relation holds once its subtrees compared equal or not.
Satisfied(d, equal) == IF d.relation = "condition_implies_unequal" THEN ~equal ELSE equal
-----------------------------------------------------------------------------
Init ==
    /\ \E c \in Cases : /\ heap = c.heap /\ root = c.root /\ declarations = c.declarations
    /\ current = 1
    /\ stage = "declarations"
    /\ left = MISSING /\ right = MISSING
    /\ work = <<>> /\ open_ids = {} /\ remaining = 0
    /\ pairs = <<>>
    /\ held = <<>>
    /\ outcome = "none"

Raise(error) == outcome' = error /\ stage' = "done"

\* _declarations: none declared, or one that does not match a relation's
\* closed shape, fails the whole call before any relation is evaluated.
CheckDeclarations ==
    /\ stage = "declarations"
    /\ IF declarations = <<>> \/ \E i \in DOMAIN declarations : declarations[i].relation = "malformed"
       THEN Raise("DeclarationError")
       ELSE stage' = "relation" /\ UNCHANGED outcome
    /\ UNCHANGED <<heap, root, declarations, current, compared, walk, pairs, held>>

\* Starts _prevalidate_canonical on a subtree.
Prevalidate(n) ==
    work' = <<Visit(n, 1)>> /\ open_ids' = {} /\ remaining' = MAX_COMPARISON_NODES - 1

Conclude(holds) ==
    /\ held' = Append(held, holds)
    /\ current' = current + 1
    /\ stage' = "relation"

\* The relation's pointers are resolved; nothing is compared when it asserts
\* nothing or when a subtree is absent.
StartRelation ==
    /\ stage = "relation" /\ current <= Len(declarations)
    /\ LET d == declarations[current]
       IN  IF ~Asserts(d) THEN Conclude(TRUE) /\ UNCHANGED <<compared, walk>>
           ELSE IF LeftOf(d) = MISSING \/ RightOf(d) = MISSING
           THEN Conclude(FALSE) /\ UNCHANGED <<compared, walk>>
           ELSE /\ left' = LeftOf(d) /\ right' = RightOf(d)
                /\ Prevalidate(left')
                /\ stage' = "left"
                /\ UNCHANGED <<current, held>>
    /\ UNCHANGED <<heap, root, declarations, pairs, outcome>>

ReturnViolations ==
    /\ stage = "relation" /\ current > Len(declarations)
    /\ outcome' = "returned" /\ stage' = "done"
    /\ UNCHANGED <<heap, root, declarations, current, compared, walk, pairs, held>>

Walking(tag) == stage \in {"left", "right"} /\ work # <<>> /\ Head(work).tag = tag

ValidateLeaveKeeps ==
    /\ Walking("LEAVE")
    /\ work' = Tail(work)
    /\ UNCHANGED <<heap, root, declarations, current, stage, compared, open_ids, remaining,
                   pairs, held, outcome>>

ValidateLeavePeeks ==
    /\ Walking("LEAVE")
    /\ open_ids' = open_ids \ {Head(work).node}
    /\ UNCHANGED <<heap, root, declarations, current, stage, compared, work, remaining,
                   pairs, held, outcome>>

ValidateLeave ==
    /\ Walking("LEAVE")
    /\ open_ids' = open_ids \ {Head(work).node}
    /\ work' = Tail(work)
    /\ UNCHANGED <<heap, root, declarations, current, stage, compared, remaining, pairs, held, outcome>>

\* _is_canonical_scalar.
ValidateScalar ==
    /\ Walking("VALIDATE")
    /\ LET o == heap[Head(work).node]
       IN  /\ ~IsContainer(o)
           /\ IF o.type \in {"nonfinite", "other"} THEN Raise("NoncanonicalError")
              ELSE UNCHANGED <<stage, outcome>>
    /\ work' = Tail(work)
    /\ UNCHANGED <<heap, root, declarations, current, compared, open_ids, remaining, pairs, held>>

\* _reserve_container's refusals, then those of _push_canonical_children.
ReserveError(o, n, d) ==
    IF d > MAX_COMPARISON_DEPTH \/ n \in open_ids \/ Len(o.kids) > remaining THEN "BoundError"
    ELSE IF \E i \in DOMAIN o.keys : o.keys[i].type = "other" THEN "NoncanonicalError"
    ELSE "none"

\* The children on the stack, last one on top, above the container's LEAVE.
CanonicalChildren(o, n, d) ==
    [i \in 1..Len(o.kids) |-> Visit(o.kids[Len(o.kids) + 1 - i], d + 1)] \o <<Leave(n)>>

ValidateContainerChargedOnVisit ==
    /\ Walking("VALIDATE")
    /\ LET n == Head(work).node
           d == Head(work).depth
           o == heap[n]
       IN  /\ IsContainer(o)
           /\ IF d > MAX_COMPARISON_DEPTH \/ n \in open_ids \/ remaining = 0
              THEN Raise("BoundError") /\ work' = Tail(work) /\ UNCHANGED <<open_ids, remaining>>
              ELSE /\ open_ids' = open_ids \cup {n}
                   /\ remaining' = remaining - 1
                   /\ work' = CanonicalChildren(o, n, d) \o Tail(work)
                   /\ UNCHANGED <<stage, outcome>>
    /\ UNCHANGED <<heap, root, declarations, current, compared, pairs, held>>

ValidateContainer ==
    /\ Walking("VALIDATE")
    /\ LET n == Head(work).node
           d == Head(work).depth
           o == heap[n]
       IN  /\ IsContainer(o)
           /\ IF ReserveError(o, n, d) = "none"
              THEN /\ open_ids' = open_ids \cup {n}
                   /\ remaining' = remaining - Len(o.kids)
                   /\ work' = CanonicalChildren(o, n, d) \o Tail(work)
                   /\ UNCHANGED <<stage, outcome>>
              ELSE /\ Raise(ReserveError(o, n, d))
                   /\ work' = Tail(work)
                   /\ UNCHANGED <<open_ids, remaining>>
    /\ UNCHANGED <<heap, root, declarations, current, compared, pairs, held>>

ValidateLeftOnly ==
    /\ stage = "left" /\ work = <<>>
    /\ stage' = "compare" /\ pairs' = <<compared>>
    /\ UNCHANGED <<heap, root, declarations, current, compared, walk, held, outcome>>

\* Both sides are walked to their end before anything is compared.
ValidateDone ==
    /\ stage \in {"left", "right"} /\ work = <<>>
    /\ IF stage = "left"
       THEN stage' = "right" /\ Prevalidate(right) /\ UNCHANGED pairs
       ELSE stage' = "compare" /\ pairs' = <<compared>> /\ UNCHANGED walk
    /\ UNCHANGED <<heap, root, declarations, current, compared, held, outcome>>

CounterpartByPosition(a, b, i) == i

\* The member of b that a's i-th member is paired with.
Counterpart(a, b, i) ==
    IF a.type = "list" THEN i ELSE CHOOSE j \in DOMAIN b.keys : b.keys[j].rank = a.keys[i].rank

\* _compare_validated and _expand_validated_pair: whether two nodes differ
\* by themselves, and the pairs of their children, last one on top.
Mismatch(a, b) ==
    \/ ExactType(a) # ExactType(b)
    \/ a.type = "list" /\ Len(a.kids) # Len(b.kids)
    \/ a.type = "dict" /\ {a.keys[i].rank : i \in DOMAIN a.keys} # {b.keys[i].rank : i \in DOMAIN b.keys}
    \/ ~IsContainer(a) /\ a.val # b.val

ChildPairs(a, b) ==
    LET k == Len(a.kids)
    IN  [i \in 1..k |-> <<a.kids[k + 1 - i], b.kids[Counterpart(a, b, k + 1 - i)]>>]

Compare ==
    /\ stage = "compare"
    /\ LET d == declarations[current]
           a == heap[Head(pairs)[1]]
           b == heap[Head(pairs)[2]]
       IN  IF pairs = <<>> THEN Conclude(Satisfied(d, TRUE)) /\ UNCHANGED pairs
           ELSE IF Mismatch(a, b) THEN Conclude(Satisfied(d, FALSE)) /\ pairs' = <<>>
           ELSE pairs' = ChildPairs(a, b) \o Tail(pairs) /\ UNCHANGED <<held, current, stage>>
    /\ UNCHANGED <<heap, root, declarations, compared, walk, outcome>>

Next == \/ CheckDeclarations \/ StartRelation \/ ReturnViolations
        \/ ValidateLeave \/ ValidateScalar \/ ValidateContainer \/ ValidateDone
        \/ Compare

Spec == Init /\ [][Next]_vars /\ WF_vars(Next)
-----------------------------------------------------------------------------
\* The node budget of _prevalidate_canonical bounds the stack it is there to
\* bound: however wide or shared the subtree, no more nodes wait than the
\* limit, and _compare_validated, which has no bound of its own, never holds
\* more pairs than that either.
StacksBounded ==
    /\ Len(SelectSeq(work, LAMBDA e : e.tag = "VALIDATE")) <= MAX_COMPARISON_NODES
    /\ Len(pairs) <= MAX_COMPARISON_NODES
=============================================================================
