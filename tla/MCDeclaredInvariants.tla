------------------------ MODULE MCDeclaredInvariants ------------------------
(***************************************************************************)
(* Model checking of DeclaredInvariants: node 1 is the payload, an object  *)
(* with members 2 (left), 3 (right) and 4 (condition or selector); 5 is a  *)
(* leaf that 2 and 3 may share, 6 a literal of the schema.                 *)
(***************************************************************************)
EXTENDS DeclaredInvariants, SmallGraphs

Val(t, v) == [type |-> t, val |-> v, kids |-> <<>>, keys |-> <<>>]

RootDict(keytype) ==
    Dict(<<Key(keytype, 1), Key("str", 2), Key("str", 3)>>, <<2, 3, 4>>)

TwoKeys(a, b) == {Dict(<<Key("str", 1), Key("str", 2)>>, <<a, b>>),
                  Dict(<<Key("str", 2), Key("str", 1)>>, <<a, b>>)}

LeftTrees ==
    {List(ks) : ks \in {<<>>, <<5>>, <<2>>, <<5, 5>>, <<4, 5>>, <<3>>, <<3, 3>>, <<5, 5, 5, 5, 5>>}}
        \cup {Dict(<<Key(t, 1)>>, <<k>>) : t \in {"str", "other"}, k \in {4, 5}}
        \cup TwoKeys(4, 5) \cup TwoKeys(5, 4) \cup {Val("int", "one"), Val("float", "one")}

RightTrees ==
    {List(ks) : ks \in {<<>>, <<5>>, <<4, 5>>, <<5, 5>>, <<3>>}} \cup TwoKeys(4, 5) \cup TwoKeys(5, 4)
        \cup {Dict(<<Key("str", 1)>>, <<5>>), Val("int", "one"), Val("bool", "one")}

MCHeaps ==
    {(1 :> RootDict(t)) @@ (2 :> l) @@ (3 :> r) @@ (4 :> c) @@ (5 :> f) @@ (6 :> Val("int", "one")) :
        t \in {"str", "other"}, l \in LeftTrees, r \in RightTrees,
        c \in {Val("bool", "true"), Val("bool", "one"), Val("str", "name"), List(<<>>)},
        f \in {Val("int", "one"), Val("unsafe_int", "big"), Val("nonfinite", "none"),
               Val("other", "none"), List(<<>>)}}

Seg(r) == [rank |-> r, index |-> r - 1]

PresentAndEqual == [relation |-> "present_and_equal",
                    left_pointer |-> <<Seg(1)>>, right_pointer |-> <<Seg(2)>>]
SelectorLookup == [relation |-> "selector_lookup_equals_literal", literal |-> 6,
                   selector_pointer |-> <<Seg(3)>>, map_pointer |-> <<Seg(1)>>]
ConditionImplies == [relation |-> "condition_implies_unequal", condition_pointer |-> <<Seg(3)>>,
                     left_pointer |-> <<Seg(1), Seg(1)>>, right_pointer |-> <<Seg(2)>>]
Malformed == [relation |-> "malformed"]

MCCases ==
    {[heap |-> h, root |-> 1, declarations |-> d] :
        h \in MCHeaps, d \in {<<PresentAndEqual, ConditionImplies>>, <<SelectorLookup>>}}
    \cup {[heap |-> h, root |-> 1, declarations |-> d] :
            h \in {g \in MCHeaps : g[2] = List(<<>>) /\ g[3] = List(<<>>)},
            d \in {<<>>, <<PresentAndEqual, Malformed>>}}

MCText == {"none", "one", "big", "true", "name"}
MCNameRank == [t \in MCText |-> IF t = "name" THEN 1 ELSE 9]
-----------------------------------------------------------------------------
(* Reference definitions: the exact built-in values within the bounds, and *)
(* their equality.                                                         *)

\* The number of nodes of the tree below n, counted along at most fuel
\* levels, and whether it holds only admissible values.
RECURSIVE TreeSize(_, _)
TreeSize(n, fuel) ==
    IF fuel = 0 THEN 1
    ELSE 1 + FoldLeft(+, 0, [i \in DOMAIN heap[n].kids |-> TreeSize(heap[n].kids[i], fuel - 1)])

RECURSIVE Evaluable(_, _)
Evaluable(n, depth) ==
    LET o == heap[n]
    IN  /\ o.type \notin {"nonfinite", "other"}
        /\ IsContainer(o) =>
              /\ depth <= MAX_COMPARISON_DEPTH
              /\ \A i \in DOMAIN o.keys : o.keys[i].type # "other"
              /\ \A i \in DOMAIN o.kids : Evaluable(o.kids[i], depth + 1)

CanBeCompared(n) ==
    Evaluable(n, 1) /\ TreeSize(n, MAX_COMPARISON_DEPTH + 1) <= MAX_COMPARISON_NODES

RECURSIVE SameValue(_, _)
SameValue(m, n) ==
    LET a == heap[m]
        b == heap[n]
    IN  /\ ExactType(a) = ExactType(b)
        /\ a.val = b.val
        /\ a.type = "list" => /\ Len(a.kids) = Len(b.kids)
                              /\ \A i \in DOMAIN a.kids : SameValue(a.kids[i], b.kids[i])
        /\ a.type = "dict" =>
              LET Names(o) == {o.keys[i].rank : i \in DOMAIN o.keys}
                  Named(o, r) == o.kids[CHOOSE i \in DOMAIN o.keys : o.keys[i].rank = r]
              IN  Names(a) = Names(b) /\ \A r \in Names(a) : SameValue(Named(a, r), Named(b, r))

Compares(d) == Asserts(d) /\ LeftOf(d) # MISSING /\ RightOf(d) # MISSING
-----------------------------------------------------------------------------
(* Properties *)

\* A relation is reported as held or violated exactly as the structural
\* equality of its subtrees says, for every order of members and every
\* sharing of sub-objects: the pairing loop loses no pair and invents none.
HeldIsStructuralEquality ==
    \A i \in DOMAIN held :
        LET d == declarations[i]
            equal == SameValue(LeftOf(d), RightOf(d))
        IN  IF Compares(d)
            THEN held[i] = IF d.relation = "condition_implies_unequal" THEN ~equal ELSE equal
            ELSE held[i] = ~Asserts(d)

\* No relation is decided on a subtree that cannot be evaluated: a too deep,
\* too wide, circular or non-canonical subtree on either side is refused
\* before any shortcut could call the two unequal, which
\* condition_implies_unequal would count as a pass.
NoVerdictOnUnevaluable ==
    \A i \in DOMAIN held :
        LET d == declarations[i]
        IN  Compares(d) => CanBeCompared(LeftOf(d)) /\ CanBeCompared(RightOf(d))

\* An exception is raised only for a subtree that really is out of bounds or
\* not canonical; the order of the walk and sharing do not use up the budget
\* of a payload that is within it.
RefusalIsJustified ==
    outcome \in {"BoundError", "NoncanonicalError"} =>
        LET d == declarations[current]
        IN  ~CanBeCompared(LeftOf(d)) \/ ~CanBeCompared(RightOf(d))

\* validate_declared_invariants always returns or raises.
Terminates == <>(stage = "done")
=============================================================================
