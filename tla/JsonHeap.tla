------------------------------ MODULE JsonHeap ------------------------------
(***************************************************************************)
(* A parsed Python value as fp2, the best-config profile and the invariant *)
(* comparer see it: a graph of objects with identities, in which one       *)
(* container may be reachable twice (a shared sub-object) or reach itself  *)
(* (a circular reference).                                                 *)
(*                                                                         *)
(* A node has the exact Python type its dispatch tells apart, a value (the *)
(* canonical text of a scalar), its children and, for a dict, one key per  *)
(* child, both in insertion order. A key is known by its exact type and by *)
(* its rank in the UTF-16 code-unit order.                                 *)
(***************************************************************************)
EXTENDS Naturals, Sequences

CONSTANTS Node,   \* object identities, id(value)
          Text,   \* canonical texts of scalars
          Rank    \* ranks of keys in UTF-16 code-unit order

ASSUME RankAssumption == Rank \subseteq Nat

\* "unsafe": integral magnitude above 2**53 - 1; "lone_str": holds a lone
\* surrogate; "nonfinite": NaN or an infinity; "other": a subclass or any
\* type that is not one of JSON's.
ScalarTypes == {"null", "bool", "str", "lone_str", "int", "unsafe_int",
                "float", "unsafe_float", "nonfinite"}
ContainerTypes == {"dict", "list"}
Types == ScalarTypes \cup ContainerTypes \cup {"other"}

KeyTypes == {"str", "lone_str", "other"}
Keys == [type : KeyTypes, rank : Rank]

Objects == [type : Types, val : Text, kids : Seq(Node), keys : Seq(Keys)]

IsContainer(o) == o.type \in ContainerTypes

\* The permutations of the members of o that put its keys in rank order.
SortsKeys(o, p) ==
    \A i, j \in DOMAIN o.keys : i < j => o.keys[p[i]].rank < o.keys[p[j]].rank

\* A dict has one key per child, no two alike; other objects have no keys
\* and only containers have children.
WellFormed(o) ==
    /\ o.type = "dict" => /\ DOMAIN o.keys = DOMAIN o.kids
                          /\ \E p \in [DOMAIN o.kids -> DOMAIN o.kids] : SortsKeys(o, p)
    /\ o.type # "dict" => o.keys = <<>>
    /\ ~IsContainer(o) => o.kids = <<>>

Heaps == {h \in [Node -> Objects] : \A n \in Node : WellFormed(h[n])}

\* The nodes that are children of n.
Kids(h, n) == {h[n].kids[i] : i \in DOMAIN h[n].kids}
=============================================================================
