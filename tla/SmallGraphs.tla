---------------------------- MODULE SmallGraphs ----------------------------
(***************************************************************************)
(* Builders of small object graphs for the model-checking modules.         *)
(***************************************************************************)
EXTENDS JsonHeap, FiniteSets, TLC

Scalar(t) == [type |-> t, val |-> t, kids |-> <<>>, keys |-> <<>>]
List(kids) == [type |-> "list", val |-> "none", kids |-> kids, keys |-> <<>>]
Dict(keys, kids) == [type |-> "dict", val |-> "none", kids |-> kids, keys |-> keys]
Key(t, r) == [type |-> t, rank |-> r]

UpToTwo(S) == {<<>>} \cup {<<a>> : a \in S} \cup {<<a, b>> : a, b \in S}

KeyLists(k) ==
    CASE k = 0 -> {<<>>}
      [] k = 1 -> {<<Key(t, 1)>> : t \in KeyTypes}
      [] k = 2 -> {<<Key("str", 1), Key("str", 2)>>, <<Key("str", 2), Key("str", 1)>>,
                   <<Key("lone_str", 1), Key("other", 2)>>}

Containers(S) ==
    {List(ks) : ks \in UpToTwo(S)}
        \cup UNION {{Dict(keys, ks) : keys \in KeyLists(Len(ks))} : ks \in UpToTwo(S)}
=============================================================================
