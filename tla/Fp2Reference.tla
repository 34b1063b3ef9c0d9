---------------------------- MODULE Fp2Reference ----------------------------
(***************************************************************************)
(* Small object graphs for the runs over Fp2, and the definitions its      *)
(* results are compared with: a recursive encoder, the value a node        *)
(* denotes and a parser of the canonical text.                             *)
(*                                                                         *)
(* In the graphs node 1 is the root, nodes 1 and 2 may be containers of up *)
(* to two children in any order, node 3 is a leaf of every kind or a       *)
(* container that closes a cycle or exceeds the nesting limit.             *)
(***************************************************************************)
EXTENDS Fp2, SmallGraphs

SmallHeaps ==
    {(1 :> a) @@ (2 :> b) @@ (3 :> c) :
        a \in Containers({1, 2, 3}) \cup {Scalar("str"), Scalar("other")},
        b \in Containers({1, 3}) \cup {Scalar("null"), Scalar("unsafe_int")},
        c \in {Scalar(t) : t \in ScalarTypes \cup {"other"}} \cup
              {List(<<>>), List(<<1>>), List(<<2>>), Dict(<<Key("str", 1)>>, <<3>>)}}

AllText == ScalarTypes \cup {"other", "none"}
AllSmallInputs == {[heap |-> h, root |-> 1] : h \in SmallHeaps}

-----------------------------------------------------------------------------
(* The recursive implementation that fp2.py's comment on MAX_DEPTH allows: *)
(* what it answers for node n at depth d below the ancestors anc.          *)

FirstRefusal(verdicts) ==
    IF \E i \in DOMAIN verdicts : verdicts[i] # "ok"
    THEN verdicts[CHOOSE i \in DOMAIN verdicts :
                    /\ verdicts[i] # "ok"
                    /\ \A j \in 1..(i - 1) : verdicts[j] = "ok"]
    ELSE "ok"

RankOf(o, i) == Cardinality({j \in DOMAIN o.keys : o.keys[j].rank <= o.keys[i].rank})

RECURSIVE RecursiveVerdict(_, _, _)
RecursiveVerdict(n, d, anc) ==
    LET o == heap[n]
        Of(k) == RecursiveVerdict(k, d + 1, anc \cup {n})
    IN  CASE o.type = "lone_str"   -> "lone_surrogate"
          [] o.type = "unsafe_int" -> "unsafe_integer"
          [] o.type = "nonfinite"  -> "non_finite"
          [] o.type = "other"      -> "unsupported_type"
          [] o.type \in ContainerTypes /\ d > MAX_DEPTH -> "max_depth"
          [] o.type \in ContainerTypes /\ d <= MAX_DEPTH /\ n \in anc -> "circular"
          [] o.type = "list" /\ d <= MAX_DEPTH /\ n \notin anc ->
                FirstRefusal([i \in DOMAIN o.kids |-> Of(o.kids[i])])
          [] o.type = "dict" /\ d <= MAX_DEPTH /\ n \notin anc ->
                IF \E i \in DOMAIN o.keys : o.keys[i].type = "other" THEN "key_type"
                ELSE IF \E i \in DOMAIN o.keys : o.keys[i].type # "str" THEN "lone_surrogate"
                ELSE FirstRefusal([r \in DOMAIN o.kids |->
                        Of(o.kids[CHOOSE i \in DOMAIN o.keys : RankOf(o, i) = r])])
          [] OTHER -> "ok"

\* The value a node denotes, free of identities and of insertion order: a
\* dict is a function from its keys.
RECURSIVE Denotes(_)
Denotes(n) ==
    LET o == heap[n]
        Member(r) == CHOOSE i \in DOMAIN o.keys : o.keys[i].rank = r
    IN  CASE o.type = "list" -> <<"list", [i \in DOMAIN o.kids |-> Denotes(o.kids[i])]>>
          [] o.type = "dict" ->
                <<"dict", [r \in {o.keys[i].rank : i \in DOMAIN o.keys} |->
                              Denotes(o.kids[Member(r)])]>>
          [] OTHER -> <<"scalar", o.val>>

\* A parser of the canonical text: the value at position i and the position
\* after it, and the members up to the closing bracket. It drops a member
\* whose key is not above every key before it.
RECURSIVE ParseValue(_, _), ParseItems(_, _, _), ParseMembers(_, _, _)
ParseValue(text, i) ==
    CASE text[i].t = "scalar" -> [val |-> <<"scalar", text[i].text>>, next |-> i + 1]
      [] text[i].t = "open" /\ text[i].type = "list" -> ParseItems(text, i + 1, <<>>)
      [] text[i].t = "open" /\ text[i].type = "dict" -> ParseMembers(text, i + 1, <<>>)
ParseItems(text, i, acc) ==
    IF text[i].t = "close" THEN [val |-> <<"list", acc>>, next |-> i + 1]
    ELSE LET p == ParseValue(text, i) IN ParseItems(text, p.next, Append(acc, p.val))
ParseMembers(text, i, acc) ==
    IF text[i].t = "close" THEN [val |-> <<"dict", acc>>, next |-> i + 1]
    ELSE LET p == ParseValue(text, i + 1)
         IN  ParseMembers(text, p.next,
                 IF \A r \in DOMAIN acc : r < text[i].rank THEN acc @@ (text[i].rank :> p.val) ELSE acc)
=============================================================================
