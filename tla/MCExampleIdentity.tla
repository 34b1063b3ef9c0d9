------------------------- MODULE MCExampleIdentity -------------------------
(***************************************************************************)
(* Every two sequences of at most MaxItems items over two inputs, one of   *)
(* them in two versions, counts up to the ceiling, a second key, a member  *)
(* that mixes keys, one whose count is out of range and an item that is    *)
(* none; and datasets of up to MaxSize members, one of them in two pieces, *)
(* with every proof of every path of at most MaxPath hashes of the tree,   *)
(* every index and size around the true ones, and a member of the dataset, *)
(* a neighbour of one or one with another count.                           *)
(***************************************************************************)
EXTENDS ExampleIdentity, SequencesExt

CONSTANTS MaxItems, MaxSize, MaxPath

Token(kid, n) == [kid |-> kid, digest |-> n]
Item(id, version, count) == [id |-> id, version |-> version, count |-> count]
Proper == {Item(Token(1, 1), Token(1, v), 1) : v \in {1, 2}} \cup
          {Item(Token(1, 2), Token(1, 3), c) : c \in {1, 3}} \cup
          {Item(Token(2, 1), Token(2, 1), 1)}
Improper == {MALFORMED, Item(Token(1, 1), Token(2, 1), 1), Item(Token(1, 1), Token(1, 1), 0),
             Item(Token(1, 1), Token(1, 1), MAX_COUNT + 1)}
Calls ==
    [items : BoundedSeq(Proper, MaxItems), key_id : {ABSENT}]
    \cup [items : {<<>>, <<Item(Token(1, 2), Token(1, 3), 1)>>}, key_id : {1, 2, MALFORMED}]
    \cup [items : {<<m, x>> : m \in Proper, x \in Improper}, key_id : {ABSENT}]
    \cup [items : {<<Item(Token(1, 1), Token(1, 1), MAX_COUNT - 1), m>> : m \in Proper}, key_id : {ABSENT}]

Nth(n) == Item(Token(1, n), Token(1, n), 1)
Proven(n) == [items |-> [i \in 1..n + 1 |-> Nth(IF i = n + 1 THEN n ELSE n + 1 - i)], key_id |-> ABSENT]
Nothing == [items |-> <<>>, key_id |-> 1]
MCInputs == [dataset : Calls, evaluated : Calls]
            \cup {[dataset |-> Proven(n), evaluated |-> Nothing] : n \in 1..MaxSize}
MCAskedFor(ins) == ins.evaluated = Nothing /\ \E n \in 1..MaxSize : ins.dataset = Proven(n)

Recounted(m, c) == [m EXCEPT !.count = c]
TreeNodes(leaves) ==
    {SubtreeHash(leaves, i - 1, i) : i \in DOMAIN leaves}
    \cup UNION {Range(Path(i - 1, leaves)) : i \in DOMAIN leaves}
\* A proof of the last member may arrive altered.
MCArrives(leaves, built) ==
    IF built.leaf_index # Len(leaves) - 1 THEN {}
    ELSE [member : {leaves[1], built.member, Nth(MaxSize + 1), Recounted(built.member, 1),
                    Recounted(leaves[1], 2)},
          leaf_index : -1..Len(leaves), tree_size : Len(leaves)..Len(leaves) + 1,
          audit_path : BoundedSeq(TreeNodes(leaves), MaxPath), root : {built.root}]
         \cup {[built EXCEPT !.root.kid = 2], [built EXCEPT !.audit_path = Append(@, NotAHash)]}
         \cup [member : {built.member}, leaf_index : 0..Len(leaves), tree_size : 1..2 * Len(leaves),
               audit_path : {built.audit_path}, root : {built.root}]
=============================================================================
