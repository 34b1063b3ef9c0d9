---------------------------- MODULE MultisetRoot ----------------------------
(***************************************************************************)
(* example_identity.py: compute_multiset_root over the items of a dataset  *)
(* and of a trial, in whatever order and with whatever repetitions they    *)
(* come, and the relations is_sub_multiset and example_id_overlap between  *)
(* the two.                                                                *)
(*                                                                         *)
(* An item is a member [id, version, count] (see MerkleTree), or MALFORMED *)
(* for what is neither a MultisetMember nor a pair or triple, or has an    *)
(* identifier that is not of version 1.                                    *)
(***************************************************************************)
EXTENDS MerkleTree, FiniteSets, FiniteSetsExt, Functions

CONSTANTS ABSENT,       \* no explicit key_id, not computed yet
          MALFORMED,    \* an item that is no member
          MAX_COUNT,    \* 2**53-1 in the code
          Inputs        \* the two calls made: [dataset, evaluated], each [items, key_id]

Identifier == [kid : Int, digest : Int]
Member == [id : Identifier, version : Identifier, count : Int]
Refusals == {"not_a_member", "different_key_ids", "count_range", "count_overflow",
             "key_id_shape", "needs_key_id", "mixed_key_ids", "total_overflow"}

ASSUME MaxCountAssumption == MAX_COUNT \in Nat \ {0}
ASSUME AbsentAssumption ==
    /\ ABSENT \notin BOOLEAN /\ ABSENT \notin Refusals /\ ABSENT # <<>>
    /\ MALFORMED \notin Member \cup {ABSENT}
ASSUME InputsAssumption ==
    \A i \in Inputs : \A n \in {"dataset", "evaluated"} :
        i[n].items \in Seq(Member \cup {MALFORMED}) /\ i[n].key_id \in Int \cup {ABSENT, MALFORMED}

Names == <<"dataset", "evaluated">>

VARIABLES inputs,       \* the arguments of the two calls
          current,      \* index in Names of the call that is running
          todo,         \* items _normalize has not added yet; ABSENT before
          totals,       \* _normalize: count per (id, version)
          results       \* what the calls returned
vars == <<inputs, current, todo, totals, results>>

Pair(member) == <<member.id, member.version>>

\* How often the pairs occur together in a sequence of members.
Counted(members, pairs) ==
    LET counted[i \in 0..Len(members)] ==
            IF i = 0 THEN 0
            ELSE IF Pair(members[i]) \in pairs THEN counted[i - 1] + members[i].count
            ELSE counted[i - 1]
    IN  counted[Len(members)]

Pairs(members) == {Pair(m) : m \in Range(members)}

NoTotals == [p \in {} |-> 0]
Total(t, pair) == IF pair \in DOMAIN t THEN t[pair] ELSE 0
Call == inputs[Names[current]]

\* MultisetMember.__post_init__.
MemberError(item) ==
    IF item = MALFORMED THEN "not_a_member"
    ELSE IF item.id.kid # item.version.kid THEN "different_key_ids"
    ELSE IF item.count \notin 1..MAX_COUNT THEN "count_range"
    ELSE ABSENT

\* sorted(totals.items()): by example id, then by version.
Before(a, b) ==
    LET Less(x, y) == x.kid < y.kid \/ (x.kid = y.kid /\ x.digest < y.digest)
    IN  Less(a.id, b.id) \/ (a.id = b.id /\ Less(a.version, b.version))
MembersOf(t) ==
    LET listed == {[id |-> p[1], version |-> p[2], count |-> t[p]] : p \in DOMAIN t}
        Place(m) == Cardinality({x \in listed : Before(x, m)}) + 1
    IN  [i \in 1..Cardinality(listed) |-> CHOOSE m \in listed : Place(m) = i]

\* _conflicting_example_ids: members are distinct pairs, so an id that occurs
\* twice has two versions.
ConflictingExampleIds(members) ==
    {m.id : m \in {x \in Range(members) : \E y \in Range(members) : y # x /\ y.id = x.id}}

\* The rest of compute_multiset_root, from the normalized members.
Conclude(members, key_id) ==
    LET kids == {m.id.kid : m \in Range(members)} \cup (IF key_id = ABSENT THEN {} ELSE {key_id})
        total == Counted(members, Pairs(members))
    IN  IF key_id = MALFORMED THEN [error |-> "key_id_shape"]
        ELSE IF kids = {} THEN [error |-> "needs_key_id"]
        ELSE IF Cardinality(kids) # 1 THEN [error |-> "mixed_key_ids"]
        ELSE IF total > MAX_COUNT THEN [error |-> "total_overflow"]
        ELSE LET kid == CHOOSE k \in kids : TRUE
             IN  [error |-> ABSENT, key_id |-> kid, root |-> RootOf(kid, members),
                  members |-> members, total_count |-> total,
                  conflicts |-> ConflictingExampleIds(members)]

Init ==
    /\ inputs \in Inputs
    /\ current = 1 /\ todo = ABSENT /\ totals = NoTotals
    /\ results = [n \in Range(Names) |-> ABSENT]

Finish(result) ==
    /\ results' = [results EXCEPT ![Names[current]] = result]
    /\ current' = current + 1
    /\ todo' = ABSENT /\ totals' = NoTotals
    /\ UNCHANGED inputs

\* _coerce_members: every item, before the first is counted.
CoerceMembers ==
    /\ current \in DOMAIN Names /\ todo = ABSENT
    /\ LET refused == {i \in DOMAIN Call.items : MemberError(Call.items[i]) # ABSENT}
       IN  IF refused # {} THEN Finish([error |-> MemberError(Call.items[Min(refused)])])
           ELSE /\ todo' = Call.items /\ totals' = NoTotals
                /\ UNCHANGED <<inputs, current, results>>

\* The count of a pair after one more item of it.
AddedReplaces(t, member) == member.count
Added(t, member) == Total(t, Pair(member)) + member.count

Normalize ==
    /\ current \in DOMAIN Names /\ todo # ABSENT /\ todo # <<>>
    /\ LET count == Added(totals, Head(todo))
           pair == Pair(Head(todo))
       IN  IF count > MAX_COUNT THEN Finish([error |-> "count_overflow"])
           ELSE /\ totals' = [p \in DOMAIN totals \cup {pair} |-> IF p = pair THEN count ELSE totals[p]]
                /\ todo' = Tail(todo)
                /\ UNCHANGED <<inputs, current, results>>

ComputeRoot ==
    /\ current \in DOMAIN Names /\ todo = <<>>
    /\ Finish(Conclude(MembersOf(totals), Call.key_id))

Next == CoerceMembers \/ Normalize \/ ComputeRoot

\* is_sub_multiset.
SubMultisetUncounted(inner, outer) ==
    /\ inner.key_id = outer.key_id
    /\ \A m \in Range(inner.members) : \E o \in Range(outer.members) : Pair(o) = Pair(m)
IsSubMultiset(inner, outer) ==
    /\ inner.key_id = outer.key_id
    /\ \A m \in Range(inner.members) :
          \E o \in Range(outer.members) : Pair(o) = Pair(m) /\ o.count >= m.count

\* example_id_overlap; "error" for multisets of different key ids.
ExampleIdOverlap(first, second) ==
    IF first.key_id # second.key_id THEN "error"
    ELSE {m.id : m \in Range(first.members)} \cap {m.id : m \in Range(second.members)}
-----------------------------------------------------------------------------
(* Properties *)

Has(n) == results[n] # ABSENT /\ results[n].error = ABSENT
Items(n) == Range(inputs[n].items)
Occurrences(n, pair) == Counted(inputs[n].items, {pair})

\* Two calls return the same root exactly when their items are the same
\* multiset under the same key, in whatever order and with whatever split of
\* the counts they came.
SameRootIffSameBag ==
    Has("dataset") /\ Has("evaluated") =>
        (results["dataset"].root = results["evaluated"].root
         <=> /\ results["dataset"].key_id = results["evaluated"].key_id
             /\ \A m \in Items("dataset") \cup Items("evaluated") :
                   Occurrences("dataset", Pair(m)) = Occurrences("evaluated", Pair(m)))

\* Whether a multiset is refused depends on its items and not on their order:
\* it is refused when an item is no member, when there is not one key id, or
\* when the whole passes the ceiling.
RefusedIffImproper ==
    \A n \in Range(Names) : results[n] # ABSENT =>
        (results[n].error # ABSENT <=>
            \/ inputs[n].key_id = MALFORMED \/ \E m \in Items(n) : MemberError(m) # ABSENT
            \/ Cardinality({m.id.kid : m \in Items(n)} \cup ({inputs[n].key_id} \ {ABSENT})) # 1
            \/ Counted(inputs[n].items, Pairs(inputs[n].items)) > MAX_COUNT)

\* The relations that are computed between roots hold between the items: a
\* trial is a sub-multiset of a dataset exactly when no item was evaluated
\* more often than the dataset has it, and an input that occurs on both sides
\* is in the overlap even when one side has relabelled it (is_sub_multiset,
\* example_id_overlap, which see normalized members and never the items).
RelationsHoldOfItems ==
    Has("dataset") /\ Has("evaluated") =>
        LET d == results["dataset"]  e == results["evaluated"]
        IN  /\ IsSubMultiset(e, d)
               <=> /\ e.key_id = d.key_id
                   /\ \A m \in Items("evaluated") :
                         Occurrences("evaluated", Pair(m)) <= Occurrences("dataset", Pair(m))
            /\ e.key_id = d.key_id =>
                  ExampleIdOverlap(d, e) =
                      {m.id : m \in Items("dataset")} \cap {m.id : m \in Items("evaluated")}
=============================================================================
