----------------------------- MODULE MerkleTree -----------------------------
(***************************************************************************)
(* example_identity.py: the Merkle tree over the members of a multiset, and *)
(* the audit path of a member. A hash is the term it is the hash of, so    *)
(* two hashes are equal only when what was hashed is: the collision        *)
(* freedom of SHA-256 with its 0x00 and 0x01 prefixes.                     *)
(*                                                                         *)
(* A member is [id, version, count]; an identifier is [kid, digest], the   *)
(* key id and the hexadecimal digest as an integer.                        *)
(***************************************************************************)
EXTENDS Integers, Sequences

\* multiset_leaf_data: the identifiers and the multiplicity.
LeafDataUncounted(member) == <<member.id, member.version>>
LeafData(member) == <<member.id, member.version, member.count>>

LeafHash(member) == <<"leaf", LeafData(member)>>

NodeHashSortedPair(left, right) == <<"node", {left, right}>>
NodeHash(left, right) == <<"node", left, right>>

\* hashlib.sha256(b""), the root of the empty multiset.
EmptyHash == <<"empty">>

\* The largest power of two strictly less than n.
Split(n) == LET k[i \in 1..n] == IF i * 2 < n THEN k[i * 2] ELSE i IN k[1]

\* _mth of the leaves from+1..to, at least one: for each number n of leaves,
\* the hash of those after lo.
SubtreeHash(leaves, from, to) ==
    LET mth[n \in 1..Len(leaves)] ==
            [lo \in 0..Len(leaves) - n |->
                IF n = 1 THEN LeafHash(leaves[lo + 1])
                ELSE NodeHash(mth[Split(n)][lo], mth[n - Split(n)][lo + Split(n)])]
    IN  mth[to - from][from]
Mth(leaves) == IF leaves = <<>> THEN EmptyHash ELSE SubtreeHash(leaves, 0, Len(leaves))

\* _path: the hashes beside the way from leaf m (from 0) to the root, the
\* lowest first.
Path(m, leaves) ==
    LET path[n \in 1..Len(leaves)] ==
            [lo \in 0..Len(leaves) - n |->
                LET k == Split(n)
                IN  IF n = 1 THEN <<>>
                    ELSE IF m < lo + k THEN path[k][lo] \o <<SubtreeHash(leaves, lo + k, lo + n)>>
                    ELSE path[n - k][lo + k] \o <<SubtreeHash(leaves, lo, lo + k)>>]
    IN  path[Len(leaves)][0]

\* The root identifier msr1:<kid>:<hash>.
RootOf(kid, leaves) == [kid |-> kid, hash |-> Mth(leaves)]
=============================================================================
