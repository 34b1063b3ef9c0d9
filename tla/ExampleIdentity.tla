-------------------------- MODULE ExampleIdentity --------------------------
(***************************************************************************)
(* example_identity.py as its parties use it: the holder of a dataset      *)
(* computes the root of its items and of those that a trial evaluated (see *)
(* MultisetRoot), compares the two, and proves single members of the       *)
(* dataset to someone who has nothing but its root (see InclusionProof).   *)
(***************************************************************************)
EXTENDS InclusionProof

CONSTANT AskedFor(_)    \* bound: the inputs for whose dataset proofs are asked

allVars == <<vars, proofVars>>

Compute == Next /\ UNCHANGED proofVars
BuildProof ==
    /\ current \notin DOMAIN Names /\ AskedFor(inputs) /\ Has("dataset")
    /\ \E member \in Range(results["dataset"].members) :
          BuildInclusionProof(results["dataset"], member)
    /\ UNCHANGED vars
VerifyProof == Verification /\ UNCHANGED vars

IdentityInit == Init /\ NoProof
IdentityNext == Compute \/ BuildProof \/ VerifyProof
Spec == IdentityInit /\ [][IdentityNext]_allVars
-----------------------------------------------------------------------------
(* Properties *)

UnderDatasetRoot == verdict = TRUE /\ proof.root = results["dataset"].root

\* A proof that arrives as it was built is accepted, whatever the shape of the
\* tree: also on the right edge of one that is not a power of two, where
\* _fold_audit_path skips levels.
BuiltProofVerifies == proof # ABSENT /\ proof = sent => verdict \in {ABSENT, TRUE}

\* What is accepted under the root of a dataset occurs in its items, and just
\* as often as the proof says, in whatever pieces compute_multiset_root was
\* given the count and whatever index, size and path the proof claims: no
\* proof of another multiplicity and none of an inner node.
AcceptedIsInDataset ==
    UnderDatasetRoot =>
        /\ proof.member.count > 0
        /\ Occurrences("dataset", Pair(proof.member)) = proof.member.count

\* For whoever also knows the size of the tree, the index is proved too, and
\* with it the place of the member in the order of _normalize: as many
\* distinct members of the dataset come before it.
AcceptedAtIndex ==
    UnderDatasetRoot /\ proof.tree_size = Cardinality({Pair(m) : m \in Items("dataset")}) =>
        proof.leaf_index =
            Cardinality({Pair(m) : m \in {x \in Items("dataset") : Before(x, proof.member)}})
=============================================================================
