--------------------------- MODULE InclusionProof ---------------------------
(***************************************************************************)
(* example_identity.py: build_inclusion_proof by the holder of a multiset, *)
(* and verify_inclusion_proof by someone who has only the root. The proof  *)
(* that arrives may be another one: of another index, size or path.        *)
(***************************************************************************)
EXTENDS MultisetRoot

CONSTANT Arrives(_, _)   \* the proofs that may arrive for (members, proof)

VARIABLES proof,          \* the proof as it arrived
          sent,           \* the proof as it was built
          fold,           \* _fold_audit_path: [r, path, fn, sn]
          verdict         \* what verify_inclusion_proof returned
proofVars == <<proof, sent, fold, verdict>>

KeyId(member) == member.id.kid

\* What _decode_audit_path refuses: a node that is not 64 hex digits.
NotAHash == <<"malformed">>

\* No proof and no verdict yet.
NoProof == proof = ABSENT /\ sent = ABSENT /\ fold = ABSENT /\ verdict = ABSENT

\* build_inclusion_proof: members.index(member), and the path from there.
BuildInclusionProof(multiset, member) ==
    /\ NoProof
    /\ \E i \in DOMAIN multiset.members :
          /\ multiset.members[i] = member
          /\ sent' = [member |-> member, leaf_index |-> i - 1,
                      tree_size |-> Len(multiset.members),
                      audit_path |-> Path(i - 1, multiset.members), root |-> multiset.root]
    /\ proof' \in Arrives(multiset.members, sent') \cup {sent'}
    /\ UNCHANGED <<fold, verdict>>

\* The checks of verify_inclusion_proof before the path is folded.
ProofShapeOK(p) ==
    /\ p.root.kid = KeyId(p.member)
    /\ p.leaf_index \in Int /\ p.tree_size \in Int
    /\ 0 <= p.leaf_index /\ p.leaf_index < p.tree_size
    /\ \A i \in DOMAIN p.audit_path : p.audit_path[i] # NotAHash

StartVerification ==
    /\ proof # ABSENT /\ fold = ABSENT /\ verdict = ABSENT
    /\ IF ProofShapeOK(proof)
       THEN /\ fold' = [r |-> LeafHash(proof.member), path |-> proof.audit_path,
                        fn |-> proof.leaf_index, sn |-> proof.tree_size - 1]
            /\ UNCHANGED verdict
       ELSE verdict' = FALSE /\ UNCHANGED fold
    /\ UNCHANGED <<proof, sent>>

\* _skip_right_edge_levels.
SkipRightEdgeLevels(fn, sn) ==
    LET skip[f \in 0..fn] ==
            [s \in 0..sn |-> IF f % 2 = 0 /\ f # 0 THEN skip[f \div 2][s \div 2] ELSE <<f, s>>]
    IN  skip[fn][sn]

\* One node p of the path: where it stands beside r, and the two indices after.
FoldedNoRightEdge(f) ==
    LET p == Head(f.path)
    IN  [r |-> IF f.fn % 2 = 1 THEN NodeHash(p, f.r) ELSE NodeHash(f.r, p),
         path |-> Tail(f.path), fn |-> f.fn \div 2, sn |-> f.sn \div 2]
Folded(f) ==
    LET p == Head(f.path)
        right == f.fn % 2 = 1 \/ f.fn = f.sn
        at == IF right /\ f.fn % 2 = 0 THEN SkipRightEdgeLevels(f.fn, f.sn) ELSE <<f.fn, f.sn>>
    IN  [r |-> IF right THEN NodeHash(p, f.r) ELSE NodeHash(f.r, p),
         path |-> Tail(f.path), fn |-> at[1] \div 2, sn |-> at[2] \div 2]

\* A path longer than the tree is deep does not fit.
FoldStep ==
    /\ fold # ABSENT /\ verdict = ABSENT /\ fold.path # <<>>
    /\ IF fold.sn = 0 THEN verdict' = FALSE /\ UNCHANGED fold
       ELSE fold' = Folded(fold) /\ UNCHANGED verdict
    /\ UNCHANGED <<proof, sent>>

\* The computed hash counts only when the path was as long as the tree is deep.
FoldEnd ==
    /\ fold # ABSENT /\ verdict = ABSENT /\ fold.path = <<>>
    /\ verdict' = (fold.sn = 0 /\ fold.r = proof.root.hash)
    /\ UNCHANGED <<proof, sent, fold>>

Verification == StartVerification \/ FoldStep \/ FoldEnd
=============================================================================
