-------------------------- MODULE DatasetEvidence --------------------------
(***************************************************************************)
(* certification/dataset_record_verifier.py, first half: what a Dataset    *)
(* Record v1 is bound to and what the caller's own evidence makes of its   *)
(* claims DS1 (identity), DS2 (composition) and DS3 (leakage). The rest of *)
(* the record and the order of the checks are in DatasetRecord.            *)
(*                                                                         *)
(* A leaf is a blinded token (a number, so that lists can be sorted); a    *)
(* role digest is its domain and what it is of. The process record comes   *)
(* with its own verifier, which is taken by its contract (RecordRegister): *)
(* it accepts what the issuer filed under the pins of the context and      *)
(* nothing else. The registered documents are opaque.                      *)
(***************************************************************************)
EXTENDS Checks, Integers, FiniteSets, SequencesExt, Functions

CONSTANTS ABSENT, ZERO_DIGEST,
          MAX_LEAF_LIST,           \* leaves of a list that is still recomputed
          MAX_CELLS,               \* cells of a composition
          REGISTERED_TERMS         \* <<category_id, difficulty_stratum>> of the taxonomy

\* Signatures are those of the certificate a process record is based on.
V0 == INSTANCE CertificateV0

Taxonomy == "traigent.dataset_taxonomy.asap.v1"
MethodRegistry == "traigent.dataset_method_registry.asap.v1"
TierC == {"training_corpus_contamination", "prior_output_contamination"}
TierAB == {"declared_corpus_overlap", "split_disjointness", "near_duplicate_overlap"}
Ds3RelevantKinds == {"declared_corpus_overlap", "split_disjointness"}
-----------------------------------------------------------------------------
(* Digests and derived references *)

RoleDigest(domain, projection) == [domain |-> domain, projection |-> projection]
Without(doc, field) == [f \in DOMAIN doc \ {field} |-> doc[f]]
OwnDigest(domain, doc, field) == RoleDigest(domain, Without(doc, field))

\* sorted, of the leaves at these positions: one comes after those up to it.
Place(leaves, at, i) ==
    Cardinality({j \in at : leaves[j] < leaves[i] \/ (leaves[j] = leaves[i] /\ j <= i)})
SortedAt(leaves, at) ==
    [k \in 1..Cardinality(at) |-> leaves[CHOOSE i \in at : Place(leaves, at, i) = k]]
Sorted(leaves) == SortedAt(leaves, DOMAIN leaves)

DeriveDatasetRef(root, epoch) == [dsr |-> <<root, epoch>>]
DeriveDatasetRefFromItemSet(item_set_root) == [dsr_item_set |-> item_set_root]
ExpectedDatasetRef(identity) ==
    IF identity.dataset_identity_root = ABSENT
    THEN DeriveDatasetRefFromItemSet(identity.item_set_root)
    ELSE DeriveDatasetRef(identity.dataset_identity_root, identity.identity_blind_epoch)
DeriveCorpusRef(leaf_root, scope) == [cpr |-> <<leaf_root, scope>>]
DeriveLeakageScopeRef(scope_blind_commitment) == [lsr |-> scope_blind_commitment]

LeafListDigest(leaves) == RoleDigest("leaf_list", Sorted(leaves))
ItemSetRoot(leaves) == RoleDigest("item_set_root", Sorted(leaves))
ScopeBindingDigest(project, session) == RoleDigest("scope_binding", <<project, session>>)

\* A digest that a document carries and that the manifest repeats.
CheckOwnDigest(unsigned, doc, field, domain, code) ==
    LET digest == OwnDigest(domain, doc, field)
    IN  Require(digest = doc[field], code) && Require(digest = unsigned[field], code)
CheckCompositionDigest(unsigned, composition) ==
    CheckOwnDigest(unsigned, composition, "composition_digest", "composition",
                   "COMPOSITION_DIGEST_MISMATCH")
CheckLeakageDigest(unsigned, report) ==
    CheckOwnDigest(unsigned, report, "leakage_report_digest", "leakage_report",
                   "LEAKAGE_REPORT_DIGEST_MISMATCH")
-----------------------------------------------------------------------------
(* The process record and what the caller pins *)

ProcessPins(ctx) == [project_ref |-> ctx.expected_project_ref,
                     build_session_ref |-> ctx.expected_build_session_ref,
                     commitments |-> ctx.process_commitments]

\* _verify_process_record; filed is what the issuer has filed.
VerifyProcess(process, ctx, filed) ==
    Require([pins |-> ProcessPins(ctx), record |-> process] \in filed, "PROCESS_RECORD_INVALID")
ProcessManifestDigest(process) == RoleDigest("process_unsigned_manifest", process.unsigned_manifest)

CheckScopeBinding(unsigned, pr_unsigned, ctx) ==
    Require(/\ pr_unsigned.project_ref = ctx.expected_project_ref
            /\ pr_unsigned.build_session_ref = ctx.expected_build_session_ref
            /\ unsigned.scope_binding_digest = ScopeBindingDigest(ctx.expected_project_ref,
                                                                  ctx.expected_build_session_ref),
            "SCOPE_BINDING_MISMATCH")

SkipProcessBinding(unsigned, process) == OK
CheckProcessBinding(unsigned, process) ==
    Require(unsigned.process_unsigned_manifest_digest = ProcessManifestDigest(process),
            "PROCESS_MANIFEST_DIGEST_MISMATCH")

CheckDatasetCommitment(unsigned, process, ctx) ==
    Require(/\ unsigned.dataset_commitment_ref = process.unsigned_manifest.commitments
            /\ unsigned.dataset_commitment_ref = ctx.expected_dataset_commitment_ref,
            "DATASET_COMMITMENT_REF_MISMATCH")

\* _check_identity: the basis of DS1.
Ds1Basis(identity, ctx) ==
    IF ABSENT \in {identity.dataset_identity_root, ctx.expected_dataset_identity_root}
    THEN "abstained" ELSE "issuer_verified"
CheckIdentity(identity, ctx) ==
    LET same_root == identity.dataset_identity_root = ctx.expected_dataset_identity_root
        same_epoch == identity.identity_blind_epoch = ctx.expected_identity_blind_epoch
    IN  IF Ds1Basis(identity, ctx) = "abstained" THEN OK
        ELSE Require(same_root = same_epoch, "IDENTITY_EPOCH_INCONSISTENT")
             && Require(same_root, "DATASET_IDENTITY_MISMATCH")
-----------------------------------------------------------------------------
(* The leaf lists of the caller: reference -> sequence of entries, or ABSENT *)

Supplied(lists) == lists # ABSENT /\ DOMAIN lists # {}
Leaves(entries) == [i \in DOMAIN entries |-> entries[i].leaf]
CorpusRefs(identity, lists) ==
    IF Supplied(lists) THEN DOMAIN lists \ {identity.dataset_ref} ELSE {}
ItemSet(identity, lists) ==
    IF Supplied(lists) /\ identity.dataset_ref \in DOMAIN lists
    THEN lists[identity.dataset_ref] ELSE <<>>

\* _check_leaf_list_input: the rows have the members of their kind of list, no
\* leaf twice; a list that is too long is not looked at any further.
RowKeys(is_item_set) == IF is_item_set THEN {"leaf", "category_id", "difficulty_stratum"} ELSE {"leaf"}
LeafListEntryOk(key, entries, identity) ==
    LET is_item_set == key = identity.dataset_ref
    IN  /\ \A i \in DOMAIN entries : DOMAIN entries[i] = RowKeys(is_item_set)
        /\ IsInjective(Leaves(entries))
        /\ is_item_set => entries # <<>>
CheckLeafListInput(identity, lists) ==
    Require(lists # ABSENT => \A key \in DOMAIN lists : LeafListEntryOk(key, lists[key], identity),
            "LEAF_LIST_SHAPE")

CheckAttestationDerivedRefs(attestation, scope) ==
    Require(scope = DeriveLeakageScopeRef(attestation.scope_blind_commitment), "REF_NOT_DERIVED")
    && Require(\A i \in DOMAIN attestation.corpora :
                  attestation.corpora[i].corpus_ref
                      = DeriveCorpusRef(attestation.corpora[i].leaf_root, scope), "REF_NOT_DERIVED")
CheckLeafListDerivedRefs(identity, lists) ==
    Require(\A ref \in CorpusRefs(identity, lists) :
               ref = DeriveCorpusRef(LeafListDigest(Leaves(lists[ref])), identity.leakage_scope_ref),
            "REF_NOT_DERIVED")
CheckDerivedRefs(identity, lists, attestation) ==
    (IF attestation = ABSENT THEN OK
     ELSE CheckAttestationDerivedRefs(attestation, identity.leakage_scope_ref))
    && CheckLeafListDerivedRefs(identity, lists)
-----------------------------------------------------------------------------
(* DS2: the composition *)

CellKey(x) == <<x.category_id, x.difficulty_stratum>>
SumOf(f) == FoldFunction(+, 0, f)
Counts(composition) == [i \in DOMAIN composition.cells |-> composition.cells[i].item_count]

CheckDeclaredPartition(identity, composition) ==
    LET cells == composition.cells
    IN  Require(/\ Len(cells) <= MAX_CELLS
                /\ IsInjective([i \in DOMAIN cells |-> CellKey(cells[i])])
                /\ \A i \in DOMAIN cells : cells[i].item_count >= 1
                /\ SumOf(Counts(composition)) = identity.item_count
                /\ composition.populated_cell_count = Len(cells), "STRATUM_PARTITION_MISMATCH")
CheckVocabulary(composition) ==
    Require(\A i \in DOMAIN composition.cells : CellKey(composition.cells[i]) \in REGISTERED_TERMS,
            "TAXONOMY_TERM_UNREGISTERED")

\* _check_cell_roots, over the entries of the item set. Counts come before
\* roots, cell by cell; then the cells that were not declared and the item set.
InCell(entries, key) == {i \in DOMAIN entries : CellKey(entries[i]) = key}
CellRoot(entries, key) == RoleDigest("cell_root", SortedAt(Leaves(entries), InCell(entries, key)))
CheckCell(cell, entries) ==
    Require(Cardinality(InCell(entries, CellKey(cell))) = cell.item_count,
            "COMPOSITION_CELL_COUNT_MISMATCH")
    && Require(CellRoot(entries, CellKey(cell)) = cell.cell_leaf_root,
               "COMPOSITION_CELL_ROOT_MISMATCH")
CheckCellRoots(identity, composition, entries) ==
    LET cells == composition.cells
    IN  ForEach([i \in DOMAIN cells |-> CheckCell(cells[i], entries)])
        && Require(\A e \in Range(entries) : \E c \in Range(cells) : CellKey(c) = CellKey(e),
                   "COMPOSITION_CELL_ROOT_MISMATCH")
        && Require(ItemSetRoot(Leaves(entries)) = identity.item_set_root,
                   "COMPOSITION_CELL_ROOT_MISMATCH")

\* _derive_ds2.
Recomputable(entries) == Len(entries) \in 1..MAX_LEAF_LIST
Ds2Basis(identity, lists) ==
    IF Recomputable(ItemSet(identity, lists)) THEN "issuer_verified" ELSE "client_declared"
CheckDs2(identity, composition, lists) ==
    IF Recomputable(ItemSet(identity, lists))
    THEN CheckCellRoots(identity, composition, ItemSet(identity, lists)) ELSE OK
-----------------------------------------------------------------------------
(* DS3: leakage between corpora *)

CheckLeakageBasisCoupling(report) ==
    Require(\A f \in Range(report.findings) :
               /\ f.finding_kind \in TierC => f.observation_basis = "client_attested"
               /\ f.finding_kind \in TierAB => f.observation_basis = "backend_observed",
            "LEAKAGE_BASIS_COUPLING")

\* The findings that DS3 is about, and the corpora and pairs of corpora they name.
Ds3Findings(report) == {f \in Range(report.findings) : f.finding_kind \in Ds3RelevantKinds}
PairOf(f) == {f.corpus_a_ref, f.corpus_b_ref}
Ds3RelevantRefs(report) == UNION {PairOf(f) : f \in Ds3Findings(report)}

ListedRefs(report) == {d.corpus_ref : d \in Range(report.leaf_list_digests)}
CheckLeakageScope(identity, report, lists) ==
    Require(/\ report.leakage_scope_ref = identity.leakage_scope_ref
            /\ CorpusRefs(identity, lists) \subseteq ListedRefs(report), "LEAKAGE_SCOPE_MISMATCH")

\* _check_corpus_ref_descriptors: every corpus has one descriptor in each list,
\* derived from its own digest; the two lists agree; findings name known ones.
CheckDigestDescriptors(identity, report) ==
    LET digests == report.leaf_list_digests
        Check(i) == Require(digests[i].corpus_ref = DeriveCorpusRef(digests[i].leaf_list_digest,
                                                                    identity.leakage_scope_ref),
                            "REF_NOT_DERIVED")
                    && Require(\A j \in 1..(i - 1) : digests[j].corpus_ref # digests[i].corpus_ref,
                               "LEAF_LIST_DIGEST_MISMATCH")
    IN  ForEach([i \in DOMAIN digests |-> Check(i)])
AttestedRefs(attestation) ==
    IF attestation = ABSENT THEN {} ELSE {c.corpus_ref : c \in Range(attestation.corpora)}
CheckAttestationDescriptors(report, attestation) ==
    IF attestation = ABSENT THEN OK
    ELSE Require(/\ IsInjective([i \in DOMAIN attestation.corpora |->
                                    attestation.corpora[i].corpus_ref])
                 /\ \A c \in Range(attestation.corpora), d \in Range(report.leaf_list_digests) :
                       c.corpus_ref = d.corpus_ref => c.leaf_count = d.leaf_count,
                 "LEAF_LIST_DIGEST_MISMATCH")
CheckCorpusRefDescriptors(identity, report, attestation) ==
    CheckDigestDescriptors(identity, report)
    && CheckAttestationDescriptors(report, attestation)
    && Require(\A f \in Range(report.findings) :
                  PairOf(f) \subseteq ListedRefs(report) \cup AttestedRefs(attestation),
               "REF_NOT_DERIVED")

\* _check_leaf_list_digests.
CheckLeafListDigests(identity, report, lists) ==
    Require(\A ref \in CorpusRefs(identity, lists) : \E d \in Range(report.leaf_list_digests) :
               /\ d.corpus_ref = ref /\ d.leaf_count = Len(lists[ref])
               /\ d.leaf_list_digest = LeafListDigest(Leaves(lists[ref])),
            "LEAF_LIST_DIGEST_MISMATCH")

\* _check_leaf_generation_attestation; consistent is that there is one.
CheckAttestationBindings(unsigned, report, attestation) ==
    LET digest == OwnDigest("leaf_generation_attestation", attestation, "attestation_digest")
    IN  Require(/\ attestation.attestation_digest = digest
                /\ unsigned.leaf_generation_attestation_digest = digest
                /\ report.leaf_generation_attestation_digest = digest,
                "LEAF_GENERATION_ATTESTATION_MISSING")
        && Require(attestation.leakage_scope_ref = report.leakage_scope_ref,
                   "LEAF_SCOPE_BLIND_MISMATCH")
CheckAttestation(unsigned, identity, report, attestation, lists) ==
    IF attestation = ABSENT
    THEN Require(/\ unsigned.leaf_generation_attestation_digest = ABSENT
                 /\ report.leaf_generation_attestation_digest = ABSENT,
                 "LEAF_GENERATION_ATTESTATION_MISSING")
    ELSE CheckAttestationBindings(unsigned, report, attestation)
         && Require(\A c \in Range(attestation.corpora) :
                       c.scope_blind_commitment = attestation.scope_blind_commitment,
                    "LEAF_SCOPE_BLIND_MISMATCH")
         && Require(\A c \in Range(attestation.corpora) :
                       c.corpus_ref \in CorpusRefs(identity, lists) =>
                          /\ c.leaf_count = Len(lists[c.corpus_ref])
                          /\ c.leaf_root = LeafListDigest(Leaves(lists[c.corpus_ref])),
                    "LEAF_COMPLETENESS_MISMATCH")

\* _check_overlap_and_disjointness: the findings both of whose lists are there.
Overlap(f, lists) == Range(Leaves(lists[f.corpus_a_ref])) \cap Range(Leaves(lists[f.corpus_b_ref]))
CheckOverlap(identity, report, lists) ==
    LET Check(f) == IF f \notin Ds3Findings(report) \/ ~(PairOf(f) \subseteq CorpusRefs(identity, lists))
                    THEN OK
                    ELSE Require(f.disjointness_asserted => Overlap(f, lists) = {},
                                 "SPLIT_DISJOINTNESS_VIOLATION")
                         && Require(Cardinality(Overlap(f, lists)) = f.overlap_count,
                                    "LEAKAGE_OVERLAP_MISMATCH")
    IN  ForEach([i \in DOMAIN report.findings |-> Check(report.findings[i])])

\* _ds3_disjointness_established: for every pair that the findings name, in
\* whichever order, some finding asserts it and the lists bear it out.
EstablishedForSome(report, lists) ==
    \E f \in Ds3Findings(report) : f.disjointness_asserted /\ Overlap(f, lists) = {}
DisjointnessEstablished(report, lists) ==
    /\ Ds3Findings(report) # {}
    /\ \A f \in Ds3Findings(report) :
          /\ \E g \in Ds3Findings(report) : PairOf(g) = PairOf(f) /\ g.disjointness_asserted
          /\ Overlap(f, lists) = {}

\* _derive_ds3.
Ds3Abstains(report, lists) ==
    \/ ~Supplied(lists)
    \/ \E ref \in Ds3RelevantRefs(report) \cap DOMAIN lists : Len(lists[ref]) > MAX_LEAF_LIST
Ds3Covered(identity, report, attestation, lists) ==
    /\ Ds3RelevantRefs(report) # {}
    /\ Ds3RelevantRefs(report) \subseteq CorpusRefs(identity, lists) \cap AttestedRefs(attestation)
Ds3Basis(identity, report, attestation, lists) ==
    IF Ds3Abstains(report, lists) THEN "abstained"
    ELSE IF /\ attestation # ABSENT
            /\ Ds3Covered(identity, report, attestation, lists)
            /\ DisjointnessEstablished(report, lists)
         THEN "issuer_verified" ELSE "client_declared"
CheckDs3(report, lists, ctx) ==
    Require(~(Ds3Abstains(report, lists) /\ ctx.require_leaf_lists), "CLAIM_SUPPORT_ROW_MISMATCH")
=============================================================================
