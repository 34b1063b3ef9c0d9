--------------------------- MODULE DatasetRecord ---------------------------
(***************************************************************************)
(* certification/dataset_record_verifier.py, second half: limitations, the *)
(* preregistered plan (DS4, near duplicates) and the efficiency report     *)
(* measured under it (DS5), the rows that say on which basis each claim    *)
(* stands, and verify_dataset_record_certificate.                          *)
(*                                                                         *)
(* A time is a second and the digits of its fraction, as it is written.    *)
(* The non-claims, the coverage lists and those fields of a plan that are  *)
(* only compared (plan.policy, plan.interval) are opaque.                  *)
(***************************************************************************)
EXTENDS DatasetEvidence

CONSTANTS MIN_STRATUM_SIZE,        \* of the taxonomy document
          IMBALANCE_RATIO_LIMIT,   \* of the taxonomy document
          REGISTERED_METHODS       \* near-duplicate methods of the method registry

ClaimIds == <<"DS1", "DS2", "DS3", "DS4", "DS5">>
NonClaimsCanonical == "non_claims.v1"
PreregCoverage == "prereg_coverage.v1"
ManifestCoverage == "unsigned_manifest_coverage.v1"
OrderingStepIds == {"evaluate", "aggregate", "select", "finalize"}
DerivableLimitations == {"small_stratum", "unbalanced_strata"}

ManifestDigest(unsigned) == RoleDigest("unsigned_manifest", unsigned)
PreregMaterial(plan) == [prereg_signature |-> Without(plan, "prereg_digest")]
DatasetMaterial(unsigned) == [dataset_issuer_signature |-> unsigned]
CheckLimitationsDigest(unsigned, limitations) ==
    CheckOwnDigest(unsigned, limitations, "limitations_digest", "limitations",
                   "LIMITATIONS_DIGEST_MISMATCH")
CheckPreregDigest(unsigned, plan) ==
    CheckOwnDigest(unsigned, plan, "prereg_digest", "prereg", "PREREGISTRATION_DIGEST_MISMATCH")
CheckEfficiencyDigest(unsigned, report) ==
    CheckOwnDigest(unsigned, report, "efficiency_report_digest", "efficiency_report",
                   "EFFICIENCY_REPORT_DIGEST_MISMATCH")
-----------------------------------------------------------------------------
(* Limitations *)

\* The limitations that the declared counts imply.
ImpliedLimitations(composition) ==
    LET counts == Range(Counts(composition))
    IN  {code \in DerivableLimitations :
            IF code = "small_stratum" THEN \E n \in counts : n \in 1..(MIN_STRATUM_SIZE - 1)
            ELSE \E m, n \in counts : m > IMBALANCE_RATIO_LIMIT * n}
CheckDerivableLimitations(composition, limitations) ==
    Require(ImpliedLimitations(composition)
                \subseteq {x.limitation_code : x \in Range(limitations.limitations)},
            "LIMITATION_OMITTED")
CheckLimitationBasis(limitations) ==
    Require(\A x \in Range(limitations.limitations) :
               x.observation_basis = IF x.limitation_code \in DerivableLimitations
                                     THEN "backend_observed" ELSE "client_attested",
            "LIMITATION_BASIS_COUPLING")
-----------------------------------------------------------------------------
(* The preregistered plan *)

CheckPreregSignature(unsigned, envelope, issuer) ==
    LET plan == envelope.preregistration
        sig == envelope.signature
    IN  Require(/\ sig.prereg_digest = plan.prereg_digest /\ sig.prereg_digest = unsigned.prereg_digest
                /\ unsigned.prereg_signature_digest = RoleDigest("prereg_signature", sig)
                /\ sig.issuer_key_ref = issuer.key_ref /\ sig.trust_ring_ref = issuer.trust_ring_ref,
                "PREREGISTRATION_SIGNATURE_INVALID")
        && Translate(V0!VerifySignature(issuer.public_key, sig.algorithm, PreregMaterial(plan),
                                        sig.signature),
                     "PREREGISTRATION_SIGNATURE_INVALID")
CheckPreregCoverage(plan) ==
    Require(plan.coverage = PreregCoverage, "PREREGISTRATION_SCOPE_VIOLATION")
\* Nine fields, the minimum sample size among them.
CheckAppliedPolicy(plan, report) ==
    Require(report.applied_policy = plan.policy, "PREREGISTRATION_SCOPE_VIOLATION")

\* _check_containment: what was measured is what was planned.
Estimates == <<"mean_item_information", "decisive_subset_upper_bound">>
CheckIntervalPlanScope(estimate, plan) ==
    Require(/\ estimate.interval = plan.interval
            /\ estimate.interval.method = "bootstrap_percentile_v1" =>
                  estimate.bootstrap = plan.policy.bootstrap, "PREREGISTRATION_SCOPE_VIOLATION")
CheckEstimateContainment(estimate, plan) ==
    (IF estimate.interval.method = "none" THEN OK ELSE CheckIntervalPlanScope(estimate, plan))
    && Require(estimate.sample_size_n >= plan.policy.minimum_sample_size_n,
               "SAMPLE_SIZE_INSUFFICIENT")
NearDuplicates(leakage) ==
    {f \in Range(leakage.findings) : f.finding_kind = "near_duplicate_overlap"}
CheckNearDuplicateContainment(plan, leakage) ==
    Require(\A f \in NearDuplicates(leakage) : f.near_duplicate = plan.near_duplicate,
            "PREREGISTRATION_SCOPE_VIOLATION")
CheckContainment(plan, report, leakage) ==
    Require(report.prereg_digest = plan.prereg_digest, "PREREGISTRATION_DIGEST_MISMATCH")
    && Require(report.candidates = plan.candidates, "PREREGISTRATION_SCOPE_VIOLATION")
    && ForEach([i \in DOMAIN Estimates |-> CheckEstimateContainment(report[Estimates[i]], plan)])
    && CheckNearDuplicateContainment(plan, leakage)
CheckDs4Method(plan, leakage) ==
    CheckNearDuplicateContainment(plan, leakage)
    && Require(\A f \in NearDuplicates(leakage) : f.near_duplicate.method \in REGISTERED_METHODS,
               "PREREGISTRATION_SCOPE_VIOLATION")

\* _utc_microseconds: a fraction of one to six digits is padded on the right.
FractionAsWritten(digits) == FoldLeft(LAMBDA n, d : 10 * n + d, 0, digits)
Fraction(digits) == FractionAsWritten([i \in 1..6 |-> IF i \in DOMAIN digits THEN digits[i] ELSE 0])
UtcMicroseconds(time) == time.second * 1000000 + Fraction(time.digits)

\* The plan comes before the first receipt of any step that shows results, in
\* whichever stream.
ResultTimes(receipts) ==
    {UtcMicroseconds(r.observed_at) :
        r \in {x \in UNION {Range(receipts[k]) : k \in DOMAIN receipts} : x.step_id \in OrderingStepIds}}
OrderingOrSame(unsigned, plan, receipts) ==
    Require(\A t \in ResultTimes(receipts) : UtcMicroseconds(plan.registered_at) <= t,
            "PREREGISTRATION_ORDER")
CheckOrdering(unsigned, plan, receipts) ==
    Require(/\ plan.registered_at = unsigned.prereg_registered_at
            /\ \A t \in ResultTimes(receipts) : UtcMicroseconds(plan.registered_at) < t,
            "PREREGISTRATION_ORDER")

\* A pinned plan counts at every grade.
CheckEvidenceGrade(unsigned, plan, ctx) ==
    LET grade == plan.evidence_grade
        pin == ctx.expected_prereg_digest
    IN  Require(unsigned.prereg_evidence_grade = grade, "PREREGISTRATION_GRADE_MISMATCH")
        && Require(grade # "log_inclusion_proof", "PREREGISTRATION_GRADE_UNSUPPORTED")
        && Require(grade = "caller_pinned_before_results" => pin = plan.prereg_digest,
                   "PREREGISTRATION_GRADE_MISMATCH")
        && Require(pin \in {ABSENT, plan.prereg_digest}, "PREREGISTRATION_DIGEST_MISMATCH")
-----------------------------------------------------------------------------
(* DS5: the efficiency report *)

CheckEstimateShape(e) ==
    Require(e.lo <= e.point /\ e.point <= e.hi, "INTERVAL_ORDER")
    && (IF e.estimator_kind \in {"exact", "upper_bound"}
        THEN Require(e.interval.method = "none" /\ e.lo = e.point /\ e.point = e.hi,
                     "INTERVAL_METHOD_COUPLING")
        ELSE Require(e.interval.method # "none", "INTERVAL_METHOD_COUPLING")
             && Require(e.interval.method = "wilson_score_v1" => e.quantity_kind = "proportion",
                        "INTERVAL_METHOD_QUANTITY_MISMATCH"))
    && Require(e.effective_sample_size_n <= e.sample_size_n, "SAMPLE_SIZE_INSUFFICIENT")

UnitOf == [irt_2pl_mml_v1 |-> "fisher_micro", point_biserial_v1 |-> "point_biserial_milli",
           score_variance_v1 |-> "variance_micro"]
CheckInformationRange(report, plan, identity) ==
    LET point == report.mean_item_information.point
    IN  Require(/\ report.uninformative_item_count <= identity.item_count
                /\ report.information.unit = UnitOf[report.information.method]
                /\ report.information = plan.information
                /\ IF report.information.unit = "point_biserial_milli" THEN point \in -1000..1000
                   ELSE point >= 0, "INFORMATION_UNIT_RANGE")

\* Parts per million, rounded down; nothing of nothing is zero.
Ppm(part, whole) == IF whole = 0 THEN 0 ELSE (part * 1000000) \div whole
CheckInertFraction(identity, report) ==
    Require(/\ report.inert_item_count <= identity.item_count
            /\ report.inert_fraction_ppm = Ppm(report.inert_item_count, identity.item_count),
            "INERT_FRACTION_MISMATCH")
CheckDecisiveSubset(identity, report) ==
    LET bound == report.decisive_subset_upper_bound
    IN  Require(/\ bound.estimator_kind = "upper_bound" /\ bound.quantity_kind = "count"
                /\ bound.point \in 1..identity.item_count, "DECISIVE_SUBSET_BOUND")
CheckRatio(ratio, code) ==
    Require(/\ ratio.full > 0 => ratio.decisive <= ratio.full
            /\ ratio.ppm = Ppm(ratio.decisive, ratio.full), code)
CheckCostAndLatency(report) ==
    CheckRatio(report.cost, "COST_EFFICIENCY_MISMATCH")
    && CheckRatio(report.latency, "LATENCY_EFFICIENCY_MISMATCH")
-----------------------------------------------------------------------------
(* The support rows *)

\* The basis on which each claim stands, from the record and the evidence.
ClaimBases(b, ctx, lists) ==
    LET identity == b.unsigned_manifest.identity
        zero == b.efficiency_report.cost.full = 0 \/ b.efficiency_report.latency.full = 0
    IN  [DS1 |-> Ds1Basis(identity, ctx), DS2 |-> Ds2Basis(identity, lists),
         DS3 |-> Ds3Basis(identity, b.leakage_report, b.leaf_generation_attestation, lists),
         DS4 |-> IF NearDuplicates(b.leakage_report) # {} THEN "issuer_verified" ELSE "abstained",
         DS5 |-> IF zero THEN "abstained" ELSE "issuer_verified"]

\* _CLAIM_ROW_PROFILE and _expected_evidence_digest.
EvidenceRef(unsigned, claim_id) ==
    CASE claim_id = "DS1" -> <<"client_commitment_digest", unsigned.identity.dataset_identity_root>>
      [] claim_id = "DS2" -> <<"verifier_report_digest", unsigned.composition_digest>>
      [] claim_id \in {"DS3", "DS4"} -> <<"verifier_report_digest", unsigned.leakage_report_digest>>
      [] OTHER -> <<"verifier_report_digest", unsigned.efficiency_report_digest>>
SupportRow(unsigned, claim_id, basis) ==
    [claim_id |-> claim_id, evidence_basis |-> basis,
     support |-> CASE basis = "issuer_verified" -> [verifier |-> <<claim_id, "1.0.0">>]
                   [] basis = "client_declared" -> [attestation |-> "client_signed_declaration_v1"]
                   [] OTHER -> [abstention |-> "missing_evidence_binding"],
     evidence_refs |-> IF basis = "abstained" THEN <<>> ELSE <<EvidenceRef(unsigned, claim_id)>>]

\* A row that claims more, or less, than the evidence shows is refused.
RowNotOverclaimed(unsigned, claim_id, row, basis) ==
    Require(row.evidence_basis = "issuer_verified" => basis = "issuer_verified", "CLAIM_NOT_VERIFIED")
CheckSupportRow(unsigned, claim_id, row, basis) ==
    Require(row.evidence_basis = "issuer_verified" => basis = "issuer_verified", "CLAIM_NOT_VERIFIED")
    && Require(row.evidence_basis = basis, "CLAIM_SUPPORT_ROW_MISMATCH")
    && Require(row = SupportRow(unsigned, claim_id, basis), "CLAIM_SUPPORT_ROW_MISMATCH")
    && Require(basis # "abstained" => EvidenceRef(unsigned, claim_id)[2] # ABSENT,
               "CLAIM_SUPPORT_ROW_MISMATCH")
CheckSupportRows(unsigned, rows, bases) ==
    Require(unsigned.claim_support_rows_digest = RoleDigest("claim_support_rows", rows),
            "CLAIM_SUPPORT_ROW_MISMATCH")
    && ForEach([i \in DOMAIN ClaimIds |->
                   CheckSupportRow(unsigned, ClaimIds[i], rows[i], bases[ClaimIds[i]])])

CheckManifestSignature(unsigned, sig, issuer) ==
    Require(sig.unsigned_manifest_digest = ManifestDigest(unsigned),
            "UNSIGNED_MANIFEST_DIGEST_MISMATCH")
    && Require(sig.algorithm = unsigned.issuer_signature_algorithm, "ISSUER_SIGNATURE_INVALID")
    && Require(/\ sig.issuer_key_ref = unsigned.issuer_key_ref
               /\ sig.trust_ring_ref = unsigned.trust_ring_ref
               /\ sig.issuer_key_ref = issuer.key_ref /\ sig.trust_ring_ref = issuer.trust_ring_ref,
               "KEY_RING_MISMATCH")
    && Translate(V0!VerifySignature(issuer.public_key, sig.algorithm, DatasetMaterial(unsigned),
                                    sig.signature),
                 "ISSUER_SIGNATURE_INVALID")
-----------------------------------------------------------------------------
(* verify_dataset_record_certificate *)

\* The members of a bundle, of its signature and of the envelope of a plan.
BundleOf(b) ==
    [composition |-> b.composition, leakage_report |-> b.leakage_report,
     leaf_generation_attestation |-> b.leaf_generation_attestation, limitations |-> b.limitations,
     preregistration_envelope |-> b.preregistration_envelope,
     efficiency_report |-> b.efficiency_report, claim_support_rows |-> b.claim_support_rows,
     unsigned_manifest |-> b.unsigned_manifest, integers |-> b.integers, signature |-> b.signature]
DatasetSignatureOf(sig) ==
    [issuer_key_ref |-> sig.issuer_key_ref, trust_ring_ref |-> sig.trust_ring_ref,
     algorithm |-> sig.algorithm, unsigned_manifest_digest |-> sig.unsigned_manifest_digest,
     signature |-> sig.signature]
PreregEnvelopeOf(e) == [preregistration |-> e.preregistration, signature |-> e.signature]

\* An object in which the member is required.
HasMember(doc, field) == doc = [f \in DOMAIN doc |-> doc[f]] /\ field \in DOMAIN doc

\* additionalProperties is false in every document, and each has its digest;
\* the one of an attestation is not null, as it is where there is none.
ClosedDocuments(b) ==
    /\ b = BundleOf(b) /\ b.signature = DatasetSignatureOf(b.signature)
    /\ b.preregistration_envelope = PreregEnvelopeOf(b.preregistration_envelope)
    /\ HasMember(b.composition, "composition_digest")
    /\ HasMember(b.leakage_report, "leakage_report_digest")
    /\ HasMember(b.limitations, "limitations_digest")
    /\ HasMember(b.efficiency_report, "efficiency_report_digest")
    /\ HasMember(b.preregistration_envelope.preregistration, "prereg_digest")
    /\ b.leaf_generation_attestation # ABSENT =>
          /\ HasMember(b.leaf_generation_attestation, "attestation_digest")
          /\ b.leaf_generation_attestation.attestation_digest # ABSENT

\* _validate_schema: what it adds to the shape of the documents.
DatasetSchemaValid(b) ==
    /\ ClosedDocuments(b)
    /\ \A d \in Range(b.leakage_report.leaf_list_digests) : d.leaf_count <= MAX_LEAF_LIST
    /\ b.unsigned_manifest.identity.item_count >= 1
    /\ [i \in DOMAIN b.claim_support_rows |-> b.claim_support_rows[i].claim_id] = ClaimIds
CheckDatasetIntegers(b) == Require(b.integers = "int", "STRICT_INTEGER")

CheckBindings(b, ctx, process, lists) ==
    LET unsigned == b.unsigned_manifest
        identity == unsigned.identity
    IN  CheckScopeBinding(unsigned, process.unsigned_manifest, ctx)
        && CheckProcessBinding(unsigned, process)
        && CheckDatasetCommitment(unsigned, process, ctx)
        && CheckIdentity(identity, ctx)
        && Require(identity.dataset_ref = ExpectedDatasetRef(identity), "REF_NOT_DERIVED")
        && CheckLeafListInput(identity, lists)
        && CheckDerivedRefs(identity, lists, b.leaf_generation_attestation)

CheckComposition(b, lists) ==
    LET unsigned == b.unsigned_manifest
        identity == unsigned.identity
    IN  Require(unsigned.taxonomy = Taxonomy, "TAXONOMY_DIGEST_MISMATCH")
        && Require(unsigned.method_registry = MethodRegistry, "METHOD_REGISTRY_DIGEST_MISMATCH")
        && CheckCompositionDigest(unsigned, b.composition)
        && CheckDeclaredPartition(identity, b.composition)
        && CheckVocabulary(b.composition)
        && CheckDs2(identity, b.composition, lists)

CheckLeakageReport(b, ctx, lists) ==
    LET unsigned == b.unsigned_manifest
        identity == unsigned.identity
        report == b.leakage_report
    IN  Require(identity.leakage_scope_ref = ctx.expected_leakage_scope_ref,
                "LEAKAGE_SCOPE_MISMATCH")
        && CheckLeakageDigest(unsigned, report)
        && CheckLeakageBasisCoupling(report)
        && CheckLeakageScope(identity, report, lists)
        && CheckCorpusRefDescriptors(identity, report, b.leaf_generation_attestation)
        && Require(b.composition.taxonomy = unsigned.taxonomy, "TAXONOMY_DIGEST_MISMATCH")
        && Require(report.method_registry = unsigned.method_registry,
                   "METHOD_REGISTRY_DIGEST_MISMATCH")

CheckCorpora(b, ctx, lists) ==
    LET identity == b.unsigned_manifest.identity
        report == b.leakage_report
    IN  CheckLeafListDigests(identity, report, lists)
        && CheckAttestation(b.unsigned_manifest, identity, report, b.leaf_generation_attestation, lists)
        && CheckOverlap(identity, report, lists)
        && CheckDs3(report, lists, ctx)

CheckClaims(b, ctx, lists) ==
    CheckComposition(b, lists) && CheckLeakageReport(b, ctx, lists) && CheckCorpora(b, ctx, lists)

CheckPlan(b, ctx, process) ==
    LET unsigned == b.unsigned_manifest
        plan == b.preregistration_envelope.preregistration
    IN  CheckPreregDigest(unsigned, plan)
        && CheckPreregSignature(unsigned, b.preregistration_envelope, process.issuer)
        && CheckPreregCoverage(plan)
        && CheckAppliedPolicy(plan, b.efficiency_report)
        && CheckContainment(plan, b.efficiency_report, b.leakage_report)
        && CheckOrdering(unsigned, plan, process.receipts)
        && CheckEvidenceGrade(unsigned, plan, ctx)

CheckEfficiency(b) ==
    LET identity == b.unsigned_manifest.identity
        report == b.efficiency_report
        plan == b.preregistration_envelope.preregistration
    IN  CheckEfficiencyDigest(b.unsigned_manifest, report)
        && ForEach([i \in DOMAIN Estimates |-> CheckEstimateShape(report[Estimates[i]])])
        && CheckInformationRange(report, plan, identity)
        && CheckInertFraction(identity, report)
        && CheckDecisiveSubset(identity, report)
        && CheckCostAndLatency(report)
        && CheckDs4Method(plan, b.leakage_report)

\* filed: the process records of the issuer, see VerifyProcess.
VerifyDatasetRecord(b, ctx, process, lists, filed) ==
    Require(DatasetSchemaValid(b), "SCHEMA")
    && CheckDatasetIntegers(b)
    && Require(b.unsigned_manifest.coverage = ManifestCoverage, "SCHEMA")
    && VerifyProcess(process, ctx, filed)
    && CheckBindings(b, ctx, process, lists)
    && CheckClaims(b, ctx, lists)
    && CheckLimitationsDigest(b.unsigned_manifest, b.limitations)
    && CheckDerivableLimitations(b.composition, b.limitations)
    && CheckLimitationBasis(b.limitations)
    && CheckPlan(b, ctx, process)
    && CheckEfficiency(b)
    && Require(b.unsigned_manifest.non_claims = NonClaimsCanonical, "NON_CLAIMS_MISMATCH")
    && CheckSupportRows(b.unsigned_manifest, b.claim_support_rows, ClaimBases(b, ctx, lists))
    && CheckManifestSignature(b.unsigned_manifest, b.signature, process.issuer)

\* The claims that the result lists as verified.
ClaimsVerified(b, ctx, lists) ==
    {c \in Range(ClaimIds) : ClaimBases(b, ctx, lists)[c] = "issuer_verified"}
=============================================================================
