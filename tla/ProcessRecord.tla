--------------------------- MODULE ProcessRecord ---------------------------
(***************************************************************************)
(* certification/process_record_verifier.py: what a Process Record v1      *)
(* bundle holds and the checks of verify_process_record_certificate, in    *)
(* the order in which they are made.                                       *)
(*                                                                         *)
(* Digests and signatures are those of CertificateV0. Whether the integers *)
(* of a member were decoded as integers or as floats is a mark beside it:  *)
(* neither Python's equality nor fp2 tells 1.0 from 1. Times are in units  *)
(* of which TRUST_MAX_AGE go into the 86400 seconds of the code;           *)
(* registered values, rendered text and the policy documents shipped with  *)
(* the package are opaque. The byte ceiling of a receipt, which no receipt *)
(* of the schema can reach, is left out.                                   *)
(***************************************************************************)
EXTENDS CertificateDocuments, FiniteSets

CONSTANTS MAX_STREAM_ITEMS,    \* receipts of one stream
          MAX_TOTAL_RECEIPTS,  \* receipts of a bundle
          MAX_STATUS_ENTRIES,  \* entries of each list of a trust-status snapshot
          TRUST_MAX_AGE        \* _TRUST_MAX_AGE_SECONDS

ExpectedSteps == <<"prepare", "evaluate", "aggregate", "select", "finalize">>
Streams == <<"decision_stream", "receipt_event_stream", "transition_stream">>
CapturePolicy == "asap.v1"
ProcessCoverage == "all_process_manifest_members"
-----------------------------------------------------------------------------
(* Digests, each of a document without its own digest *)

ReceiptDigest(r) == [process_receipt |-> [r EXCEPT !.receipt_digest = ABSENT]]
ReceiptBundleDigest(rs) == [receipt_bundle |-> [rs EXCEPT !.receipt_bundle_digest = ABSENT]]
ReportDigest(report) == [process_report |-> [report EXCEPT !.report_digest = ABSENT]]
AssertionDigest(a) == [process_assertion |-> [a EXCEPT !.assertion_digest = ABSENT]]
SupportRowsDigest(rows) == [process_claim_support_rows |-> rows]
UnsignedDigest(u) == [process_unsigned_manifest |-> u]
SnapshotDigest(snapshot) == [trust_status |-> snapshot]

\* _claim_material_digest.
ProcessClaimDigest(assertion) ==
    [process_claim_material |-> <<"PROC1", assertion.rendered_text, AssertionDigest(assertion)>>]

\* What the issuer and the trust anchor sign.
ProcessMaterial(unsigned) == [process_issuer_signature |-> unsigned]
SnapshotMaterial(snapshot) == [trust_status_snapshot |-> snapshot]
-----------------------------------------------------------------------------
(* Receipts and the report derived from them *)

\* The receipts of the streams in the order of _STREAM_IDS.
Flattened(rs) == rs[Streams[1]] \o rs[Streams[2]] \o rs[Streams[3]]

SeqGrowsAcross(rs, k, i) ==
    \A j \in 1..k : \A n \in DOMAIN rs[Streams[j]] :
        (j < k \/ n < i) => rs[Streams[j]][n].seq < rs[Streams[k]][i].seq
\* seq grows within a stream; each stream counts for itself.
SeqGrows(rs, k, i) == i > 1 => rs[Streams[k]][i].seq > rs[Streams[k]][i - 1].seq

CheckStream(rs, k, project, session) ==
    LET stream == rs[Streams[k]]
        earlier == UNION {Range(rs[Streams[j]]) : j \in 1..(k - 1)}
        Check(i) ==
            LET r == stream[i]
                seen == earlier \cup {stream[j] : j \in 1..(i - 1)}
            IN  Require(r.stream_id = Streams[k], "RECEIPT_STREAM_MISMATCH")
                && Require(r.project_ref = project /\ r.build_session_ref = session,
                           "SCOPE_MISMATCH")
                && Require(SeqGrows(rs, k, i), "RECEIPT_ORDER")
                && Require(\A x \in seen : /\ x.receipt_ref # r.receipt_ref
                                           /\ x.receipt_digest # r.receipt_digest,
                           "RECEIPT_DUPLICATE")
                && Require(ReceiptDigest(r) = r.receipt_digest, "RECEIPT_DIGEST_MISMATCH")
    IN  Require(Len(stream) <= MAX_STREAM_ITEMS, "RECEIPT_LIMIT_EXCEEDED")
        && ForEach([i \in DOMAIN stream |-> Check(i)])

CheckReceipts(rs, project, session) ==
    ForEach([k \in DOMAIN Streams |-> CheckStream(rs, k, project, session)])
    && Require(Len(Flattened(rs)) <= MAX_TOTAL_RECEIPTS, "RECEIPT_LIMIT_EXCEEDED")

\* _compute_stream_indexes, for one stream.
StreamIndex(stream) ==
    [sequence_values |-> [i \in DOMAIN stream |-> stream[i].seq],
     receipt_digests |-> [i \in DOMAIN stream |-> stream[i].receipt_digest],
     first_seq |-> IF stream = <<>> THEN ABSENT ELSE stream[1].seq,
     last_seq |-> IF stream = <<>> THEN ABSENT ELSE stream[Len(stream)].seq,
     receipt_count |-> Len(stream)]
Indexes(rs) == [k \in DOMAIN Streams |-> StreamIndex(rs[Streams[k]])]

\* The receipt a step is reported by: the last of that step.
SelectedFirst(receipts, step) ==
    receipts[CHOOSE i \in DOMAIN receipts :
                /\ receipts[i].step_id = step
                /\ \A j \in DOMAIN receipts : receipts[j].step_id = step => i <= j]
Selected(receipts, step) ==
    receipts[CHOOSE i \in DOMAIN receipts :
                /\ receipts[i].step_id = step
                /\ \A j \in DOMAIN receipts : receipts[j].step_id = step => j <= i]

ReportRow(receipts, step) ==
    IF \A i \in DOMAIN receipts : receipts[i].step_id # step
    THEN [step_id |-> step, status |-> "missing", observation_kind |-> ABSENT,
          receipt_digest |-> ABSENT, registered_values |-> ABSENT]
    ELSE LET r == Selected(receipts, step)
         IN  [step_id |-> step, status |-> "present", observation_kind |-> r.observation_basis,
              receipt_digest |-> r.receipt_digest, registered_values |-> r.registered_values]

ObservedRows(rows, basis) == Cardinality({i \in DOMAIN rows : rows[i].observation_kind = basis})

\* _derive_report.
DeriveReport(rs, project, session) ==
    LET rows == [i \in DOMAIN ExpectedSteps |-> ReportRow(Flattened(rs), ExpectedSteps[i])]
        present == Cardinality({i \in DOMAIN rows : rows[i].status = "present"})
        report == [project_ref |-> project, build_session_ref |-> session,
                   capture_policy |-> CapturePolicy, rows |-> rows,
                   present_count |-> present, missing_count |-> Len(ExpectedSteps) - present,
                   backend_observed_present_count |->
                       ObservedRows(rows, "backend_observed"),
                   client_attested_present_count |->
                       ObservedRows(rows, "client_attested"),
                   report_digest |-> ABSENT]
    IN  [report EXCEPT !.report_digest = ReportDigest(report)]
-----------------------------------------------------------------------------
(* The claim and the unsigned manifest *)

CheckAssertion(assertion) ==
    Require(assertion.capture_policy = CapturePolicy, "CAPTURE_POLICY_MISMATCH")
    && Require(AssertionDigest(assertion) = assertion.assertion_digest,
               "ASSERTION_DIGEST_MISMATCH")

SupportRow(rs, report, assertion) ==
    [claim_id |-> "PROC1", evidence_basis |-> "issuer_verified",
     assertion_digest |-> AssertionDigest(assertion),
     process_report_digest |-> report.report_digest,
     receipt_bundle_digest |-> ReceiptBundleDigest(rs), verifier_result |-> "pass",
     claim_material_digest |-> ProcessClaimDigest(assertion)]

CheckSupportRow(row, rs, report, assertion) ==
    Require(row.evidence_basis = "issuer_verified", "CLAIM_NOT_VERIFIED")
    && Require(row = SupportRow(rs, report, assertion), "CLAIM_SUPPORT_ROW_MISMATCH")

\* The expected_unsigned of _verify, over the streams, the report and the
\* documents of a bundle.
ExpectedUnsigned(b, report, project, session, commitments) ==
    LET issuer == b.verification_materials_v0.issuer
    IN  [base_unsigned_manifest_digest |-> b.base_certificate_v0.manifest_digest,
         capture_policy |-> CapturePolicy, project_ref |-> project, build_session_ref |-> session,
         commitments |-> commitments, expected_steps |-> ExpectedSteps,
         streams |-> Indexes(b.receipts), assertion_digest |-> AssertionDigest(b.assertion),
         process_report_digest |-> report.report_digest,
         receipt_bundle_digest |-> ReceiptBundleDigest(b.receipts),
         client_evidence_manifest_digest |->
             b.base_certificate_v0.audit_report.client_evidence_manifest_root,
         process_claim_support_rows_digest |-> SupportRowsDigest(b.claim_support_rows),
         trust_ring_ref |-> issuer.trust_ring_ref, issuer_key_ref |-> issuer.key_ref,
         issuer_signature_algorithm |-> issuer.algorithm, coverage |-> ProcessCoverage]

\* The issuer's signature on the manifest, under the key of the v0 materials.
CheckProcessSignature(b) ==
    LET issuer == b.verification_materials_v0.issuer
        sig == b.signature
    IN  Require(sig.unsigned_manifest_digest = UnsignedDigest(b.unsigned_manifest),
                "UNSIGNED_MANIFEST_DIGEST_MISMATCH")
        && Require(/\ sig.issuer_key_ref = issuer.key_ref
                   /\ sig.trust_ring_ref = issuer.trust_ring_ref
                   /\ sig.algorithm = issuer.algorithm, "KEY_RING_MISMATCH")
        && Translate(VerifySignature(issuer.public_key, sig.algorithm,
                                     ProcessMaterial(b.unsigned_manifest), sig.signature),
                     "ISSUER_SIGNATURE_INVALID")
-----------------------------------------------------------------------------
(* The trust-status snapshot *)

KeyOf(entry) == <<entry.key_ref, entry.trust_ring_ref>>
CertificateOf(entry) == entry.certificate_ref
\* _check_trust_status_no_duplicates.
NoDuplicates(snapshot) ==
    LET keys == snapshot.key_status
        certificates == snapshot.certificate_status
    IN  /\ IsInjective([i \in DOMAIN keys |-> KeyOf(keys[i])])
        /\ IsInjective([i \in DOMAIN certificates |-> CertificateOf(certificates[i])])

\* Freshness under a skew of zero.
FreshOneLate(effective_time, verification_time) ==
    effective_time <= verification_time /\ verification_time - effective_time <= TRUST_MAX_AGE + 1
Fresh(effective_time, verification_time) ==
    effective_time <= verification_time /\ verification_time - effective_time <= TRUST_MAX_AGE

VerifyTrustStatus(envelope, ctx) ==
    LET snapshot == envelope.snapshot
        sig == envelope.signature
        anchor == ctx.trust_anchor
    IN  Require(envelope # ABSENT, "REVOCATION_STATUS_UNAVAILABLE")
        && Require(snapshot.max_age_seconds = TRUST_MAX_AGE, "TRUST_POLICY_MISMATCH")
        && Require(/\ Len(snapshot.key_status) \in 1..MAX_STATUS_ENTRIES
                   /\ Len(snapshot.certificate_status) \in 1..MAX_STATUS_ENTRIES,
                   "TRUST_STATUS_SCHEMA")
        && Require(NoDuplicates(snapshot), "TRUST_STATUS_SHAPE")
        && Require(sig.snapshot_digest = SnapshotDigest(snapshot), "TRUST_STATUS_DIGEST_MISMATCH")
        && Require(/\ snapshot.trust_anchor_ref = anchor.key_ref
                   /\ sig.trust_anchor_ref = anchor.key_ref, "TRUST_ANCHOR_MISMATCH")
        && Require(/\ anchor.public_key_digest = [anchor_spki |-> anchor.public_key]
                   /\ anchor.public_key.algorithm = anchor.algorithm, "CONTEXT")
        && Translate(VerifySignature(anchor.public_key, sig.algorithm,
                                     SnapshotMaterial(snapshot), sig.signature),
                     "TRUST_STATUS_SIGNATURE_INVALID")
        && Require(Fresh(snapshot.effective_time, ctx.verification_time),
                   "REVOCATION_STATUS_UNAVAILABLE")

\* The first of the covering entries decides, a missing one refuses.
CheckEntry(entries, covering, revoked_code) ==
    Require(covering # {}, "REVOCATION_STATUS_UNAVAILABLE")
    && Require(entries[Min(covering)].status = "active", revoked_code)
CheckCertificateEntry(entries, certificate_ref) ==
    CheckEntry(entries, {i \in DOMAIN entries : CertificateOf(entries[i]) = certificate_ref},
               "CERTIFICATE_REVOKED")

\* _check_trust_status_coverage: the issuer key is known by reference and
\* trust ring, and comes before the certificate.
CheckCoverageAnyRing(snapshot, issuer, certificate_ref) ==
    LET keys == snapshot.key_status
    IN  CheckEntry(keys, {i \in DOMAIN keys : keys[i].key_ref = issuer.key_ref}, "KEY_REVOKED")
        && CheckCertificateEntry(snapshot.certificate_status, certificate_ref)
CheckCoverage(snapshot, issuer, certificate_ref) ==
    LET keys == snapshot.key_status
        covering == {i \in DOMAIN keys : KeyOf(keys[i]) = <<issuer.key_ref, issuer.trust_ring_ref>>}
    IN  CheckEntry(keys, covering, "KEY_REVOKED")
        && CheckCertificateEntry(snapshot.certificate_status, certificate_ref)
-----------------------------------------------------------------------------
(* verify_process_record_certificate *)

\* _verify_base_certificate: always without a status.
VerifyBase(b, ctx) ==
    LET bare == [wrapped |-> FALSE, signed_certificate |-> b.base_certificate_v0]
    IN  Translate(VerifyWithMaterials(bare, b.verification_materials_v0,
                                      ctx.expected_materials_digest, ctx.certificate_ref,
                                      ctx.base_context, FALSE),
                  "BASE_CERTIFICATE_INVALID")

\* _validate_schema: closed members and exactly one support row.
BundleOf(b) ==
    [base_certificate_v0 |-> b.base_certificate_v0,
     verification_materials_v0 |-> b.verification_materials_v0, receipts |-> b.receipts,
     report |-> b.report, assertion |-> b.assertion, claim_support_rows |-> b.claim_support_rows,
     unsigned_manifest |-> b.unsigned_manifest, signature |-> b.signature,
     integers |-> b.integers]
ProcessSignatureOf(sig) ==
    [issuer_key_ref |-> sig.issuer_key_ref, trust_ring_ref |-> sig.trust_ring_ref,
     algorithm |-> sig.algorithm, unsigned_manifest_digest |-> sig.unsigned_manifest_digest,
     signature |-> sig.signature]
ReceiptsOf(rs) ==
    [decision_stream |-> rs.decision_stream, receipt_event_stream |-> rs.receipt_event_stream,
     transition_stream |-> rs.transition_stream, receipt_bundle_digest |-> rs.receipt_bundle_digest]
AssertionOf(a) ==
    [capture_policy |-> a.capture_policy, rendered_text |-> a.rendered_text,
     assertion_digest |-> a.assertion_digest]
ProcessSchemaValid(b) ==
    /\ b = BundleOf(b)
    /\ b.signature = ProcessSignatureOf(b.signature)
    /\ b.receipts = ReceiptsOf(b.receipts)
    /\ b.assertion = AssertionOf(b.assertion)
    /\ b.claim_support_rows = <<b.claim_support_rows[1]>>

\* The members that hold integers, and those of them that
\* _check_strict_integers walks: all but the base certificate, the tiers of
\* whose claims no verifier tells from the floats they are equal to.
WalkedMembers == {"unsigned_manifest", "receipts", "report"}
IntegerMembers == WalkedMembers \cup {"base_certificate_v0"}

\* _check_strict_integers.
SkipStrictIntegers(b) == OK
CheckStrictIntegers(b) ==
    Require(\A member \in WalkedMembers : b.integers[member] = "int", "STRICT_INTEGER")

CheckRecord(b, ctx) ==
    LET project == ctx.expected_project_ref
        session == ctx.expected_build_session_ref
        cert == b.base_certificate_v0
        derived == DeriveReport(b.receipts, project, session)
    IN  Require(/\ cert.subject.project_ref = project
                /\ cert.subject.build_session_ref = session, "SCOPE_MISMATCH")
        && Require(b.unsigned_manifest.base_unsigned_manifest_digest = cert.manifest_digest,
                   "BASE_MANIFEST_DIGEST_MISMATCH")
        && CheckReceipts(b.receipts, project, session)
        && Require(b.unsigned_manifest.streams = Indexes(b.receipts), "STREAM_INDEX_MISMATCH")
        && Require(b.report = derived, "REPORT_MISMATCH")
        && CheckAssertion(b.assertion)
        && Require(b.receipts.receipt_bundle_digest = ReceiptBundleDigest(b.receipts),
                   "RECEIPT_BUNDLE_DIGEST_MISMATCH")
        && CheckSupportRow(b.claim_support_rows[1], b.receipts, derived, b.assertion)
        && Require(b.unsigned_manifest.commitments = ctx.expected_commitments,
                   "COMMITMENT_REF_MISMATCH")
        && Require(b.unsigned_manifest
                       = ExpectedUnsigned(b, derived, project, session, ctx.expected_commitments),
                   "UNSIGNED_MANIFEST_MISMATCH")

CheckStatus(b, ctx, envelope) ==
    IF ctx.allow_unchecked_base_status THEN OK
    ELSE VerifyTrustStatus(envelope, ctx)
         && CheckCoverage(envelope.snapshot, b.verification_materials_v0.issuer,
                          ctx.certificate_ref)

VerifyProcessRecord(b, ctx, envelope) ==
    Require((ctx.trust_anchor = ABSENT) = ctx.allow_unchecked_base_status, "CONTEXT")
    && Require(ctx.allow_unchecked_base_status => envelope = ABSENT, "CONTEXT")
    && Require(ProcessSchemaValid(b), "SCHEMA")
    && CheckStrictIntegers(b)
    && VerifyBase(b, ctx)
    && CheckRecord(b, ctx)
    && CheckProcessSignature(b)
    && CheckStatus(b, ctx, envelope)
=============================================================================
