--------------------------- MODULE CertificateV0 ---------------------------
(***************************************************************************)
(* certification/relying_party_verifier.py: what an Agent Certificate v0   *)
(* holds and the two sequences of checks run on it, the client's           *)
(* prepare_client_co_attestation and the relying party's verify_certificate*)
(* and verify_certificate_with_materials.                                  *)
(*                                                                         *)
(* A digest is a record of what was digested under a field named for its   *)
(* domain, so digests collide only when their preimages are equal. A       *)
(* signature is a record of the key, the signed material and the encoding. *)
(* The shape of the documents (types, closed members, patterns) is the     *)
(* schema's; SchemaValid keeps what relates two parts of a document. Title,*)
(* version and scope lines are constants of the schema and left out.       *)
(***************************************************************************)
EXTENDS Checks, FiniteSets, SequencesExt

CONSTANTS ABSENT,       \* an optional member that is not there, or None
          ZERO_DIGEST   \* the all-zero digest

Algorithms == {"ed25519", "ecdsa_p256_sha256"}
AuditRows == <<"B1", "REG1", "C1", "D2", "F1", "G1", "G3">>
Coverage == "all_manifest_members"     \* _COVERAGE
NonClaims == "registered_non_claims"   \* _NON_CLAIMS
ChainSchemaVersion == "traigent.cert_build_ledger.v0"
-----------------------------------------------------------------------------
(* Digests, key references and signatures *)

ManifestDigest(m) == [unsigned_manifest |-> m]
AuditDigest(a) == [audit_report |-> a]
ProjectionDigest(p) == [client_certificate |-> p]
ClaimMaterialDigest(m) == [claim_material |-> m]

\* _compute_seal_digest: of the seal without its own digest.
SealDigest(seal) ==
    [seal_statement |-> <<seal.seal_ref, seal.chain_schema_version,
                          seal.build_session_ref, seal.expected_stream_projection>>]

\* derive_client_key_ref: scoped to the project, the algorithm and the key.
DeriveClientKeyRef(project, algorithm, key) ==
    [client_key_ref |-> <<project, algorithm, key>>]
CanDerive(algorithm, key) ==
    algorithm \in Algorithms /\ key # ABSENT /\ key.algorithm = algorithm

\* _issuer_material and _client_material.
IssuerMaterial(manifest) == [issuer_signature |-> manifest]
ClientMaterial(projection) == [client_signature |-> projection]

Signature(key, material, form) == [key |-> key, material |-> material, form |-> form]

\* _decode_signature and _verify_signature; "form" is "canonical", "high_s"
\* or "malformed".
VerifySignature(key, algorithm, material, sig) ==
    Require(algorithm \in Algorithms, "ALGORITHM")
    && Require(sig.form # "malformed", "SIGNATURE_BASE64")
    && Require(key.algorithm = algorithm, "KEY_ALGORITHM")
    && Require(algorithm = "ecdsa_p256_sha256" => sig.form # "high_s", "SIGNATURE_HIGH_S")
    && Require(sig.key = key /\ sig.material = material, "SIGNATURE_INVALID")
-----------------------------------------------------------------------------
(* Projections of a certificate *)

IsAuditRef(ref) == ref.evidence_kind = "audit_report_digest"

AuditRef(digest) == [evidence_kind |-> "audit_report_digest", evidence_digest |-> digest]

\* The references of a claim at some places, in their order.
RefsAt(claim, places) ==
    [k \in 1..Cardinality(places) |->
        claim.evidence_refs[CHOOSE i \in places : Cardinality({j \in places : j <= i}) = k]]
AuditRefs(claim) ==
    RefsAt(claim, {i \in DOMAIN claim.evidence_refs : IsAuditRef(claim.evidence_refs[i])})
OwnRefs(claim) ==
    RefsAt(claim, {i \in DOMAIN claim.evidence_refs : ~IsAuditRef(claim.evidence_refs[i])})

\* _claim_material: the claim without its reference to the audit report,
\* which itself holds the digest of this.
ClaimMaterial(claim) ==
    [claim_id |-> claim.claim_id, tier |-> claim.tier, params |-> claim.params,
     verifier |-> claim.verifier, evidence_refs |-> OwnRefs(claim),
     rendered_text |-> claim.rendered_text]

Tiers(claims) ==
    [i \in DOMAIN claims |-> [claim_id |-> claims[i].claim_id, tier |-> claims[i].tier]]

\* The evidence projection of _check_projections, a list written as its head
\* and its tail: the reference to the audit report, then every other reference
\* of the claims at its first occurrence.
ExpectedEvidence(claims, audit_digest) ==
    LET AddNew(seen, ref) == IF ref \in Range(seen) THEN seen ELSE Append(seen, ref)
        refs == FlattenSeq([i \in DOMAIN claims |-> claims[i].evidence_refs])
    IN  <<AuditRef(audit_digest),
          FoldLeft(AddNew, <<>>, SelectSeq(refs, LAMBDA r : r # AuditRef(audit_digest)))>>

\* _render_g1_text and the sentence of _check_printed_b1_claim.
RenderG1(params) ==
    <<"G1", params.manifest_root_digest, params.commitment_scheme, params.client_attestor_version>>
RenderB1(params) == <<"B1", params.seal_ref, params.seal_statement_digest>>

\* _prepare_client_projection: the document without its co-attestation.
Projection(cert) == [cert EXCEPT !.co_attestation = ABSENT]

G1Claims(claims) == SelectSeq(claims, LAMBDA c : c.claim_id = "G1")
HasClaim(claims, id) == \E i \in DOMAIN claims : claims[i].claim_id = id
ClaimWithId(claims, id) == claims[CHOOSE i \in DOMAIN claims : claims[i].claim_id = id]

RequiresClient(claims) ==
    \E i \in DOMAIN claims : claims[i].claim_id = "G1" \/ claims[i].tier = 1

\* The members of the documents, which the schema closes.
EnvelopeOf(c) ==
    [subject |-> c.subject, semantics |-> c.semantics,
     disclosure_profile |-> c.disclosure_profile,
     ledger_seal_projection |-> c.ledger_seal_projection, claims |-> c.claims,
     non_claims |-> c.non_claims, manifest |-> c.manifest, manifest_digest |-> c.manifest_digest,
     coverage |-> c.coverage, issuer_signature |-> c.issuer_signature,
     co_attestation |-> c.co_attestation, audit_report |-> c.audit_report]
IssuerSignatureOf(i) ==
    [issuer_key_ref |-> i.issuer_key_ref, algorithm |-> i.algorithm,
     trust_ring_ref |-> i.trust_ring_ref, signed_payload |-> i.signed_payload,
     signature |-> i.signature]
CoAttestationOf(co) ==
    [client_key_ref |-> co.client_key_ref, algorithm |-> co.algorithm, nonce |-> co.nonce,
     signed_manifest_digest |-> co.signed_manifest_digest, signature |-> co.signature]

ClosedMembers(c) ==
    /\ c = EnvelopeOf(c)
    /\ c.issuer_signature = IssuerSignatureOf(c.issuer_signature)
    /\ c.co_attestation # ABSENT => c.co_attestation = CoAttestationOf(c.co_attestation)

\* agent_certificate_v0_schema.json: no other member, and a co-attestation
\* exactly when a tier-1 or G1 claim is printed.
SchemaValid(cert) ==
    /\ ClosedMembers(cert)
    /\ (\E i \in DOMAIN cert.claims : cert.claims[i].tier = 1) => cert.co_attestation # ABSENT
    /\ ~RequiresClient(cert.claims) => cert.co_attestation = ABSENT
-----------------------------------------------------------------------------
(* Checks both sides run on the content of a document *)

CheckStreams(seal) ==
    Require(seal.chain_schema_version = ChainSchemaVersion, "LEDGER_PROFILE")
    && Require(seal.seal_statement_digest = SealDigest(seal), "SEAL_DIGEST")
    && Require(seal.expected_stream_projection.sealed, "LEDGER_STREAM")

CheckProjections(cert, audit_digest) ==
    LET m == cert.manifest
    IN  Require(m.subject = cert.subject, "SUBJECT_BINDING")
        && Require(m.seal = cert.ledger_seal_projection, "SEAL_BINDING")
        && Require(m.claims = cert.claims, "CLAIMS_BINDING")
        && Require(m.non_claims = cert.non_claims, "NON_CLAIMS_BINDING")
        && Require(m.disclosure_profile = cert.disclosure_profile, "DISCLOSURE_PROFILE_BINDING")
        && Require(cert.subject.build_session_ref
                       = cert.ledger_seal_projection.build_session_ref, "SESSION_REF")
        && Require(cert.non_claims = NonClaims, "NON_CLAIMS")
        && Require(m.tiers = Tiers(cert.claims), "TIERS")
        && Require(m.evidence_digests = ExpectedEvidence(cert.claims, audit_digest),
                   "EVIDENCE_PROJECTION")

CheckPrintedG1(claim, audit) ==
    LET root == claim.params.manifest_root_digest
    IN  Require(claim.tier = 1, "CLAIM_STATUS")
        && Require(root # ZERO_DIGEST /\ root = audit.client_evidence_manifest_root, "CLIENT_ROOT")
        && Require(OwnRefs(claim) = <<[evidence_kind |-> "client_commitment_digest",
                                       evidence_digest |-> root]>>, "CLIENT_ROOT")
        && Require(claim.rendered_text = RenderG1(claim.params), "CLAIM_RENDERING")

CheckPrintedB1(cert, claim) ==
    LET seal == cert.audit_report.ledger_seal_statement_digest
    IN  Require(claim.tier = 3, "CLAIM_STATUS")
        && Require(/\ claim.params.seal_statement_digest = seal
                   /\ claim.params.seal_ref = cert.ledger_seal_projection.seal_ref, "SEAL_BINDING")
        && Require(OwnRefs(claim) = <<[evidence_kind |-> "seal_statement",
                                       evidence_digest |-> seal]>>, "SEAL_BINDING")
        && Require(claim.rendered_text = RenderB1(claim.params), "CLAIM_RENDERING")

CheckPrintedClaims(cert, audit_digest) ==
    LET claims == cert.claims
        Check(claim) ==
            Require(AuditRefs(claim) = <<AuditRef(audit_digest)>>,
                    "AUDIT_BINDING")
            && Require(claim.verifier.result = "PASS", "CLAIM_STATUS")
            && (IF claim.claim_id = "G1" THEN CheckPrintedG1(claim, cert.audit_report)
                ELSE CheckPrintedB1(cert, claim))
    IN  Require(/\ \A i, j \in DOMAIN claims : claims[i].claim_id = claims[j].claim_id => i = j
                /\ \A i \in DOMAIN claims : claims[i].claim_id \in {"B1", "G1"}, "CLAIM_ID")
        && ForEach([i \in DOMAIN claims |-> Check(claims[i])])

AbstentionCode(id) ==
    IF id = "REG1" THEN "unregistered_claim_id" ELSE "verifier_not_run_or_not_pass"

CheckAuditRow(row, claims) ==
    IF ~HasClaim(claims, row.claim_id)
    THEN Require(/\ row.evidence_basis = "abstained"
                 /\ row.abstention_code = AbstentionCode(row.claim_id), "AUDIT_STATUS")
    ELSE LET claim == ClaimWithId(claims, row.claim_id)
         IN  Require(/\ row.evidence_basis =
                           IF row.claim_id = "B1" THEN "issuer_verified" ELSE "client_declared"
                     /\ row.verifier = claim.verifier, "AUDIT_STATUS")
             && Require(row.claim_material_digest = ClaimMaterialDigest(ClaimMaterial(claim)),
                        "CLAIM_MATERIAL")

CheckAuditRows(audit, claims) ==
    LET rows == audit.claim_support_rows
    IN  Require([i \in DOMAIN rows |-> rows[i].claim_id] = AuditRows, "AUDIT_ROWS")
        && ForEach([i \in DOMAIN rows |-> CheckAuditRow(rows[i], claims)])

CheckAuditBindings(cert) ==
    LET audit == cert.audit_report
        root == audit.client_evidence_manifest_root
    IN  Require(audit.build_session_ref = cert.subject.build_session_ref, "SESSION_REF")
        && Require(audit.ledger_seal_statement_digest
                       = cert.ledger_seal_projection.seal_statement_digest, "SEAL_DIGEST")
        && Require(audit.compiler_register_versions = cert.manifest.compiler_register_versions,
                   "COMPILER_REGISTERS")
        && Require(root = (IF HasClaim(cert.claims, "G1")
                           THEN ClaimWithId(cert.claims, "G1").params.manifest_root_digest
                           ELSE ABSENT), "CLIENT_ROOT")

CheckClaimsAndAudit(cert, audit_digest) ==
    CheckPrintedClaims(cert, audit_digest)
    && CheckAuditRows(cert.audit_report, cert.claims)
    && CheckAuditBindings(cert)
-----------------------------------------------------------------------------
(* The relying party: verify_certificate *)

\* _check_policy: pinned registers and, for each printed claim, the pinned
\* verifier and its version.
CheckPolicy(cert, policy) ==
    Require(cert.manifest.compiler_register_versions = policy.compiler_register_versions, "POLICY")
    && Require(cert.semantics = policy.compiler_register_versions.semantics, "POLICY")
    && ForEach([i \in DOMAIN cert.claims |->
          LET claim == cert.claims[i]
          IN  Require(/\ claim.claim_id \in DOMAIN policy.verifier_bindings
                      /\ <<claim.verifier.verifier_id, claim.verifier.verifier_version>>
                            = policy.verifier_bindings[claim.claim_id], "POLICY")])

\* _validated_document.
ValidatedDocument(cert, policy) ==
    LET audit_digest == AuditDigest(cert.audit_report)
    IN  Require(SchemaValid(cert), "SCHEMA")
        && Require(cert.manifest_digest = ManifestDigest(cert.manifest), "MANIFEST_DIGEST")
        && CheckPolicy(cert, policy)
        && Require(cert.coverage = Coverage, "COVERAGE")
        && Require(cert.audit_report.build_session_ref = cert.subject.build_session_ref,
                   "SESSION_REF")
        && Require(cert.audit_report.ledger_seal_statement_digest
                       = cert.ledger_seal_projection.seal_statement_digest, "SEAL_DIGEST")
        && Require(cert.semantics = cert.manifest.compiler_register_versions.semantics, "SEMANTICS")
        && Require(cert.disclosure_profile = cert.manifest.disclosure_profile, "DISCLOSURE_PROFILE")
        && CheckStreams(cert.ledger_seal_projection)
        && CheckProjections(cert, audit_digest)
        && CheckClaimsAndAudit(cert, audit_digest)

CheckClientRingContext(m, ctx) ==
    LET ring == m.key_ring_identifiers
        BoundG1(claim) ==
            claim.claim_id = "G1" =>
                /\ claim.params.build_session_ref = m.subject.build_session_ref
                /\ claim.params.client_key_ref = ring.client_key_ref
    IN  Require(/\ ctx.client_key_ref = ring.client_key_ref
                /\ ctx.client_algorithm = ring.client_signature_algorithm, "CONTEXT")
        && Require(ctx.client_public_key # ABSENT, "CLIENT_KEY_CONTEXT")
        && Require(CanDerive(ring.client_signature_algorithm, ctx.client_public_key),
                   "CLIENT_KEY_REF")
        && Require(DeriveClientKeyRef(ctx.project_ref, ring.client_signature_algorithm,
                                      ctx.client_public_key) = ring.client_key_ref,
                   "CLIENT_KEY_CONTEXT")
        && Require(\A i \in DOMAIN m.claims : BoundG1(m.claims[i]), "G1_BINDING")

RingPinned(m, ctx) ==
    LET ring == m.key_ring_identifiers
    IN  /\ ctx.issuer_key_ref = ring.issuer_key_ref
        /\ ctx.issuer_algorithm = ring.issuer_signature_algorithm
        /\ ctx.trust_ring_ref = ring.trust_ring_ref

\* The unsigned members of the issuer's signature against the signed ring.
SignatureOfRing(issuer, ring) ==
    /\ issuer.issuer_key_ref = ring.issuer_key_ref
    /\ issuer.algorithm = ring.issuer_signature_algorithm
    /\ issuer.trust_ring_ref = ring.trust_ring_ref

ContextPinnedAnySession(m, issuer, ctx) ==
    /\ ctx.nonce = m.freshness_nonce /\ ctx.project_ref = m.subject.project_ref
    /\ RingPinned(m, ctx) /\ SignatureOfRing(issuer, m.key_ring_identifiers)
ContextPinnedRingOnly(m, issuer, ctx) ==
    /\ ctx.nonce = m.freshness_nonce /\ ctx.project_ref = m.subject.project_ref
    /\ ctx.build_session_ref = m.subject.build_session_ref /\ RingPinned(m, ctx)
ContextPinned(m, issuer, ctx) ==
    /\ ctx.nonce = m.freshness_nonce
    /\ ctx.build_session_ref = m.subject.build_session_ref
    /\ ctx.project_ref = m.subject.project_ref
    /\ RingPinned(m, ctx)
    /\ SignatureOfRing(issuer, m.key_ring_identifiers)

CheckContext(cert, ctx) ==
    LET m == cert.manifest
        ring == m.key_ring_identifiers
        has_client == ring.client_key_ref # ABSENT
    IN  Require(ctx.project_ref # ABSENT, "PROJECT_CONTEXT")
        && Require(ContextPinned(m, cert.issuer_signature, ctx), "CONTEXT")
        && Require(has_client = (ring.client_signature_algorithm # ABSENT), "KEY_RING")
        && (IF has_client THEN CheckClientRingContext(m, ctx)
            ELSE Require(ctx.client_key_ref = ABSENT /\ ctx.client_algorithm = ABSENT,
                         "CLIENT_KEY_CONTEXT"))

VerifyCoAttestation(cert, ctx) ==
    LET co == cert.co_attestation
        ring == cert.manifest.key_ring_identifiers
        requires_co == RequiresClient(cert.claims)
        has_co == co # ABSENT
        projection == Projection(cert)
    IN  IF requires_co # has_co THEN (IF requires_co THEN "CO_REQUIRED" ELSE "CO_ZERO_CLAIMS")
        ELSE IF ~has_co
        THEN Require(/\ ring.client_key_ref = ABSENT /\ ring.client_signature_algorithm = ABSENT
                     /\ ctx.client_key_ref = ABSENT /\ ctx.client_algorithm = ABSENT
                     /\ ctx.client_public_key = ABSENT, "CLIENT_KEY_CONTEXT")
        ELSE Require(ctx.client_public_key # ABSENT, "CLIENT_KEY_REQUIRED")
             && Require(co.client_key_ref = ring.client_key_ref, "KEY_REF")
             && Require(/\ co.algorithm = ring.client_signature_algorithm
                        /\ co.algorithm = ctx.client_algorithm, "ALGORITHM")
             && Require(co.nonce = cert.manifest.freshness_nonce /\ co.nonce = ctx.nonce, "NONCE")
             && Require(co.signed_manifest_digest = ProjectionDigest(projection), "CO_PROJECTION")
             && Require(co.signature.form # "malformed", "SIGNATURE_BASE64")
             && Require(co.algorithm = "ecdsa_p256_sha256" => co.signature.form # "high_s",
                        "CLIENT_SIGNATURE_NON_CANONICAL")
             && VerifySignature(ctx.client_public_key, co.algorithm, ClientMaterial(projection),
                                co.signature)

\* _verify, verify_certificate.
VerifyCertificate(cert, issuer_public_key, ctx, policy) ==
    ValidatedDocument(cert, policy)
    && CheckContext(cert, ctx)
    && Require(cert.issuer_signature.signed_payload = "unsigned_manifest", "SIGNED_PAYLOAD")
    && VerifySignature(issuer_public_key, cert.issuer_signature.algorithm,
                       IssuerMaterial(cert.manifest), cert.issuer_signature.signature)
    && VerifyCoAttestation(cert, ctx)
-----------------------------------------------------------------------------
(* The relying party with discovery materials *)

MaterialsDigest(materials) ==
    [verification_materials |-> [materials EXCEPT !.materials_digest = ABSENT]]

\* _material_public_key: the key's own digest and its declared algorithm.
MaterialKey(projection) ==
    Require(/\ projection.public_key_digest = [spki |-> projection.public_key]
            /\ projection.public_key.algorithm = projection.algorithm, "MATERIALS_KEY")

\* _client_bindings_with_client, with _check_caller_client_key.
ClientBindings(cert, client, ctx) ==
    LET ring == cert.manifest.key_ring_identifiers
        co == cert.co_attestation
    IN  Require(/\ client.key_ref = ctx.client_key_ref /\ client.algorithm = ctx.client_algorithm
                /\ client.key_ref = DeriveClientKeyRef(ctx.project_ref, client.algorithm,
                                                       client.public_key)
                /\ ctx.client_public_key # ABSENT => ctx.client_public_key = client.public_key
                /\ co # ABSENT
                /\ ring.client_key_ref = client.key_ref
                /\ ring.client_signature_algorithm = client.algorithm
                /\ co.client_key_ref = client.key_ref
                /\ co.algorithm = client.algorithm, "MATERIALS_BINDING")

CheckMaterialsBindings(cert, materials, certificate_ref, ctx) ==
    LET ring == cert.manifest.key_ring_identifiers
        issuer == materials.issuer
        requires_client == RequiresClient(cert.manifest.claims) \/ cert.co_attestation # ABSENT
        client == materials.client
    IN  Require(materials.certificate_ref = certificate_ref, "CERTIFICATE_REF")
        && Require(requires_client = (client # ABSENT), "MATERIALS_BINDING")
        && Require(/\ issuer.key_ref = ctx.issuer_key_ref /\ issuer.algorithm = ctx.issuer_algorithm
                   /\ issuer.trust_ring_ref = ctx.trust_ring_ref, "MATERIALS_BINDING")
        && (IF requires_client THEN ClientBindings(cert, client, ctx)
            ELSE Require(/\ ctx.client_key_ref = ABSENT /\ ctx.client_algorithm = ABSENT
                         /\ ctx.client_public_key = ABSENT
                         /\ ring.client_key_ref = ABSENT
                         /\ ring.client_signature_algorithm = ABSENT, "MATERIALS_BINDING"))
        && Require(/\ ring.issuer_key_ref = issuer.key_ref
                   /\ ring.issuer_signature_algorithm = issuer.algorithm
                   /\ ring.trust_ring_ref = issuer.trust_ring_ref, "MATERIALS_BINDING")

\* _unwrap_retrieval_certificate with _check_wrapper_status: a wrapper is
\* checked whether or not a status is required.
UnwrapRetrieval(retrieved, certificate_ref, require_status) ==
    IF retrieved.wrapped
    THEN Require(retrieved.certificate_status = "active", "CERTIFICATE_STATUS")
         && Require(retrieved.certificate_ref = certificate_ref, "CERTIFICATE_REF")
    ELSE Require(~require_status, "CERTIFICATE_STATUS_UNKNOWN")

CheckWrapperSession(retrieved, ctx) ==
    LET cert == retrieved.signed_certificate
    IN  Require(retrieved.build_session_ref = cert.subject.build_session_ref, "SESSION_REF")
        && Require(cert.subject.project_ref = ctx.project_ref, "PROJECT_CONTEXT")
CheckWrapperBindings(retrieved, ctx) ==
    LET cert == retrieved.signed_certificate
    IN  Require(retrieved.build_session_ref = cert.subject.build_session_ref, "SESSION_REF")
        && Require(retrieved.manifest_digest = cert.manifest_digest, "MANIFEST_DIGEST")
        && Require(cert.subject.project_ref = ctx.project_ref, "PROJECT_CONTEXT")

\* verify_certificate_with_materials: the bundle supplies the keys and the
\* policy, the caller the digest of the bundle, the reference and the context.
VerifyWithMaterials(retrieved, materials, expected_digest, certificate_ref, ctx, require_status) ==
    LET cert == retrieved.signed_certificate
        client_key == IF materials.client = ABSENT THEN ABSENT ELSE materials.client.public_key
        bound_context == [ctx EXCEPT !.client_public_key = client_key]
    IN  UnwrapRetrieval(retrieved, certificate_ref, require_status)
        && Require(/\ materials.materials_digest = expected_digest
                   /\ MaterialsDigest(materials) = expected_digest, "MATERIALS_DIGEST")
        && MaterialKey(materials.issuer)
        && (IF materials.client = ABSENT THEN OK ELSE MaterialKey(materials.client))
        && CheckMaterialsBindings(cert, materials, certificate_ref, ctx)
        && VerifyCertificate(cert, materials.issuer.public_key, bound_context, materials.policy)
        && (IF retrieved.wrapped THEN CheckWrapperBindings(retrieved, ctx) ELSE OK)
-----------------------------------------------------------------------------
(* The client: prepare_client_co_attestation *)

\* The place in the projection each client-owned expectation is compared with.
ClientPins(cert, g1) ==
    LET m == cert.manifest
        ring == m.key_ring_identifiers
    IN  [project_ref |-> cert.subject.project_ref,
         build_session_ref |-> cert.subject.build_session_ref,
         session_commitment_digest |-> cert.subject.session_commitment_digest,
         nonce |-> m.freshness_nonce,
         privacy_mode |-> m.privacy_mode,
         sdk_identity |-> m.sdk_identity,
         disclosure_profile |-> m.disclosure_profile,
         issuer_key_ref |-> ring.issuer_key_ref,
         trust_ring_ref |-> ring.trust_ring_ref,
         issuer_algorithm |-> ring.issuer_signature_algorithm,
         compiler_register_versions |-> m.compiler_register_versions,
         g1_verifier |-> <<g1.verifier.verifier_id, g1.verifier.verifier_version>>,
         manifest_root_digest |-> g1.params.manifest_root_digest,
         commitment_scheme |-> g1.params.commitment_scheme,
         client_attestor_version |-> g1.params.client_attestor_version,
         client_algorithm |-> ring.client_signature_algorithm,
         client_key_ref |-> ring.client_key_ref]

\* _check_client_pins.
CheckClientPinsAnyNonce(found, pins) ==
    Require([found EXCEPT !.nonce = pins.nonce] = pins, "CO_CONTEXT")
CheckClientPins(found, pins) == Require(found = pins, "CO_CONTEXT")

\* _check_prepare_issuer_signature.
SkipPrepareIssuerSignature(cert, issuer_public_key) == OK
CheckPrepareIssuerSignature(cert, issuer_public_key) ==
    LET code == VerifySignature(issuer_public_key, cert.issuer_signature.algorithm,
                                IssuerMaterial(cert.manifest), cert.issuer_signature.signature)
    IN  IF code \in {"ALGORITHM", "KEY_ALGORITHM"} THEN "CO_CONTEXT"
        ELSE Translate(code, "CO_PROJECTION")

\* The first half of _validate_client_preparation_context: the response
\* itself.
CheckPrepareResponse(cert) ==
    LET audit_digest == AuditDigest(cert.audit_report)
    IN  Require(cert.manifest_digest = ManifestDigest(cert.manifest), "CO_PROJECTION")
        && Require(cert.coverage = Coverage, "CO_PROJECTION")
        && Require(cert.semantics = cert.manifest.compiler_register_versions.semantics,
                   "CO_PROJECTION")
        && CheckStreams(cert.ledger_seal_projection)
        && CheckProjections(cert, audit_digest)
        && CheckClaimsAndAudit(cert, audit_digest)

\* A context pairs the pins with the client's own key, whose reference it
\* pins, and the issuer's public key.
ExpectedPins(ctx) ==
    [ctx.pins EXCEPT !.client_key_ref =
        DeriveClientKeyRef(ctx.pins.project_ref, ctx.pins.client_algorithm,
                           ctx.client_public_key)]

\* The second half: the response against the client's intent.
CheckClientIntent(cert, g1, ctx) ==
    LET ring == cert.manifest.key_ring_identifiers
    IN  Require(ring.client_key_ref # ABSENT /\ ring.client_signature_algorithm # ABSENT,
                "CO_PROJECTION")
        && Require(CanDerive(ctx.pins.client_algorithm, ctx.client_public_key), "CO_CONTEXT")
        && Require(cert.issuer_signature.signed_payload = "unsigned_manifest", "CO_PROJECTION")
        && Require(SignatureOfRing(cert.issuer_signature, ring), "CO_PROJECTION")
        && Require(/\ g1.params.build_session_ref = cert.subject.build_session_ref
                   /\ g1.params.client_key_ref = ring.client_key_ref, "CO_PROJECTION")
        && Require(cert.audit_report.client_evidence_manifest_root
                       = g1.params.manifest_root_digest, "CO_PROJECTION")
        && CheckClientPins(ClientPins(cert, g1), ExpectedPins(ctx))
        && CheckPrepareIssuerSignature(cert, ctx.issuer_public_key)

ValidateClientPreparationContext(cert, ctx) ==
    LET g1s == G1Claims(cert.claims)
    IN  Require(Len(g1s) = 1 /\ g1s[1].tier = 1, "CO_G1_REQUIRED")
        && CheckPrepareResponse(cert)
        && CheckClientIntent(cert, g1s[1], ctx)

\* prepare_client_co_attestation: PrepareResponseV0 has a G1 claim and no
\* co-attestation; codes outside the closed vocabulary become CO_PROJECTION.
PrepareClientCoAttestation(cert, ctx) ==
    LET code == ValidateClientPreparationContext(cert, ctx)
    IN  Require(/\ ClosedMembers(cert)
                /\ HasClaim(cert.claims, "G1") /\ cert.co_attestation = ABSENT, "CO_PROJECTION")
        && (IF code \in {"CO_CONTEXT", "CO_G1_REQUIRED"} THEN code
            ELSE Translate(code, "CO_PROJECTION"))
=============================================================================
