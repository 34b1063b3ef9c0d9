-------------------------- MODULE CertificateLemmas --------------------------
(***************************************************************************)
(* What the documents around an Agent Certificate v0 are, and what the two *)
(* sequences of checks establish about any document that passes them. No   *)
(* state is involved: the proofs about the life of certificates and about  *)
(* the records based on them use these lemmas.                             *)
(***************************************************************************)
EXTENDS CertificateDocuments, FiniteSetTheorems, SequenceTheorems, TLAPS

\* Every member of a document that the manifest determines, as it does.
BoundToManifest(c) ==
    /\ c.subject = c.manifest.subject
    /\ c.ledger_seal_projection = c.manifest.seal
    /\ c.claims = c.manifest.claims
    /\ c.non_claims = c.manifest.non_claims
    /\ c.disclosure_profile = c.manifest.disclosure_profile
    /\ c.semantics = c.manifest.compiler_register_versions.semantics
    /\ c.manifest_digest = ManifestDigest(c.manifest)
    /\ c.coverage = Coverage
    /\ c.manifest.evidence_digests = ExpectedEvidence(c.claims, AuditDigest(c.audit_report))
    /\ SignatureOfRing(c.issuer_signature, c.manifest.key_ring_identifiers)
    /\ c.issuer_signature.signed_payload = "unsigned_manifest"
-----------------------------------------------------------------------------
(* Documents *)

\* Two statements pass when both do.
LEMMA BothPass == \A a, b : ((a && b) = OK) <=> (a = OK /\ b = OK)
  BY DEF &&

\* Equal evidence projections name the same audit report.
LEMMA EvidenceNamesAudit ==
  ASSUME NEW claims, NEW a, NEW b,
         ExpectedEvidence(claims, AuditDigest(a)) = ExpectedEvidence(claims, AuditDigest(b))
  PROVE  a = b
<1>1. AuditRef(AuditDigest(a)) = AuditRef(AuditDigest(b))
  BY DEF ExpectedEvidence
<1>2. AuditDigest(a) = AuditDigest(b)
  BY <1>1 DEF AuditRef
<1> QED  BY <1>2 DEF AuditDigest

\* Documents under one manifest and one issuer signature differ in nothing
\* but the co-attestation.
LEMMA ManifestDeterminesDocument ==
  ASSUME NEW c, NEW d, ClosedMembers(c), ClosedMembers(d),
         BoundToManifest(c), BoundToManifest(d), d.co_attestation = ABSENT,
         c.manifest = d.manifest, c.issuer_signature.signature = d.issuer_signature.signature
  PROVE  Projection(c) = d
<1>1. c.audit_report = d.audit_report
  BY EvidenceNamesAudit DEF BoundToManifest
<1>2. c.issuer_signature = d.issuer_signature
  <2>1. /\ c.issuer_signature = IssuerSignatureOf(c.issuer_signature)
        /\ d.issuer_signature = IssuerSignatureOf(d.issuer_signature)
    BY DEF ClosedMembers
  <2>2. /\ c.issuer_signature.issuer_key_ref = d.issuer_signature.issuer_key_ref
        /\ c.issuer_signature.algorithm = d.issuer_signature.algorithm
        /\ c.issuer_signature.trust_ring_ref = d.issuer_signature.trust_ring_ref
        /\ c.issuer_signature.signed_payload = d.issuer_signature.signed_payload
    BY DEF BoundToManifest, SignatureOfRing
  <2> QED  BY <2>1, <2>2 DEF IssuerSignatureOf
<1>3. /\ c.subject = d.subject /\ c.ledger_seal_projection = d.ledger_seal_projection
      /\ c.claims = d.claims /\ c.non_claims = d.non_claims
      /\ c.disclosure_profile = d.disclosure_profile /\ c.semantics = d.semantics
      /\ c.manifest_digest = d.manifest_digest /\ c.coverage = d.coverage
  BY DEF BoundToManifest
<1>4. c = EnvelopeOf(c) /\ d = EnvelopeOf(d)
  BY DEF ClosedMembers
<1> QED  BY <1>1, <1>2, <1>3, <1>4 DEF EnvelopeOf, Projection

\* The projection of a closed document keeps every other member.
LEMMA ProjectionKeeps ==
  ASSUME NEW c, ClosedMembers(c)
  PROVE  /\ Projection(c).manifest = c.manifest
         /\ Projection(c).subject = c.subject
         /\ Projection(c).claims = c.claims
         /\ Projection(c).issuer_signature = c.issuer_signature
         /\ Projection(c).co_attestation = ABSENT
         /\ c.co_attestation = ABSENT => Projection(c) = c
  BY DEF ClosedMembers, EnvelopeOf, Projection

\* Two closed documents with one projection and one co-attestation are equal.
LEMMA ProjectionAndCoAttestation ==
  ASSUME NEW c, NEW d, ClosedMembers(c), ClosedMembers(d), Projection(c) = Projection(d),
         c.co_attestation = d.co_attestation
  PROVE  c = d
<1>1. c = EnvelopeOf(c) /\ d = EnvelopeOf(d)
  BY DEF ClosedMembers
<1> QED  BY <1>1 DEF EnvelopeOf, Projection

\* A signature is on its material.
LEMMA MaterialOfSignature == \A key, material, form : Signature(key, material, form).material = material
  BY DEF Signature

\* What _verify_signature establishes about a signature.
LEMMA SignatureFacts ==
  ASSUME NEW key, NEW algorithm, NEW material, NEW sig,
         VerifySignature(key, algorithm, material, sig) = OK
  PROVE  /\ sig.key = key /\ sig.material = material /\ key.algorithm = algorithm
         /\ sig.form # "malformed"
         /\ algorithm = "ecdsa_p256_sha256" => sig.form # "high_s"
<1>1. /\ Require(sig.form # "malformed", "SIGNATURE_BASE64") = OK
      /\ Require(key.algorithm = algorithm, "KEY_ALGORITHM") = OK
      /\ Require(algorithm = "ecdsa_p256_sha256" => sig.form # "high_s", "SIGNATURE_HIGH_S") = OK
      /\ Require(sig.key = key /\ sig.material = material, "SIGNATURE_INVALID") = OK
  BY BothPass DEF VerifySignature
<1> QED  BY <1>1 DEF Require, OK

\* What the issuer prepares is bound to its manifest and signed by its key.
LEMMA ResponseFacts ==
  ASSUME NEW s, NEW nonce, NEW printed
  PROVE  LET d == PrepareResponse(s, nonce, printed)
         IN  /\ ClosedMembers(d) /\ BoundToManifest(d) /\ d.co_attestation = ABSENT
             /\ d.issuer_signature.signature
                   = Signature(IssuerKey, IssuerMaterial(d.manifest), "canonical")
             /\ d.manifest.freshness_nonce = nonce
             /\ d.subject.build_session_ref = s
<1> DEFINE d == PrepareResponse(s, nonce, printed)
<1>1. ClosedMembers(d)
  <2>1. d = EnvelopeOf(d)
    BY DEF PrepareResponse, EnvelopeOf
  <2>2. d.issuer_signature = IssuerSignatureOf(d.issuer_signature)
    BY DEF PrepareResponse, IssuerSignatureOf
  <2>3. d.co_attestation = ABSENT
    BY DEF PrepareResponse
  <2> QED  BY <2>1, <2>2, <2>3 DEF ClosedMembers
<1>2. BoundToManifest(d)
  BY DEF PrepareResponse, BoundToManifest, SignatureOfRing
<1>3. d.co_attestation = ABSENT /\ d.manifest.freshness_nonce = nonce
  BY DEF PrepareResponse
<1>4. d.issuer_signature.signature = Signature(IssuerKey, IssuerMaterial(d.manifest), "canonical")
  BY DEF PrepareResponse
<1>5. d.subject.build_session_ref = s
  BY DEF PrepareResponse, Subject
<1> HIDE DEF d
<1> QED  BY <1>1, <1>2, <1>3, <1>4, <1>5 DEF d

\* A co-attestation in place of none is closed and leaves the projection alone.
LEMMA CoSignedDocument ==
  ASSUME NEW d, NEW s, NEW nonce, ClosedMembers(d), d.co_attestation = ABSENT
  PROVE  LET c == [d EXCEPT !.co_attestation = CoAttestation(s, nonce, d)]
         IN  /\ ClosedMembers(c) /\ Projection(c) = d
             /\ c.co_attestation = CoAttestation(s, nonce, d)
             /\ c.manifest = d.manifest /\ c.subject = d.subject /\ c.claims = d.claims
<1> DEFINE c == [d EXCEPT !.co_attestation = CoAttestation(s, nonce, d)]
<1>1. d = EnvelopeOf(d) /\ d.issuer_signature = IssuerSignatureOf(d.issuer_signature)
  BY DEF ClosedMembers
<1>2. /\ c = EnvelopeOf(c) /\ c.issuer_signature = d.issuer_signature
      /\ c.co_attestation = CoAttestation(s, nonce, d)
      /\ c.manifest = d.manifest /\ c.subject = d.subject /\ c.claims = d.claims
  BY <1>1 DEF EnvelopeOf
<1>3. c.co_attestation = CoAttestationOf(c.co_attestation)
  BY <1>2 DEF CoAttestation, CoAttestationOf
<1>4. ClosedMembers(c)
  BY <1>1, <1>2, <1>3 DEF ClosedMembers
<1>5. Projection(c) = d
  BY <1>1 DEF EnvelopeOf, Projection
<1> HIDE DEF c
<1> QED  BY <1>2, <1>4, <1>5 DEF c

\* What the issuer finalizes is its response, with the client's signature on it
\* exactly when a claim asks for one, from the client the ring names.
LEMMA FinalizedFacts ==
  ASSUME NEW s, NEW nonce, NEW printed
  PROVE  LET c == Finalized(s, nonce, printed)
         IN  /\ ClosedMembers(c) /\ BoundToManifest(c)
             /\ Projection(c) = PrepareResponse(s, nonce, printed)
             /\ c.issuer_signature.signature
                   = Signature(IssuerKey, IssuerMaterial(c.manifest), "canonical")
             /\ c.manifest.freshness_nonce = nonce
             /\ c.subject.build_session_ref = s
             /\ ~RequiresClient(c.claims) => c.co_attestation = ABSENT
             /\ RequiresClient(c.claims) =>
                   /\ c.co_attestation = CoAttestation(s, nonce, Projection(c))
                   /\ c.manifest.key_ring_identifiers.client_key_ref = KeyRef(s)
                   /\ c.manifest.key_ring_identifiers.client_signature_algorithm
                         = Plan[s].client_key.algorithm
<1> DEFINE d == PrepareResponse(s, nonce, printed)
           c == Finalized(s, nonce, printed)
           Signed == [d EXCEPT !.co_attestation = CoAttestation(s, nonce, d)]
<1>1. /\ ClosedMembers(d) /\ BoundToManifest(d) /\ d.co_attestation = ABSENT
      /\ d.issuer_signature.signature
            = Signature(IssuerKey, IssuerMaterial(d.manifest), "canonical")
      /\ d.manifest.freshness_nonce = nonce /\ d.subject.build_session_ref = s
  BY ResponseFacts
<1>2. RequiresClient(d.claims) =>
         /\ d.manifest.key_ring_identifiers.client_key_ref = KeyRef(s)
         /\ d.manifest.key_ring_identifiers.client_signature_algorithm
               = Plan[s].client_key.algorithm
  BY DEF PrepareResponse
<1>3. c = IF RequiresClient(d.claims) THEN Signed ELSE d
  BY DEF Finalized
<1>4. CASE RequiresClient(d.claims)
  <2>1. /\ ClosedMembers(Signed) /\ Projection(Signed) = d
        /\ Signed.co_attestation = CoAttestation(s, nonce, d)
        /\ Signed.manifest = d.manifest /\ Signed.subject = d.subject /\ Signed.claims = d.claims
    BY <1>1, CoSignedDocument
  <2>2. BoundToManifest(Signed) /\ Signed.issuer_signature = d.issuer_signature
    <3>1. d = EnvelopeOf(d)
      BY <1>1 DEF ClosedMembers
    <3> HIDE DEF d
    <3> QED  BY <1>1, <3>1 DEF BoundToManifest, EnvelopeOf
  <2> HIDE DEF Signed, d, c
  <2> QED  BY <1>1, <1>2, <1>3, <1>4, <2>1, <2>2 DEF c, d
<1>5. CASE ~RequiresClient(d.claims)
  <2>1. Projection(d) = d
    BY <1>1, ProjectionKeeps
  <2> HIDE DEF Signed, d, c
  <2> QED  BY <1>1, <1>3, <1>5, <2>1 DEF c, d
<1> QED  BY <1>4, <1>5
-----------------------------------------------------------------------------
(* The relying party *)

\* What verify_certificate establishes about whatever it accepts.
LEMMA VerifiedFacts ==
  ASSUME NEW c, NEW key, NEW ctx, NEW policy, VerifyCertificate(c, key, ctx, policy) = OK
  PROVE  /\ SchemaValid(c)
         /\ BoundToManifest(c)
         /\ ContextPinned(c.manifest, c.issuer_signature, ctx)
         /\ VerifySignature(key, c.issuer_signature.algorithm, IssuerMaterial(c.manifest),
                            c.issuer_signature.signature) = OK
         /\ VerifyCoAttestation(c, ctx) = OK
<1>1. /\ ValidatedDocument(c, policy) = OK
      /\ CheckContext(c, ctx) = OK
      /\ Require(c.issuer_signature.signed_payload = "unsigned_manifest", "SIGNED_PAYLOAD") = OK
      /\ VerifySignature(key, c.issuer_signature.algorithm, IssuerMaterial(c.manifest),
                         c.issuer_signature.signature) = OK
      /\ VerifyCoAttestation(c, ctx) = OK
  BY BothPass DEF VerifyCertificate
<1>2. /\ Require(SchemaValid(c), "SCHEMA") = OK
      /\ Require(c.manifest_digest = ManifestDigest(c.manifest), "MANIFEST_DIGEST") = OK
      /\ Require(c.coverage = Coverage, "COVERAGE") = OK
      /\ Require(c.semantics = c.manifest.compiler_register_versions.semantics, "SEMANTICS") = OK
      /\ CheckProjections(c, AuditDigest(c.audit_report)) = OK
  BY <1>1, BothPass DEF ValidatedDocument
<1>3. /\ Require(c.manifest.subject = c.subject, "SUBJECT_BINDING") = OK
      /\ Require(c.manifest.seal = c.ledger_seal_projection, "SEAL_BINDING") = OK
      /\ Require(c.manifest.claims = c.claims, "CLAIMS_BINDING") = OK
      /\ Require(c.manifest.non_claims = c.non_claims, "NON_CLAIMS_BINDING") = OK
      /\ Require(c.manifest.disclosure_profile = c.disclosure_profile,
                 "DISCLOSURE_PROFILE_BINDING") = OK
      /\ Require(c.manifest.evidence_digests
                    = ExpectedEvidence(c.claims, AuditDigest(c.audit_report)),
                 "EVIDENCE_PROJECTION") = OK
  BY <1>2, BothPass DEF CheckProjections
<1>4. Require(ContextPinned(c.manifest, c.issuer_signature, ctx), "CONTEXT") = OK
  BY <1>1, BothPass DEF CheckContext
<1>5. ContextPinned(c.manifest, c.issuer_signature, ctx)
  BY <1>4 DEF Require, OK
<1>6. SignatureOfRing(c.issuer_signature, c.manifest.key_ring_identifiers)
  BY <1>5 DEF ContextPinned
<1>7. SchemaValid(c)
  BY <1>2 DEF Require, OK
<1>8. BoundToManifest(c)
  BY <1>1, <1>2, <1>3, <1>6 DEF BoundToManifest, Require, OK
<1> QED  BY <1>1, <1>5, <1>7, <1>8

\* The checks of _verify_co_attestation on a document that prints a client
\* claim.
LEMMA CoAttestationFacts ==
  ASSUME NEW c, NEW ctx, VerifyCoAttestation(c, ctx) = OK, RequiresClient(c.claims)
  PROVE  /\ c.co_attestation # ABSENT
         /\ c.co_attestation.client_key_ref = c.manifest.key_ring_identifiers.client_key_ref
         /\ c.co_attestation.algorithm
               = c.manifest.key_ring_identifiers.client_signature_algorithm
         /\ c.co_attestation.nonce = c.manifest.freshness_nonce
         /\ c.co_attestation.signed_manifest_digest = ProjectionDigest(Projection(c))
         /\ VerifySignature(ctx.client_public_key, c.co_attestation.algorithm,
                            ClientMaterial(Projection(c)), c.co_attestation.signature) = OK
  BY DEF VerifyCoAttestation, &&, Require, OK

\* verify_certificate_with_materials accepts only what verify_certificate
\* accepts with the keys of the bundle.
LEMMA MaterialsVerify ==
  ASSUME NEW response, NEW materials, NEW digest, NEW ref, NEW ctx, NEW require_status,
         VerifyWithMaterials(response, materials, digest, ref, ctx, require_status) = OK
  PROVE  \E key : VerifyCertificate(response.signed_certificate, materials.issuer.public_key,
                                    [ctx EXCEPT !.client_public_key = key],
                                    materials.policy) = OK
  BY DEF VerifyWithMaterials, &&, OK

\* What verify_certificate_with_materials establishes about a response.
LEMMA WrappedFacts ==
  ASSUME NEW response, NEW materials, NEW digest, NEW ref, NEW ctx, NEW require_status,
         response.wrapped,
         VerifyWithMaterials(response, materials, digest, ref, ctx, require_status) = OK
  PROVE  /\ response.certificate_status = "active"
         /\ response.certificate_ref = ref
         /\ response.manifest_digest = response.signed_certificate.manifest_digest
         /\ response.signed_certificate.manifest_digest
               = ManifestDigest(response.signed_certificate.manifest)
<1>1. UnwrapRetrieval(response, ref, require_status) = OK
  BY DEF VerifyWithMaterials, &&, OK
<1>2. CheckWrapperBindings(response, ctx) = OK
  BY DEF VerifyWithMaterials, &&, OK
<1>3. response.certificate_status = "active" /\ response.certificate_ref = ref
  BY <1>1 DEF UnwrapRetrieval, &&, Require, OK
<1>4. response.manifest_digest = response.signed_certificate.manifest_digest
  BY <1>2 DEF CheckWrapperBindings, &&, Require, OK
<1>5. BoundToManifest(response.signed_certificate)
  BY MaterialsVerify, VerifiedFacts
<1> QED  BY <1>3, <1>4, <1>5 DEF BoundToManifest
-----------------------------------------------------------------------------
(* The client *)

\* What the second half of _validate_client_preparation_context establishes.
LEMMA IntentFacts ==
  ASSUME NEW c, NEW g1, NEW ctx, CheckClientIntent(c, g1, ctx) = OK
  PROVE  /\ c.manifest.key_ring_identifiers.client_key_ref # ABSENT
         /\ c.manifest.key_ring_identifiers.client_signature_algorithm # ABSENT
         /\ CanDerive(ctx.pins.client_algorithm, ctx.client_public_key)
         /\ c.issuer_signature.signed_payload = "unsigned_manifest"
         /\ SignatureOfRing(c.issuer_signature, c.manifest.key_ring_identifiers)
         /\ CheckClientPins(ClientPins(c, g1), ExpectedPins(ctx)) = OK
         /\ CheckPrepareIssuerSignature(c, ctx.issuer_public_key) = OK
  BY DEF CheckClientIntent, &&, Require, OK

\* What prepare_client_co_attestation establishes about a response before it
\* returns bytes to sign.
LEMMA ApprovedFacts ==
  ASSUME NEW c, NEW ctx, PrepareClientCoAttestation(c, ctx) = OK
  PROVE  /\ ClosedMembers(c) /\ c.co_attestation = ABSENT
         /\ HasClaim(c.claims, "G1")
         /\ BoundToManifest(c)
         /\ \E g1 : ClientPins(c, g1) = ExpectedPins(ctx)
         /\ VerifySignature(ctx.issuer_public_key, c.issuer_signature.algorithm,
                            IssuerMaterial(c.manifest), c.issuer_signature.signature) = OK
<1> DEFINE g1 == G1Claims(c.claims)[1]
           code == ValidateClientPreparationContext(c, ctx)
<1>1. /\ Require(/\ ClosedMembers(c)
                 /\ HasClaim(c.claims, "G1") /\ c.co_attestation = ABSENT, "CO_PROJECTION") = OK
      /\ (IF code \in {"CO_CONTEXT", "CO_G1_REQUIRED"} THEN code
          ELSE Translate(code, "CO_PROJECTION")) = OK
  BY BothPass DEF PrepareClientCoAttestation
<1>2. ClosedMembers(c) /\ c.co_attestation = ABSENT /\ HasClaim(c.claims, "G1")
  BY <1>1 DEF Require, OK
<1>3. code = OK
  BY <1>1 DEF Translate, OK
<1>a. CheckPrepareResponse(c) = OK /\ CheckClientIntent(c, g1, ctx) = OK
  BY <1>3, BothPass DEF ValidateClientPreparationContext
<1>b. /\ Require(c.manifest_digest = ManifestDigest(c.manifest), "CO_PROJECTION") = OK
      /\ Require(c.coverage = Coverage, "CO_PROJECTION") = OK
      /\ Require(c.semantics = c.manifest.compiler_register_versions.semantics,
                 "CO_PROJECTION") = OK
      /\ CheckProjections(c, AuditDigest(c.audit_report)) = OK
  BY <1>a, BothPass DEF CheckPrepareResponse
<1>4. /\ c.issuer_signature.signed_payload = "unsigned_manifest"
      /\ SignatureOfRing(c.issuer_signature, c.manifest.key_ring_identifiers)
      /\ CheckClientPins(ClientPins(c, g1), ExpectedPins(ctx)) = OK
      /\ CheckPrepareIssuerSignature(c, ctx.issuer_public_key) = OK
  BY <1>a, IntentFacts
<1>5. /\ Require(c.manifest.subject = c.subject, "SUBJECT_BINDING") = OK
      /\ Require(c.manifest.seal = c.ledger_seal_projection, "SEAL_BINDING") = OK
      /\ Require(c.manifest.claims = c.claims, "CLAIMS_BINDING") = OK
      /\ Require(c.manifest.non_claims = c.non_claims, "NON_CLAIMS_BINDING") = OK
      /\ Require(c.manifest.disclosure_profile = c.disclosure_profile,
                 "DISCLOSURE_PROFILE_BINDING") = OK
      /\ Require(c.manifest.evidence_digests
                    = ExpectedEvidence(c.claims, AuditDigest(c.audit_report)),
                 "EVIDENCE_PROJECTION") = OK
  BY <1>b, BothPass DEF CheckProjections
<1>6. BoundToManifest(c)
  BY <1>b, <1>4, <1>5 DEF BoundToManifest, Require, OK
<1>7. ClientPins(c, g1) = ExpectedPins(ctx)
  BY <1>4 DEF CheckClientPins, Require, OK
<1>8. VerifySignature(ctx.issuer_public_key, c.issuer_signature.algorithm,
                      IssuerMaterial(c.manifest), c.issuer_signature.signature) = OK
  BY <1>4 DEF CheckPrepareIssuerSignature, Translate, OK
<1> QED  BY <1>2, <1>6, <1>7, <1>8

\* The client's pins, member by member.
LEMMA PinnedFacts ==
  ASSUME NEW c, NEW g1, NEW s, NEW nonce,
         ClientPins(c, g1) = ExpectedPins(ClientContext(s, nonce))
  PROVE  /\ c.subject.build_session_ref = s
         /\ c.manifest.freshness_nonce = nonce
         /\ c.manifest.key_ring_identifiers.client_key_ref = KeyRef(s)
         /\ c.manifest.key_ring_identifiers.client_signature_algorithm
               = Plan[s].client_key.algorithm
<1>1. /\ ClientPins(c, g1).build_session_ref = c.subject.build_session_ref
      /\ ClientPins(c, g1).nonce = c.manifest.freshness_nonce
      /\ ClientPins(c, g1).client_key_ref = c.manifest.key_ring_identifiers.client_key_ref
      /\ ClientPins(c, g1).client_algorithm
            = c.manifest.key_ring_identifiers.client_signature_algorithm
  BY DEF ClientPins
<1>2. /\ ClientContext(s, nonce).pins = Pins(s, nonce)
      /\ ClientContext(s, nonce).client_public_key = Plan[s].client_key
  BY DEF ClientContext
<1>3. /\ Pins(s, nonce).project_ref = Plan[s].project_ref
      /\ Pins(s, nonce).client_algorithm = Plan[s].client_key.algorithm
  BY DEF Pins
<1>4. ExpectedPins(ClientContext(s, nonce))
         = [Pins(s, nonce) EXCEPT !.client_key_ref = KeyRef(s)]
  BY <1>2, <1>3 DEF ExpectedPins, KeyRef
<1>5. /\ [Pins(s, nonce) EXCEPT !.client_key_ref = KeyRef(s)].build_session_ref = s
      /\ [Pins(s, nonce) EXCEPT !.client_key_ref = KeyRef(s)].nonce = nonce
      /\ [Pins(s, nonce) EXCEPT !.client_key_ref = KeyRef(s)].client_key_ref = KeyRef(s)
      /\ [Pins(s, nonce) EXCEPT !.client_key_ref = KeyRef(s)].client_algorithm
            = Plan[s].client_key.algorithm
  BY DEF Pins
<1> QED  BY <1>1, <1>4, <1>5
-----------------------------------------------------------------------------
(* What the client approves and the relying party checks again *)

\* Every outcome is "OK": the loop passes.
LEMMA AllPass ==
  ASSUME NEW outcomes, \A i \in DOMAIN outcomes : outcomes[i] = OK
  PROVE  ForEach(outcomes) = OK
  BY DEF ForEach

\* The checks of the content do not look at the co-attestation.
LEMMA ContentChecksKept ==
  ASSUME NEW c, NEW d, NEW digest,
         c.subject = d.subject, c.ledger_seal_projection = d.ledger_seal_projection,
         c.claims = d.claims, c.non_claims = d.non_claims, c.manifest = d.manifest,
         c.disclosure_profile = d.disclosure_profile, c.audit_report = d.audit_report
  PROVE  /\ CheckProjections(c, digest) = CheckProjections(d, digest)
         /\ CheckClaimsAndAudit(c, digest) = CheckClaimsAndAudit(d, digest)
<1>1. CheckProjections(c, digest) = CheckProjections(d, digest)
  BY DEF CheckProjections
<1>2. CheckPrintedClaims(c, digest) = CheckPrintedClaims(d, digest)
  BY DEF CheckPrintedClaims, CheckPrintedB1
<1>3. CheckAuditBindings(c) = CheckAuditBindings(d)
  BY DEF CheckAuditBindings
<1> QED  BY <1>1, <1>2, <1>3 DEF CheckClaimsAndAudit

\* What prepare_client_co_attestation has checked of the content.
LEMMA ApprovedContent ==
  ASSUME NEW d, NEW ctx, PrepareClientCoAttestation(d, ctx) = OK
  PROVE  /\ CheckStreams(d.ledger_seal_projection) = OK
         /\ CheckProjections(d, AuditDigest(d.audit_report)) = OK
         /\ CheckClaimsAndAudit(d, AuditDigest(d.audit_report)) = OK
         /\ d.manifest.key_ring_identifiers.client_key_ref # ABSENT
         /\ d.manifest.key_ring_identifiers.client_signature_algorithm # ABSENT
         /\ CanDerive(ctx.pins.client_algorithm, ctx.client_public_key)
<1> DEFINE g1 == G1Claims(d.claims)[1]
           code == ValidateClientPreparationContext(d, ctx)
<1>1. (IF code \in {"CO_CONTEXT", "CO_G1_REQUIRED"} THEN code
       ELSE Translate(code, "CO_PROJECTION")) = OK
  BY BothPass DEF PrepareClientCoAttestation
<1>2. code = OK
  BY <1>1 DEF Translate, OK
<1>3. CheckPrepareResponse(d) = OK /\ CheckClientIntent(d, g1, ctx) = OK
  BY <1>2, BothPass DEF ValidateClientPreparationContext
<1>4. /\ CheckStreams(d.ledger_seal_projection) = OK
      /\ CheckProjections(d, AuditDigest(d.audit_report)) = OK
      /\ CheckClaimsAndAudit(d, AuditDigest(d.audit_report)) = OK
  BY <1>3, BothPass DEF CheckPrepareResponse
<1>5. /\ d.manifest.key_ring_identifiers.client_key_ref # ABSENT
      /\ d.manifest.key_ring_identifiers.client_signature_algorithm # ABSENT
      /\ CanDerive(ctx.pins.client_algorithm, ctx.client_public_key)
  BY <1>3, IntentFacts
<1> QED  BY <1>4, <1>5

\* The rest of what the client has pinned.
LEMMA PinnedRing ==
  ASSUME NEW c, NEW g1, NEW s, NEW nonce,
         ClientPins(c, g1) = ExpectedPins(ClientContext(s, nonce))
  PROVE  /\ c.subject.project_ref = Plan[s].project_ref
         /\ c.manifest.compiler_register_versions = Registers
         /\ c.manifest.key_ring_identifiers.issuer_key_ref = "ikr"
         /\ c.manifest.key_ring_identifiers.trust_ring_ref = Plan[s].trust_ring_ref
         /\ c.manifest.key_ring_identifiers.issuer_signature_algorithm = IssuerKey.algorithm
<1>1. /\ ClientPins(c, g1).project_ref = c.subject.project_ref
      /\ ClientPins(c, g1).compiler_register_versions = c.manifest.compiler_register_versions
      /\ ClientPins(c, g1).issuer_key_ref = c.manifest.key_ring_identifiers.issuer_key_ref
      /\ ClientPins(c, g1).trust_ring_ref = c.manifest.key_ring_identifiers.trust_ring_ref
      /\ ClientPins(c, g1).issuer_algorithm
            = c.manifest.key_ring_identifiers.issuer_signature_algorithm
  BY DEF ClientPins
<1>2. ClientContext(s, nonce).pins = Pins(s, nonce)
  BY DEF ClientContext
<1>3. PICK ref : ExpectedPins(ClientContext(s, nonce)) = [Pins(s, nonce) EXCEPT !.client_key_ref = ref]
  BY <1>2 DEF ExpectedPins
<1>4. /\ [Pins(s, nonce) EXCEPT !.client_key_ref = ref].project_ref = Plan[s].project_ref
      /\ [Pins(s, nonce) EXCEPT !.client_key_ref = ref].compiler_register_versions = Registers
      /\ [Pins(s, nonce) EXCEPT !.client_key_ref = ref].issuer_key_ref = "ikr"
      /\ [Pins(s, nonce) EXCEPT !.client_key_ref = ref].trust_ring_ref = Plan[s].trust_ring_ref
      /\ [Pins(s, nonce) EXCEPT !.client_key_ref = ref].issuer_algorithm = IssuerKey.algorithm
  BY DEF Pins
<1> QED  BY <1>1, <1>3, <1>4

\* The issuer prints each claim with its verifier, and G1 with the session and
\* the key it is bound to.
LEMMA ResponseClaims ==
  ASSUME NEW s, NEW nonce, NEW printed, NEW i \in DOMAIN PrepareResponse(s, nonce, printed).claims
  PROVE  LET claim == PrepareResponse(s, nonce, printed).claims[i]
         IN  /\ claim.verifier = Verifier(claim.claim_id)
             /\ claim.claim_id = "G1" => /\ claim.params.build_session_ref = s
                                         /\ claim.params.client_key_ref = KeyRef(s)
<1> DEFINE claims == PrepareResponse(s, nonce, printed).claims
           draft == DraftClaim(s, printed[i])
<1>1. PICK digest :
         claims = [k \in DOMAIN printed |->
                     [DraftClaim(s, printed[k]) EXCEPT !.evidence_refs = <<AuditRef(digest)>> \o @]]
  <2>1. claims = [k \in DOMAIN printed |->
                    [DraftClaim(s, printed[k]) EXCEPT !.evidence_refs =
                        <<AuditRef(AuditDigest(AuditReport(s, printed)))>> \o @]]
    BY DEF PrepareResponse
  <2> QED  BY <2>1
<1>2. claims[i] = [draft EXCEPT !.evidence_refs = <<AuditRef(digest)>> \o @]
  BY <1>1
<1>3. /\ draft.claim_id = printed[i] /\ draft.verifier = Verifier(printed[i])
      /\ draft.params = ClaimParams(s, printed[i])
      /\ draft = [claim_id |-> draft.claim_id, tier |-> draft.tier, params |-> draft.params,
                  verifier |-> draft.verifier, evidence_refs |-> draft.evidence_refs,
                  rendered_text |-> draft.rendered_text]
  BY DEF DraftClaim
<1> HIDE DEF draft, claims
<1>4. /\ claims[i].claim_id = draft.claim_id /\ claims[i].verifier = draft.verifier
      /\ claims[i].params = draft.params
  BY <1>2, <1>3
<1>5. printed[i] = "G1" => /\ ClaimParams(s, printed[i]).build_session_ref = s
                           /\ ClaimParams(s, printed[i]).client_key_ref = KeyRef(s)
  BY DEF ClaimParams
<1> QED  BY <1>3, <1>4, <1>5 DEF claims
-----------------------------------------------------------------------------
(* What the issuer finalizes verifies *)

\* The reference at one place.
LEMMA OneRef ==
  ASSUME NEW claim, NEW p \in Nat
  PROVE  RefsAt(claim, {p}) = <<claim.evidence_refs[p]>>
<1>1. Cardinality({p}) = 1
  BY FS_Singleton
<1>2. {j \in {p} : j <= p} = {p}
  OBVIOUS
<1>3. (CHOOSE i \in {p} : Cardinality({j \in {p} : j <= i}) = 1) = p
  BY <1>1, <1>2
<1>4. RefsAt(claim, {p}) =
         [k \in 1..1 |-> claim.evidence_refs[CHOOSE i \in {p} : Cardinality({j \in {p} : j <= i}) = k]]
  BY <1>1 DEF RefsAt
<1>5. \A k \in 1..1 : k = 1
  OBVIOUS
<1>6. RefsAt(claim, {p}) = [k \in 1..1 |-> claim.evidence_refs[p]]
  BY <1>3, <1>4, <1>5
<1> QED  BY <1>6

\* A reference to the audit report and one of the claim's own are told apart.
LEMMA RefsTold ==
  ASSUME NEW claim, NEW digest, NEW ref, claim.evidence_refs = <<AuditRef(digest), ref>>,
         ~IsAuditRef(ref)
  PROVE  AuditRefs(claim) = <<AuditRef(digest)>> /\ OwnRefs(claim) = <<ref>>
<1>1. IsAuditRef(AuditRef(digest))
  BY DEF IsAuditRef, AuditRef
<1>2. {i \in DOMAIN claim.evidence_refs : IsAuditRef(claim.evidence_refs[i])} = {1}
  BY <1>1
<1>3. {i \in DOMAIN claim.evidence_refs : ~IsAuditRef(claim.evidence_refs[i])} = {2}
  BY <1>1
<1>4. RefsAt(claim, {1}) = <<AuditRef(digest)>> /\ RefsAt(claim, {2}) = <<ref>>
  BY OneRef
<1> QED  BY <1>2, <1>3, <1>4 DEF AuditRefs, OwnRefs

\* A claim's own reference alone.
LEMMA OwnRefTold ==
  ASSUME NEW claim, NEW ref, claim.evidence_refs = <<ref>>, ~IsAuditRef(ref)
  PROVE  OwnRefs(claim) = <<ref>>
<1>1. {i \in DOMAIN claim.evidence_refs : ~IsAuditRef(claim.evidence_refs[i])} = {1}
  OBVIOUS
<1> QED  BY <1>1, OneRef DEF OwnRefs

\* The evidence of its own that a claim refers to.
EvidenceOf(s, id) ==
    IF id = "G1" THEN [evidence_kind |-> "client_commitment_digest", evidence_digest |-> ClientRoot(s)]
    ELSE [evidence_kind |-> "seal_statement", evidence_digest |-> Seal(s).seal_statement_digest]

\* What a claim says before the audit report exists.
LEMMA DraftFacts ==
  ASSUME NEW s, NEW id \in {"B1", "G1"}
  PROVE  LET draft == DraftClaim(s, id)
         IN  /\ draft = [claim_id |-> draft.claim_id, tier |-> draft.tier, params |-> draft.params,
                         verifier |-> draft.verifier, evidence_refs |-> draft.evidence_refs,
                         rendered_text |-> draft.rendered_text]
             /\ draft.claim_id = id /\ draft.params = ClaimParams(s, id)
             /\ draft.tier = (IF id = "G1" THEN 1 ELSE 3) /\ draft.verifier = Verifier(id)
             /\ draft.evidence_refs = <<EvidenceOf(s, id)>>
             /\ draft.rendered_text
                   = (IF id = "G1" THEN RenderG1(draft.params) ELSE RenderB1(draft.params))
             /\ ~IsAuditRef(EvidenceOf(s, id))
<1>1. id = "G1" => ClaimParams(s, id).manifest_root_digest = ClientRoot(s)
  BY DEF ClaimParams
<1>2. id # "G1" => ClaimParams(s, id).seal_statement_digest = Seal(s).seal_statement_digest
  BY DEF ClaimParams
<1>3. DraftClaim(s, id).evidence_refs = <<EvidenceOf(s, id)>>
  BY <1>1, <1>2 DEF DraftClaim, EvidenceOf
<1>4. ~IsAuditRef(EvidenceOf(s, id))
  BY DEF IsAuditRef, EvidenceOf
<1> QED  BY <1>3, <1>4 DEF DraftClaim

\* Two lists of one make a list of two.
LEMMA TwoInARow == \A a, b : <<a>> \o <<b>> = <<a, b>>
<1> TAKE a, b
<1>1. <<a>> \in Seq({a, b}) /\ <<b>> \in Seq({a, b})
  OBVIOUS
<1>2. PICK c : c = <<a>> \o <<b>>
  OBVIOUS
<1>3. /\ c \in Seq({a, b}) /\ Len(c) = 2
      /\ \A i \in 1..2 : c[i] = IF i <= 1 THEN <<a>>[i] ELSE <<b>>[i - 1]
  BY <1>1, <1>2, ConcatProperties
<1>4. c[1] = a /\ c[2] = b
  BY <1>3
<1>5. c = <<a, b>>
  BY <1>3, <1>4
<1> QED  BY <1>2, <1>5

\* What a claim says once it is printed.
LEMMA PrintedClaim ==
  ASSUME NEW s, NEW nonce, NEW printed \in ClaimLists, NEW i \in DOMAIN printed, NEW d, NEW claim,
         d = PrepareResponse(s, nonce, printed), claim = d.claims[i]
  PROVE  LET id == printed[i]
         IN  /\ id \in {"B1", "G1"} /\ DOMAIN d.claims = DOMAIN printed
             /\ claim.claim_id = id /\ claim.params = ClaimParams(s, id)
             /\ claim.tier = (IF id = "G1" THEN 1 ELSE 3) /\ claim.verifier = Verifier(id)
             /\ claim.rendered_text
                   = (IF id = "G1" THEN RenderG1(claim.params) ELSE RenderB1(claim.params))
             /\ AuditRefs(claim) = <<AuditRef(AuditDigest(d.audit_report))>>
             /\ OwnRefs(claim) = <<EvidenceOf(s, id)>>
             /\ ClaimMaterial(claim) = ClaimMaterial(DraftClaim(s, id))
<1>1. PICK id : id = printed[i]
  OBVIOUS
<1>2. id \in {"B1", "G1"}
  BY <1>1 DEF ClaimLists
<1>3. PICK draft : draft = DraftClaim(s, id)
  OBVIOUS
<1>4. /\ draft = [claim_id |-> draft.claim_id, tier |-> draft.tier, params |-> draft.params,
                  verifier |-> draft.verifier, evidence_refs |-> draft.evidence_refs,
                  rendered_text |-> draft.rendered_text]
      /\ draft.claim_id = id /\ draft.params = ClaimParams(s, id)
      /\ draft.tier = (IF id = "G1" THEN 1 ELSE 3) /\ draft.verifier = Verifier(id)
      /\ draft.evidence_refs = <<EvidenceOf(s, id)>>
      /\ draft.rendered_text
            = (IF id = "G1" THEN RenderG1(draft.params) ELSE RenderB1(draft.params))
      /\ ~IsAuditRef(EvidenceOf(s, id))
  BY <1>2, <1>3, DraftFacts
<1>5. PICK audit : audit = AuditRef(AuditDigest(d.audit_report))
  OBVIOUS
<1>6. DOMAIN d.claims = DOMAIN printed /\ claim = [draft EXCEPT !.evidence_refs = <<audit>> \o @]
  <2>1. d.audit_report = AuditReport(s, printed)
    BY DEF PrepareResponse
  <2>2. d.claims = [k \in DOMAIN printed |->
                      [DraftClaim(s, printed[k]) EXCEPT !.evidence_refs =
                          <<AuditRef(AuditDigest(AuditReport(s, printed)))>> \o @]]
    BY DEF PrepareResponse
  <2> QED  BY <1>1, <1>3, <1>5, <2>1, <2>2
<1>7. /\ claim.claim_id = id /\ claim.tier = draft.tier /\ claim.params = draft.params
      /\ claim.verifier = draft.verifier /\ claim.rendered_text = draft.rendered_text
      /\ claim.evidence_refs = <<audit>> \o <<EvidenceOf(s, id)>>
  BY <1>4, <1>6
<1>8. claim.evidence_refs = <<audit, EvidenceOf(s, id)>>
  BY <1>7, TwoInARow
<1>9. AuditRefs(claim) = <<audit>> /\ OwnRefs(claim) = <<EvidenceOf(s, id)>>
  BY <1>4, <1>5, <1>8, RefsTold
<1>10. OwnRefs(draft) = <<EvidenceOf(s, id)>>
  BY <1>4, OwnRefTold
<1>11. ClaimMaterial(claim) = ClaimMaterial(draft)
  BY <1>4, <1>7, <1>9, <1>10 DEF ClaimMaterial
<1> QED  BY <1>1, <1>2, <1>3, <1>4, <1>5, <1>6, <1>7, <1>9, <1>11

\* What the audit report of the response says.
LEMMA AuditFacts ==
  ASSUME NEW s, NEW printed, NEW audit, audit = AuditReport(s, printed)
  PROVE  /\ audit.build_session_ref = s /\ audit.compiler_register_versions = Registers
         /\ audit.ledger_seal_statement_digest = Seal(s).seal_statement_digest
         /\ audit.client_evidence_manifest_root
               = (IF \E i \in DOMAIN printed : printed[i] = "G1" THEN ClientRoot(s) ELSE ABSENT)
         /\ DOMAIN audit.claim_support_rows = DOMAIN AuditRows
         /\ \A k \in DOMAIN AuditRows :
               LET row == audit.claim_support_rows[k]
                   id == AuditRows[k]
               IN  /\ row.claim_id = id
                   /\ (\E i \in DOMAIN printed : printed[i] = id) =>
                         /\ row.verifier = Verifier(id)
                         /\ row.evidence_basis
                               = (IF id = "B1" THEN "issuer_verified" ELSE "client_declared")
                         /\ row.claim_material_digest
                               = ClaimMaterialDigest(ClaimMaterial(DraftClaim(s, id)))
                   /\ (~\E i \in DOMAIN printed : printed[i] = id) =>
                         /\ row.evidence_basis = "abstained"
                         /\ row.abstention_code = AbstentionCode(id)
  BY DEF AuditReport

\* Each printed claim passes.
LEMMA PrintedClaimsPass ==
  ASSUME KeysAssumption, NEW s \in Sessions, NEW nonce, NEW printed \in ClaimLists, NEW d,
         d = PrepareResponse(s, nonce, printed)
  PROVE  CheckPrintedClaims(d, AuditDigest(d.audit_report)) = OK
<1>1. PICK digest : digest = AuditDigest(d.audit_report)
  OBVIOUS
<1>2. /\ d.audit_report = AuditReport(s, printed) /\ d.ledger_seal_projection = Seal(s)
  BY DEF PrepareResponse
<1>3. PICK audit : audit = d.audit_report
  OBVIOUS
<1>4. /\ audit.ledger_seal_statement_digest = Seal(s).seal_statement_digest
      /\ audit.client_evidence_manifest_root
            = (IF \E i \in DOMAIN printed : printed[i] = "G1" THEN ClientRoot(s) ELSE ABSENT)
  BY <1>2, <1>3, AuditFacts
<1> DEFINE Check(claim) ==
             Require(AuditRefs(claim) = <<AuditRef(digest)>>, "AUDIT_BINDING")
             && Require(claim.verifier.result = "PASS", "CLAIM_STATUS")
             && (IF claim.claim_id = "G1" THEN CheckPrintedG1(claim, audit)
                 ELSE CheckPrintedB1(d, claim))
<1>5. ASSUME NEW i \in DOMAIN printed
      PROVE  Check(d.claims[i]) = OK
  <2>1. PICK claim : claim = d.claims[i]
    OBVIOUS
  <2>2. PICK id : id = printed[i]
    OBVIOUS
  <2>3. /\ id \in {"B1", "G1"} /\ claim.claim_id = id /\ claim.params = ClaimParams(s, id)
        /\ claim.tier = (IF id = "G1" THEN 1 ELSE 3) /\ claim.verifier = Verifier(id)
        /\ claim.rendered_text
              = (IF id = "G1" THEN RenderG1(claim.params) ELSE RenderB1(claim.params))
        /\ AuditRefs(claim) = <<AuditRef(digest)>> /\ OwnRefs(claim) = <<EvidenceOf(s, id)>>
    BY <1>1, <2>1, <2>2, PrintedClaim
  <2>4. claim.verifier.result = "PASS"
    BY <2>3 DEF Verifier
  <2>5. CASE id = "G1"
    <3>1. claim.params.manifest_root_digest = ClientRoot(s)
      BY <2>3, <2>5 DEF ClaimParams
    <3>2. audit.client_evidence_manifest_root = ClientRoot(s) /\ ClientRoot(s) # ZERO_DIGEST
      BY <1>4, <2>2, <2>5 DEF KeysAssumption
    <3>3. OwnRefs(claim) = <<[evidence_kind |-> "client_commitment_digest",
                              evidence_digest |-> ClientRoot(s)]>>
      BY <2>3, <2>5 DEF EvidenceOf
    <3>4. CheckPrintedG1(claim, audit) = OK
      BY <2>3, <2>5, <3>1, <3>2, <3>3 DEF CheckPrintedG1, &&, Require
    <3> QED  BY <2>1, <2>3, <2>4, <2>5, <3>4 DEF &&, Require
  <2>6. CASE id = "B1"
    <3>1. /\ claim.params.seal_statement_digest = Seal(s).seal_statement_digest
          /\ claim.params.seal_ref = Plan[s].seal_ref
      BY <2>3, <2>6 DEF ClaimParams
    <3>2. d.ledger_seal_projection.seal_ref = Plan[s].seal_ref
      BY <1>2 DEF Seal
    <3>3. OwnRefs(claim) = <<[evidence_kind |-> "seal_statement",
                              evidence_digest |-> Seal(s).seal_statement_digest]>>
      BY <2>3, <2>6 DEF EvidenceOf
    <3>4. CheckPrintedB1(d, claim) = OK
      BY <1>3, <1>4, <2>3, <2>6, <3>1, <3>2, <3>3 DEF CheckPrintedB1, &&, Require
    <3> QED  BY <2>1, <2>3, <2>4, <2>6, <3>4 DEF &&, Require
  <2> QED  BY <2>3, <2>5, <2>6
<1>6. /\ DOMAIN d.claims = DOMAIN printed
      /\ \A i \in DOMAIN d.claims : d.claims[i].claim_id = printed[i]
  <2>1. DOMAIN d.claims = DOMAIN printed
    BY DEF PrepareResponse
  <2> QED  BY <2>1, PrintedClaim
<1>7. Require(/\ \A i, j \in DOMAIN d.claims : d.claims[i].claim_id = d.claims[j].claim_id => i = j
              /\ \A i \in DOMAIN d.claims : d.claims[i].claim_id \in {"B1", "G1"},
              "CLAIM_ID") = OK
  <2>1. /\ \A i, j \in DOMAIN printed : printed[i] = printed[j] => i = j
        /\ \A i \in DOMAIN printed : printed[i] \in {"B1", "G1"}
    BY DEF ClaimLists
  <2> QED  BY <1>6, <2>1 DEF Require
<1> DEFINE outcomes == [i \in DOMAIN d.claims |-> Check(d.claims[i])]
<1>8. ForEach(outcomes) = OK
  <2>1. DOMAIN outcomes = DOMAIN d.claims /\ \A i \in DOMAIN outcomes : outcomes[i] = Check(d.claims[i])
    OBVIOUS
  <2> HIDE DEF outcomes, Check
  <2> QED  BY <1>5, <1>6, <2>1, AllPass
<1>9. CheckPrintedClaims(d, digest)
        = (Require(/\ \A i, j \in DOMAIN d.claims :
                         d.claims[i].claim_id = d.claims[j].claim_id => i = j
                   /\ \A i \in DOMAIN d.claims : d.claims[i].claim_id \in {"B1", "G1"},
                   "CLAIM_ID") && ForEach(outcomes))
  BY <1>3 DEF CheckPrintedClaims
<1> HIDE DEF outcomes
<1> QED  BY <1>1, <1>7, <1>8, <1>9, BothPass

\* The claim of an id is the one that is printed under it.
LEMMA ClaimUnder ==
  ASSUME NEW s, NEW nonce, NEW printed \in ClaimLists, NEW d, NEW id,
         d = PrepareResponse(s, nonce, printed)
  PROVE  /\ HasClaim(d.claims, id) <=> \E i \in DOMAIN printed : printed[i] = id
         /\ HasClaim(d.claims, id) =>
               \E i \in DOMAIN printed : printed[i] = id /\ ClaimWithId(d.claims, id) = d.claims[i]
<1>1. DOMAIN d.claims = DOMAIN printed
  BY DEF PrepareResponse
<1>2. \A i \in DOMAIN printed : d.claims[i].claim_id = printed[i]
  BY PrintedClaim
<1> QED  BY <1>1, <1>2 DEF HasClaim, ClaimWithId

\* Each row of the audit report agrees with the claims.
LEMMA AuditPasses ==
  ASSUME NEW s, NEW nonce, NEW printed \in ClaimLists, NEW d,
         d = PrepareResponse(s, nonce, printed)
  PROVE  CheckAuditRows(d.audit_report, d.claims) = OK /\ CheckAuditBindings(d) = OK
<1>1. PICK audit : audit = d.audit_report
  OBVIOUS
<1>2. audit = AuditReport(s, printed)
  BY <1>1 DEF PrepareResponse
<1>3. PICK rows : rows = audit.claim_support_rows
  OBVIOUS
<1> DEFINE Printed(id) == \E i \in DOMAIN printed : printed[i] = id
<1>4. ASSUME NEW k \in DOMAIN AuditRows
      PROVE  rows[k].claim_id = AuditRows[k] /\ CheckAuditRow(rows[k], d.claims) = OK
  <2>1. PICK id : id = AuditRows[k]
    OBVIOUS
  <2>2. PICK row : row = rows[k]
    OBVIOUS
  <2>3. /\ row.claim_id = id
        /\ Printed(id) =>
              /\ row.verifier = Verifier(id)
              /\ row.evidence_basis = (IF id = "B1" THEN "issuer_verified" ELSE "client_declared")
              /\ row.claim_material_digest = ClaimMaterialDigest(ClaimMaterial(DraftClaim(s, id)))
        /\ ~Printed(id) => /\ row.evidence_basis = "abstained"
                           /\ row.abstention_code = AbstentionCode(id)
    BY <1>2, <1>3, <2>1, <2>2, AuditFacts
  <2>4. CASE Printed(id)
    <3>1. PICK i \in DOMAIN printed : printed[i] = id /\ ClaimWithId(d.claims, id) = d.claims[i]
      BY <2>4, ClaimUnder
    <3>2. /\ HasClaim(d.claims, id) /\ d.claims[i].verifier = Verifier(id)
          /\ ClaimMaterial(d.claims[i]) = ClaimMaterial(DraftClaim(s, id))
      BY <2>4, <3>1, ClaimUnder, PrintedClaim
    <3>3. CheckAuditRow(row, d.claims) = OK
      BY <2>3, <2>4, <3>1, <3>2 DEF CheckAuditRow, &&, Require
    <3> QED  BY <2>1, <2>2, <2>3, <3>3
  <2>5. CASE ~Printed(id)
    <3>1. ~HasClaim(d.claims, id)
      BY <2>5, ClaimUnder
    <3>2. CheckAuditRow(row, d.claims) = OK
      BY <2>3, <2>5, <3>1 DEF CheckAuditRow, Require
    <3> QED  BY <2>1, <2>2, <2>3, <3>2
  <2> QED  BY <2>4, <2>5
<1>5. DOMAIN rows = DOMAIN AuditRows
  BY <1>2, <1>3, AuditFacts
<1>6. CheckAuditRows(audit, d.claims) = OK
  <2> DEFINE outcomes == [i \in DOMAIN rows |-> CheckAuditRow(rows[i], d.claims)]
  <2>1. DOMAIN outcomes = DOMAIN rows /\ \A i \in DOMAIN outcomes : outcomes[i] = OK
    BY <1>4, <1>5
  <2>2. [i \in DOMAIN rows |-> rows[i].claim_id] = AuditRows
    BY <1>4, <1>5 DEF AuditRows
  <2>3. CheckAuditRows(audit, d.claims)
          = (Require([i \in DOMAIN rows |-> rows[i].claim_id] = AuditRows, "AUDIT_ROWS")
             && ForEach(outcomes))
    BY <1>3 DEF CheckAuditRows
  <2> HIDE DEF outcomes
  <2>4. ForEach(outcomes) = OK
    BY <2>1, AllPass
  <2> QED  BY <2>2, <2>3, <2>4, BothPass DEF Require
<1>7. CheckAuditBindings(d) = OK
  <2>1. /\ d.subject = Subject(s) /\ d.ledger_seal_projection = Seal(s)
        /\ d.manifest.compiler_register_versions = Registers
    BY DEF PrepareResponse
  <2>2. d.subject.build_session_ref = s
    BY <2>1 DEF Subject
  <2>3. /\ audit.build_session_ref = s /\ audit.compiler_register_versions = Registers
        /\ audit.ledger_seal_statement_digest = Seal(s).seal_statement_digest
        /\ audit.client_evidence_manifest_root = (IF Printed("G1") THEN ClientRoot(s) ELSE ABSENT)
    BY <1>2, AuditFacts
  <2>4. audit.client_evidence_manifest_root
          = (IF HasClaim(d.claims, "G1")
             THEN ClaimWithId(d.claims, "G1").params.manifest_root_digest ELSE ABSENT)
    <3>1. CASE Printed("G1")
      <4>1. PICK i \in DOMAIN printed :
               printed[i] = "G1" /\ ClaimWithId(d.claims, "G1") = d.claims[i]
        BY <3>1, ClaimUnder
      <4>2. d.claims[i].params = ClaimParams(s, "G1")
        BY <4>1, PrintedClaim
      <4>3. ClaimParams(s, "G1").manifest_root_digest = ClientRoot(s)
        BY DEF ClaimParams
      <4> QED  BY <2>3, <3>1, <4>1, <4>2, <4>3, ClaimUnder
    <3>2. CASE ~Printed("G1")
      BY <2>3, <3>2, ClaimUnder
    <3> QED  BY <3>1, <3>2
  <2> QED  BY <1>1, <2>1, <2>2, <2>3, <2>4 DEF CheckAuditBindings, &&, Require
<1> QED  BY <1>1, <1>6, <1>7

\* Each claim of the response has the verifier that the policy pins for it.
LEMMA ResponseMeetsPolicy ==
  ASSUME NEW s, NEW nonce, NEW printed, NEW d, NEW c,
         d = PrepareResponse(s, nonce, printed),
         c.claims = d.claims, c.manifest = d.manifest, BoundToManifest(c),
         d.manifest.compiler_register_versions = Registers,
         CheckClaimsAndAudit(d, AuditDigest(d.audit_report)) = OK
  PROVE  CheckPolicy(c, Policy) = OK
<1>1. /\ Policy.compiler_register_versions = Registers /\ Policy.verifier_bindings = Versions
  BY DEF Policy
<1>2. CheckPrintedClaims(d, AuditDigest(d.audit_report)) = OK
  BY BothPass DEF CheckClaimsAndAudit
<1>3. \A i \in DOMAIN d.claims : d.claims[i].claim_id \in {"B1", "G1"}
  <2>1. Require(/\ \A i, j \in DOMAIN d.claims :
                      d.claims[i].claim_id = d.claims[j].claim_id => i = j
                /\ \A i \in DOMAIN d.claims : d.claims[i].claim_id \in {"B1", "G1"},
                "CLAIM_ID") = OK
    BY <1>2, BothPass DEF CheckPrintedClaims
  <2> QED  BY <2>1 DEF Require, OK
<1> DEFINE Outcome(claim) ==
             Require(/\ claim.claim_id \in DOMAIN Policy.verifier_bindings
                     /\ <<claim.verifier.verifier_id, claim.verifier.verifier_version>>
                           = Policy.verifier_bindings[claim.claim_id], "POLICY")
           outcomes == [i \in DOMAIN c.claims |-> Outcome(c.claims[i])]
<1>4. ASSUME NEW i \in DOMAIN c.claims
      PROVE  outcomes[i] = OK
  <2>1. PICK claim : claim = c.claims[i] /\ claim.claim_id \in {"B1", "G1"}
                     /\ claim.verifier = Verifier(claim.claim_id)
    BY <1>3, ResponseClaims
  <2>2. /\ claim.claim_id \in DOMAIN Versions
        /\ Versions[claim.claim_id] = <<Versions[claim.claim_id][1], Versions[claim.claim_id][2]>>
    BY <2>1, VersionsAssumption
  <2>3. <<claim.verifier.verifier_id, claim.verifier.verifier_version>> = Versions[claim.claim_id]
    BY <2>1, <2>2 DEF Verifier
  <2>4. Outcome(claim) = OK
    BY <1>1, <2>2, <2>3 DEF Require
  <2> QED  BY <2>1, <2>4
<1>5. DOMAIN outcomes = DOMAIN c.claims
  OBVIOUS
<1>6. ForEach(outcomes) = OK
  <2> HIDE DEF outcomes
  <2> QED  BY <1>4, <1>5, AllPass
<1>7. /\ Require(c.manifest.compiler_register_versions = Policy.compiler_register_versions,
                 "POLICY") = OK
      /\ Require(c.semantics = Policy.compiler_register_versions.semantics, "POLICY") = OK
  BY <1>1 DEF BoundToManifest, Require
<1> QED  BY <1>6, <1>7, BothPass DEF CheckPolicy

\* Every check of the content of what the issuer finalizes passes.
LEMMA FinalizedIsValid ==
  ASSUME NEW s \in Sessions, NEW nonce, NEW printed \in ClaimLists, NEW c,
         c = Finalized(s, nonce, printed), RequiresClient(c.claims) => c.co_attestation # ABSENT
  PROVE  ValidatedDocument(c, Policy) = OK
<1>1. PICK d : d = PrepareResponse(s, nonce, printed)
  OBVIOUS
<1>2. /\ ClosedMembers(c) /\ BoundToManifest(c) /\ Projection(c) = d
      /\ ~RequiresClient(c.claims) => c.co_attestation = ABSENT
  BY <1>1, FinalizedFacts
<1>3. /\ c.subject = d.subject /\ c.claims = d.claims /\ c.manifest = d.manifest
      /\ c.ledger_seal_projection = d.ledger_seal_projection
      /\ c.non_claims = d.non_claims /\ c.disclosure_profile = d.disclosure_profile
      /\ c.audit_report = d.audit_report
  <2>1. c = EnvelopeOf(c)
    BY <1>2 DEF ClosedMembers
  <2> QED  BY <1>2, <2>1 DEF EnvelopeOf, Projection
<1>4. PICK digest : digest = AuditDigest(d.audit_report)
  OBVIOUS
<1>5. CheckClaimsAndAudit(d, digest) = OK
  BY <1>1, <1>4, PrintedClaimsPass, AuditPasses, KeysAssumption, BothPass DEF CheckClaimsAndAudit
<1>6. CheckStreams(d.ledger_seal_projection) = OK
  <2>1. d.ledger_seal_projection = Seal(s)
    BY <1>1 DEF PrepareResponse
  <2>2. /\ Seal(s).chain_schema_version = ChainSchemaVersion
        /\ Seal(s).seal_statement_digest = SealDigest(Seal(s))
        /\ Seal(s).expected_stream_projection.sealed
    BY DEF Seal, SealDigest
  <2> QED  BY <2>1, <2>2 DEF CheckStreams, &&, Require
<1>7. CheckProjections(d, digest) = OK
  <2>1. /\ d.manifest.subject = d.subject /\ d.manifest.seal = d.ledger_seal_projection
        /\ d.manifest.claims = d.claims /\ d.manifest.non_claims = d.non_claims
        /\ d.manifest.disclosure_profile = d.disclosure_profile
        /\ d.manifest.evidence_digests = ExpectedEvidence(d.claims, digest)
    BY <1>1, <1>4, ResponseFacts DEF BoundToManifest
  <2>2. /\ d.non_claims = NonClaims /\ d.manifest.tiers = Tiers(d.claims)
        /\ d.subject = Subject(s) /\ d.ledger_seal_projection = Seal(s)
    BY <1>1 DEF PrepareResponse
  <2>3. d.subject.build_session_ref = s /\ d.ledger_seal_projection.build_session_ref = s
    BY <2>2 DEF Subject, Seal
  <2> QED  BY <2>1, <2>2, <2>3 DEF CheckProjections, &&, Require
<1>8. /\ CheckStreams(c.ledger_seal_projection) = OK
      /\ CheckProjections(c, AuditDigest(c.audit_report)) = OK
      /\ CheckClaimsAndAudit(c, AuditDigest(c.audit_report)) = OK
  BY <1>3, <1>4, <1>5, <1>6, <1>7, ContentChecksKept
<1>9. CheckPolicy(c, Policy) = OK
  <2>1. d.manifest.compiler_register_versions = Registers
    BY <1>1 DEF PrepareResponse
  <2> QED  BY <1>1, <1>2, <1>3, <1>4, <1>5, <2>1, ResponseMeetsPolicy
<1>10. SchemaValid(c)
  BY <1>2 DEF SchemaValid, RequiresClient
<1>11. /\ Require(c.audit_report.build_session_ref = c.subject.build_session_ref,
                  "SESSION_REF") = OK
       /\ Require(c.audit_report.ledger_seal_statement_digest
                     = c.ledger_seal_projection.seal_statement_digest, "SEAL_DIGEST") = OK
  <2>1. CheckAuditBindings(c) = OK
    BY <1>8, BothPass DEF CheckClaimsAndAudit
  <2> QED  BY <2>1, BothPass DEF CheckAuditBindings
<1>12. /\ Require(SchemaValid(c), "SCHEMA") = OK
       /\ Require(c.manifest_digest = ManifestDigest(c.manifest), "MANIFEST_DIGEST") = OK
       /\ Require(c.coverage = Coverage, "COVERAGE") = OK
       /\ Require(c.semantics = c.manifest.compiler_register_versions.semantics, "SEMANTICS") = OK
       /\ Require(c.disclosure_profile = c.manifest.disclosure_profile, "DISCLOSURE_PROFILE") = OK
  BY <1>2, <1>10 DEF BoundToManifest, Require
<1> QED  BY <1>8, <1>9, <1>11, <1>12, BothPass DEF ValidatedDocument

\* The members of the ring of what the issuer finalizes.
LEMMA FinalizedRing ==
  ASSUME NEW s, NEW nonce, NEW printed, NEW c, NEW ring, NEW client,
         c = Finalized(s, nonce, printed), ring = c.manifest.key_ring_identifiers,
         client = RequiresClient(c.claims)
  PROVE  /\ c.subject.project_ref = Plan[s].project_ref
         /\ ring.issuer_key_ref = "ikr" /\ ring.trust_ring_ref = Plan[s].trust_ring_ref
         /\ ring.issuer_signature_algorithm = IssuerKey.algorithm
         /\ ring.client_key_ref = (IF client THEN KeyRef(s) ELSE ABSENT)
         /\ ring.client_signature_algorithm
               = (IF client THEN Plan[s].client_key.algorithm ELSE ABSENT)
<1>1. PICK d : d = PrepareResponse(s, nonce, printed)
  OBVIOUS
<1>2. Projection(c) = d /\ ClosedMembers(c)
  BY <1>1, FinalizedFacts
<1>3. c.manifest = d.manifest /\ c.subject = d.subject /\ c.claims = d.claims
  BY <1>2, ProjectionKeeps
<1>4. /\ d.subject = Subject(s)
      /\ d.manifest.key_ring_identifiers
            = [issuer_key_ref |-> "ikr", issuer_signature_algorithm |-> IssuerKey.algorithm,
               trust_ring_ref |-> Plan[s].trust_ring_ref,
               client_key_ref |-> IF RequiresClient(d.claims) THEN KeyRef(s) ELSE ABSENT,
               client_signature_algorithm |->
                  IF RequiresClient(d.claims) THEN Plan[s].client_key.algorithm ELSE ABSENT]
  BY <1>1 DEF PrepareResponse
<1>5. d.subject.project_ref = Plan[s].project_ref
  BY <1>4 DEF Subject
<1> QED  BY <1>3, <1>4, <1>5

\* The relying party finds the session, the nonce and the keys it pins.
LEMMA FinalizedInContext ==
  ASSUME NEW s \in Sessions, NEW nonce, NEW printed \in ClaimLists, NEW c,
         c = Finalized(s, nonce, printed)
  PROVE  CheckContext(c, Context(s, nonce, RequiresClient(c.claims))) = OK
<1>1. PICK client \in BOOLEAN : client = RequiresClient(c.claims)
  BY DEF RequiresClient
<1>2. PICK ctx : ctx = Context(s, nonce, client)
  OBVIOUS
<1>3. PICK ring : ring = c.manifest.key_ring_identifiers
  OBVIOUS
<1>4. PICK d : d = PrepareResponse(s, nonce, printed)
  OBVIOUS
<1>5. /\ ClosedMembers(c) /\ BoundToManifest(c) /\ Projection(c) = d
      /\ c.manifest.freshness_nonce = nonce /\ c.subject.build_session_ref = s
  BY <1>4, FinalizedFacts
<1>6. /\ c.subject.project_ref = Plan[s].project_ref
      /\ ring.issuer_key_ref = "ikr" /\ ring.trust_ring_ref = Plan[s].trust_ring_ref
      /\ ring.issuer_signature_algorithm = IssuerKey.algorithm
      /\ ring.client_key_ref = (IF client THEN KeyRef(s) ELSE ABSENT)
      /\ ring.client_signature_algorithm = (IF client THEN Plan[s].client_key.algorithm ELSE ABSENT)
  BY <1>1, <1>3, FinalizedRing
<1>7. /\ ctx.nonce = nonce /\ ctx.build_session_ref = s /\ ctx.project_ref = Plan[s].project_ref
      /\ ctx.issuer_key_ref = "ikr" /\ ctx.issuer_algorithm = IssuerKey.algorithm
      /\ ctx.trust_ring_ref = Plan[s].trust_ring_ref
      /\ ctx.client_key_ref = (IF client THEN KeyRef(s) ELSE ABSENT)
      /\ ctx.client_algorithm = (IF client THEN Plan[s].client_key.algorithm ELSE ABSENT)
      /\ client => ctx.client_public_key = Plan[s].client_key
  BY <1>2 DEF Context
<1>8. /\ KeyRef(s) # ABSENT /\ Plan[s].client_key # ABSENT
      /\ Plan[s].client_key.algorithm \in Algorithms /\ Plan[s].client_key.algorithm # ABSENT
      /\ Plan[s].project_ref # ABSENT
  BY KeysAssumption, PlanAssumption
<1>9. ContextPinned(c.manifest, c.issuer_signature, ctx)
  BY <1>3, <1>5, <1>6, <1>7 DEF ContextPinned, RingPinned, BoundToManifest
<1>10. CASE client
  <2>1. \A i \in DOMAIN c.manifest.claims :
          c.manifest.claims[i].claim_id = "G1" =>
             /\ c.manifest.claims[i].params.build_session_ref = c.manifest.subject.build_session_ref
             /\ c.manifest.claims[i].params.client_key_ref = ring.client_key_ref
    <3>1. c.manifest.claims = d.claims
      BY <1>5, ProjectionKeeps DEF BoundToManifest
    <3>2. c.manifest.subject.build_session_ref = s
      BY <1>5 DEF BoundToManifest
    <3> QED  BY <1>4, <1>6, <1>10, <3>1, <3>2, ResponseClaims
  <2>2. DeriveClientKeyRef(ctx.project_ref, ring.client_signature_algorithm, ctx.client_public_key)
           = ring.client_key_ref
    BY <1>6, <1>7, <1>10 DEF KeyRef
  <2>3. CanDerive(ring.client_signature_algorithm, ctx.client_public_key)
    BY <1>6, <1>7, <1>8, <1>10 DEF CanDerive
  <2>4. CheckClientRingContext(c.manifest, ctx) = OK
    BY <1>3, <1>6, <1>7, <1>8, <1>10, <2>1, <2>2, <2>3 DEF CheckClientRingContext, &&, Require
  <2>5. CheckContext(c, ctx) = OK
    BY <1>3, <1>6, <1>7, <1>8, <1>9, <1>10, <2>4 DEF CheckContext, &&, Require
  <2> QED  BY <1>1, <1>2, <2>5
<1>11. CASE ~client
  <2>1. CheckContext(c, ctx) = OK
    BY <1>3, <1>6, <1>7, <1>8, <1>9, <1>11 DEF CheckContext, &&, Require
  <2> QED  BY <1>1, <1>2, <2>1
<1> QED  BY <1>10, <1>11

\* The client's signature verifies, or neither is there.
LEMMA FinalizedIsCoAttested ==
  ASSUME NEW s \in Sessions, NEW nonce, NEW printed \in ClaimLists, NEW c,
         c = Finalized(s, nonce, printed), RequiresClient(c.claims) => c.co_attestation # ABSENT
  PROVE  VerifyCoAttestation(c, Context(s, nonce, RequiresClient(c.claims))) = OK
<1>1. PICK client \in BOOLEAN : client = RequiresClient(c.claims)
  BY DEF RequiresClient
<1>2. PICK ctx : ctx = Context(s, nonce, client)
  OBVIOUS
<1>3. PICK d : d = Projection(c)
  OBVIOUS
<1>4. /\ c.manifest.freshness_nonce = nonce
      /\ c.manifest.key_ring_identifiers.client_key_ref = (IF client THEN KeyRef(s) ELSE ABSENT)
      /\ c.manifest.key_ring_identifiers.client_signature_algorithm
            = (IF client THEN Plan[s].client_key.algorithm ELSE ABSENT)
      /\ ~client => c.co_attestation = ABSENT
      /\ client => c.co_attestation = CoAttestation(s, nonce, d)
  BY <1>1, <1>3, FinalizedFacts, FinalizedRing
<1>5. /\ ctx.nonce = nonce /\ ctx.client_key_ref = (IF client THEN KeyRef(s) ELSE ABSENT)
      /\ ctx.client_algorithm = (IF client THEN Plan[s].client_key.algorithm ELSE ABSENT)
      /\ ctx.client_public_key = (IF client THEN Plan[s].client_key ELSE ABSENT)
  BY <1>2 DEF Context
<1>6. CASE ~client
  <2>1. VerifyCoAttestation(c, ctx) = OK
    BY <1>1, <1>4, <1>5, <1>6 DEF VerifyCoAttestation, Require
  <2> QED  BY <1>1, <1>2, <2>1
<1>7. CASE client
  <2>1. PICK co : co = c.co_attestation
    OBVIOUS
  <2>2. /\ co.client_key_ref = KeyRef(s) /\ co.algorithm = Plan[s].client_key.algorithm
        /\ co.nonce = nonce /\ co.signed_manifest_digest = ProjectionDigest(d)
        /\ co.signature = Signature(Plan[s].client_key, ClientMaterial(d), "canonical")
    BY <1>4, <1>7, <2>1 DEF CoAttestation
  <2>3. /\ co.signature.form = "canonical" /\ co.signature.key = Plan[s].client_key
        /\ co.signature.material = ClientMaterial(d)
    BY <2>2 DEF Signature
  <2>4. Plan[s].client_key # ABSENT /\ co.algorithm \in Algorithms
    BY <2>2, KeysAssumption
  <2>5. VerifySignature(ctx.client_public_key, co.algorithm, ClientMaterial(Projection(c)),
                        co.signature) = OK
    BY <1>3, <1>5, <1>7, <2>2, <2>3, <2>4 DEF VerifySignature, &&, Require
  <2>6. VerifyCoAttestation(c, ctx) = OK
    BY <1>1, <1>3, <1>4, <1>5, <1>7, <2>1, <2>2, <2>3, <2>4, <2>5
    DEF VerifyCoAttestation, &&, Require
  <2> QED  BY <1>1, <1>2, <2>6
<1> QED  BY <1>6, <1>7

\* What the issuer finalizes passes verify_certificate.
LEMMA FinalizedVerifies ==
  ASSUME NEW s \in Sessions, NEW nonce, NEW printed \in ClaimLists, NEW c,
         c = Finalized(s, nonce, printed), RequiresClient(c.claims) => c.co_attestation # ABSENT
  PROVE  VerifyCertificate(c, IssuerKey, Context(s, nonce, RequiresClient(c.claims)), Policy) = OK
<1>1. PICK ctx : ctx = Context(s, nonce, RequiresClient(c.claims))
  OBVIOUS
<1>2. /\ BoundToManifest(c)
      /\ c.issuer_signature.signature
            = Signature(IssuerKey, IssuerMaterial(c.manifest), "canonical")
  BY FinalizedFacts
<1>3. c.manifest.key_ring_identifiers.issuer_signature_algorithm = IssuerKey.algorithm
  BY FinalizedRing
<1>4. /\ c.issuer_signature.algorithm = IssuerKey.algorithm
      /\ c.issuer_signature.signed_payload = "unsigned_manifest"
  BY <1>2, <1>3 DEF BoundToManifest, SignatureOfRing
<1>5. VerifySignature(IssuerKey, c.issuer_signature.algorithm, IssuerMaterial(c.manifest),
                      c.issuer_signature.signature) = OK
  <2>1. /\ c.issuer_signature.signature.key = IssuerKey
        /\ c.issuer_signature.signature.material = IssuerMaterial(c.manifest)
        /\ c.issuer_signature.signature.form = "canonical"
    BY <1>2 DEF Signature
  <2> QED  BY <1>4, <2>1, KeysAssumption DEF VerifySignature, &&, Require
<1>6. /\ ValidatedDocument(c, Policy) = OK /\ CheckContext(c, ctx) = OK
      /\ VerifyCoAttestation(c, ctx) = OK
  BY <1>1, FinalizedIsValid, FinalizedInContext, FinalizedIsCoAttested
<1> QED  BY <1>1, <1>4, <1>5, <1>6 DEF VerifyCertificate, &&, Require

\* c is what the issuer finalizes for session s, materials are those published
\* for it, and ctx is the context of a caller that does not hold the client's key.
Retrievable(c, s, nonce, printed, client, ref, materials, ctx) ==
    /\ s \in Sessions /\ printed \in ClaimLists
    /\ c = Finalized(s, nonce, printed)
    /\ client = RequiresClient(c.claims)
    /\ RequiresClient(c.claims) => c.co_attestation # ABSENT
    /\ materials = Materials(ref, s, client)
    /\ ctx = [Context(s, nonce, client) EXCEPT !.client_public_key = ABSENT]

\* And verify_certificate_with_materials, with the materials published for it,
\* by a caller that does not hold the client's key.
LEMMA FinalizedVerifiesWithMaterials ==
  ASSUME NEW c, NEW s, NEW nonce, NEW printed, NEW client, NEW ref, NEW materials, NEW ctx,
         Retrievable(c, s, nonce, printed, client, ref, materials, ctx),
         NEW bare, bare = [wrapped |-> FALSE, signed_certificate |-> c]
  PROVE  VerifyWithMaterials(bare, materials, materials.materials_digest, ref, ctx, FALSE) = OK
<1>0. /\ s \in Sessions /\ printed \in ClaimLists
      /\ c = Finalized(s, nonce, printed)
      /\ client = RequiresClient(c.claims)
      /\ client => c.co_attestation # ABSENT
      /\ materials = Materials(ref, s, client)
  BY DEF Retrievable
<1> USE <1>0 DEF OK
<1>1. client \in BOOLEAN
  BY DEF RequiresClient
<1>2. ctx = [Context(s, nonce, client) EXCEPT !.client_public_key = ABSENT]
  BY DEF Retrievable
<1>3. PICK ring : ring = c.manifest.key_ring_identifiers
  OBVIOUS
<1>4. /\ ctx.project_ref = Plan[s].project_ref
      /\ ctx.issuer_key_ref = "ikr" /\ ctx.issuer_algorithm = IssuerKey.algorithm
      /\ ctx.trust_ring_ref = Plan[s].trust_ring_ref
      /\ ctx.client_key_ref = (IF client THEN KeyRef(s) ELSE ABSENT)
      /\ ctx.client_algorithm = (IF client THEN Plan[s].client_key.algorithm ELSE ABSENT)
      /\ ctx.client_public_key = ABSENT
  BY <1>2 DEF Context
<1>5. /\ ring.issuer_key_ref = "ikr" /\ ring.trust_ring_ref = Plan[s].trust_ring_ref
      /\ ring.issuer_signature_algorithm = IssuerKey.algorithm
      /\ ring.client_key_ref = (IF client THEN KeyRef(s) ELSE ABSENT)
      /\ ring.client_signature_algorithm = (IF client THEN Plan[s].client_key.algorithm ELSE ABSENT)
  BY <1>3, FinalizedRing
<1>6. /\ materials.certificate_ref = ref /\ materials.policy = Policy
      /\ materials.issuer = [key_ref |-> "ikr", algorithm |-> IssuerKey.algorithm,
                             trust_ring_ref |-> Plan[s].trust_ring_ref, public_key |-> IssuerKey,
                             public_key_digest |-> [spki |-> IssuerKey]]
      /\ materials.client = (IF client THEN KeyMaterial(KeyRef(s), Plan[s].client_key) ELSE ABSENT)
  BY DEF Materials
<1>7. MaterialsDigest(materials) = materials.materials_digest
  BY DEF Materials, MaterialsDigest
<1>8. /\ BoundToManifest(c) /\ c.manifest.claims = c.claims
      /\ ~client => c.co_attestation = ABSENT
      /\ client => /\ c.co_attestation.client_key_ref = KeyRef(s)
                   /\ c.co_attestation.algorithm = Plan[s].client_key.algorithm
  <2>1. /\ BoundToManifest(c)
        /\ ~client => c.co_attestation = ABSENT
        /\ client => c.co_attestation = CoAttestation(s, nonce, Projection(c))
    BY FinalizedFacts
  <2>2. c.manifest.claims = c.claims
    BY <2>1 DEF BoundToManifest
  <2>3. \A p : /\ CoAttestation(s, nonce, p).client_key_ref = KeyRef(s)
              /\ CoAttestation(s, nonce, p).algorithm = Plan[s].client_key.algorithm
    BY DEF CoAttestation
  <2> QED  BY <2>1, <2>2, <2>3
<1>9. PICK key : key = IF materials.client = ABSENT THEN ABSENT ELSE materials.client.public_key
  OBVIOUS
<1>10. [ctx EXCEPT !.client_public_key = key] = Context(s, nonce, client)
  <2>1. key = IF client THEN Plan[s].client_key ELSE ABSENT
    BY <1>1, <1>6, <1>9, KeysAssumption DEF KeyMaterial
  <2>2. PICK full : full = Context(s, nonce, client)
    OBVIOUS
  <2>3. /\ full.client_public_key = key
        /\ full = [nonce |-> full.nonce, build_session_ref |-> full.build_session_ref,
                   project_ref |-> full.project_ref, issuer_key_ref |-> full.issuer_key_ref,
                   issuer_algorithm |-> full.issuer_algorithm,
                   trust_ring_ref |-> full.trust_ring_ref,
                   client_key_ref |-> full.client_key_ref,
                   client_algorithm |-> full.client_algorithm,
                   client_public_key |-> full.client_public_key]
    BY <2>1, <2>2 DEF Context
  <2>4. [[full EXCEPT !.client_public_key = ABSENT] EXCEPT !.client_public_key = key] = full
    BY <2>3
  <2> QED  BY <1>2, <2>2, <2>4
<1>11. VerifyCertificate(c, materials.issuer.public_key, [ctx EXCEPT !.client_public_key = key],
                         materials.policy) = OK
  BY <1>6, <1>10, FinalizedVerifies
<1>12. MaterialKey(materials.issuer) = OK
  BY <1>6 DEF MaterialKey, Require
<1>13. (IF materials.client = ABSENT THEN OK ELSE MaterialKey(materials.client)) = OK
  BY <1>1, <1>6 DEF MaterialKey, KeyMaterial, Require
<1>14. CheckMaterialsBindings(c, materials, ref, ctx) = OK
  <2>1. (RequiresClient(c.manifest.claims) \/ c.co_attestation # ABSENT) = client
    BY <1>1, <1>8
  <2>2. (materials.client # ABSENT) = client
    BY <1>1, <1>6, KeysAssumption
  <2>3. /\ materials.issuer.key_ref = "ikr" /\ materials.issuer.algorithm = IssuerKey.algorithm
        /\ materials.issuer.trust_ring_ref = Plan[s].trust_ring_ref
    BY <1>6
  <2>4. ASSUME client
        PROVE  ClientBindings(c, materials.client, ctx) = OK
    <3>1. /\ materials.client.key_ref = KeyRef(s)
          /\ materials.client.algorithm = Plan[s].client_key.algorithm
          /\ materials.client.public_key = Plan[s].client_key
      BY <1>6, <2>4 DEF KeyMaterial
    <3> QED  BY <1>3, <1>4, <1>5, <1>8, <2>4, <3>1 DEF ClientBindings, KeyRef, Require
  <2> QED  BY <1>1, <1>3, <1>4, <1>5, <1>6, <2>1, <2>2, <2>3, <2>4
           DEF CheckMaterialsBindings, &&, Require
<1>15. UnwrapRetrieval(bare, ref, FALSE) = OK
  BY DEF UnwrapRetrieval, Require
<1>16. Require(/\ materials.materials_digest = materials.materials_digest
               /\ MaterialsDigest(materials) = materials.materials_digest, "MATERIALS_DIGEST") = OK
  BY <1>7 DEF Require
<1>17. bare.signed_certificate = c /\ bare.wrapped = FALSE
  OBVIOUS
<1> QED  BY <1>9, <1>11, <1>12, <1>13, <1>14, <1>15, <1>16, <1>17 DEF VerifyWithMaterials, &&
=============================================================================
