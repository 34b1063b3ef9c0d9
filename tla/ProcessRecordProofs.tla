------------------------- MODULE ProcessRecordProofs -------------------------
(***************************************************************************)
(* For every set of sessions, every base certificate the issuer finalizes  *)
(* and whatever arrives: the Process Record verifier implements the        *)
(* register of what the backend signed, a revocation takes effect within   *)
(* the age limit of a snapshot, the report shows the last receipts that    *)
(* were recorded, and what the backend signs verifies. The invariant says  *)
(* what the documents that the backend and the trust anchor signed look    *)
(* like; the rest follows from what the checks establish about any bundle, *)
(* and from what they find in one that was signed.                         *)
(***************************************************************************)
EXTENDS ProcessRecordProtocol, CertificateLemmas, FiniteSetTheorems, WellFoundedInduction
-----------------------------------------------------------------------------
(* The inductive invariant *)

\* The backend bases its records on certificates the issuer finalized.
BasesInv ==
    /\ world \in Worlds
    /\ certificates = [ref \in DOMAIN world.bases |-> Bases[world.bases[ref]]]

\* What the backend signs is a bundle over the receipts of a session, with a
\* report derived from some receipts of that session.
IssuedInv ==
    /\ \A s \in Sessions : ledger[s] = ReceiptsOf(ledger[s])
    /\ DOMAIN ledger = Sessions
    /\ \A i \in issued :
          \E ref \in Refs : \E rs, compiled :
             /\ rs = ReceiptsOf(rs)
             /\ i.bundle = Bundle(ref, rs, DeriveReport(compiled, Plan[SessionOf(ref)].project_ref,
                                                        SessionOf(ref)),
                                  certificates[ref].commitments)

\* A snapshot is dated, and calls active only what had not been revoked before
\* its date.
NotRevokedBefore(x, time) == revoked[x] = ABSENT \/ revoked[x] >= time
SnapshotInv(snapshot) ==
    LET keys == snapshot.key_status
        references == snapshot.certificate_status
    IN  /\ snapshot.effective_time \in Nat
        /\ snapshot.effective_time <= clock
        /\ DOMAIN keys \subseteq Nat
        /\ DOMAIN references \subseteq Nat
        /\ \A i \in DOMAIN keys :
              /\ keys[i].status = "active"
              /\ keys[i].trust_ring_ref \in DOMAIN revoked
              => NotRevokedBefore(keys[i].trust_ring_ref, snapshot.effective_time)
        /\ \A i \in DOMAIN references :
              /\ references[i].status = "active"
              /\ references[i].certificate_ref \in DOMAIN revoked
              => NotRevokedBefore(references[i].certificate_ref, snapshot.effective_time)
StatusInv ==
    /\ clock \in Nat
    /\ DOMAIN revoked = Rings \cup Refs
    /\ \A x \in DOMAIN revoked : revoked[x] = ABSENT \/ revoked[x] \in Nat
    /\ \A e \in snapshots : e = Envelope(e.snapshot) /\ SnapshotInv(e.snapshot)

RecordInv == BasesInv /\ IssuedInv /\ StatusInv
-----------------------------------------------------------------------------
(* Signatures *)

\* The four kinds of signed material are told apart by their domain.
LEMMA MaterialsDiffer ==
  \A a, b : /\ IssuerMaterial(a) # ClientMaterial(b)
            /\ IssuerMaterial(a) # ProcessMaterial(b)
            /\ IssuerMaterial(a) # SnapshotMaterial(b)
            /\ ClientMaterial(a) # ProcessMaterial(b)
            /\ ClientMaterial(a) # SnapshotMaterial(b)
            /\ ProcessMaterial(a) # SnapshotMaterial(b)
  BY DEF IssuerMaterial, ClientMaterial, ProcessMaterial, SnapshotMaterial

\* The base certificate of a reference is one that the issuer finalized.
LEMMA BaseFacts ==
  ASSUME BasesInv, NEW ref \in Refs
  PROVE  \E printed : certificates[ref].certificate
                         = Finalized(SessionOf(ref), certificates[ref].nonce, printed)
<1>1. certificates[ref] = Bases[world.bases[ref]] /\ ref \in DOMAIN world.bases
  BY DEF BasesInv, Refs
<1>2. world.bases[ref] \in DOMAIN Bases
  BY <1>1, WorldsAssumption DEF BasesInv
<1> QED  BY <1>1, <1>2, BasesAssumption DEF SessionOf

\* A reference is told by the session and the nonce of its certificate.
LEMMA BaseOfNonce ==
  ASSUME BasesInv, NEW p \in Refs, NEW q \in Refs, SessionOf(p) = SessionOf(q),
         certificates[p].nonce = certificates[q].nonce
  PROVE  p = q
<1>1. /\ certificates[p] = Bases[world.bases[p]] /\ p \in DOMAIN world.bases
      /\ certificates[q] = Bases[world.bases[q]] /\ q \in DOMAIN world.bases
  BY DEF BasesInv, Refs
<1> QED  BY <1>1, NonceAssumption DEF BasesInv, SessionOf

\* What each signature that exists is on.
LEMMA BaseSignatures ==
  ASSUME BasesInv, NEW ref \in Refs
  PROVE  LET c == certificates[ref].certificate
         IN  /\ c.issuer_signature.signature.material = IssuerMaterial(c.manifest)
             /\ c.co_attestation # ABSENT =>
                   c.co_attestation.signature.material = ClientMaterial(Projection(c))
<1> DEFINE s == SessionOf(ref)
           n == certificates[ref].nonce
<1>1. PICK printed : certificates[ref].certificate = Finalized(s, n, printed)
  BY BaseFacts
<1> DEFINE c == Finalized(s, n, printed)
<1>2. /\ c.issuer_signature.signature = Signature(IssuerKey, IssuerMaterial(c.manifest), "canonical")
      /\ ~RequiresClient(c.claims) => c.co_attestation = ABSENT
      /\ RequiresClient(c.claims) => c.co_attestation = CoAttestation(s, n, Projection(c))
  BY FinalizedFacts
<1> HIDE DEF c
<1>3. c.co_attestation # ABSENT =>
         c.co_attestation.signature
            = Signature(Plan[s].client_key, ClientMaterial(Projection(c)), "canonical")
  BY <1>2 DEF CoAttestation
<1>4. certificates[ref].certificate = c
  BY <1>1 DEF c
<1> QED  BY <1>2, <1>3, <1>4, MaterialOfSignature

\* The members of a bundle that the backend signs.
LEMMA BundleFacts ==
  ASSUME NEW ref, NEW rs, NEW report, NEW commitments
  PROVE  LET b == Bundle(ref, rs, report, commitments)
             s == SessionOf(ref)
         IN  /\ b = BundleOf(b)
             /\ b.base_certificate_v0 = certificates[ref].certificate
             /\ b.verification_materials_v0 = BaseMaterials[ref]
             /\ b.receipts = Sealed(rs)
             /\ b.report = report
             /\ b.assertion = Assertion
             /\ b.integers = [member \in IntegerMembers |-> "int"]
             /\ b.unsigned_manifest
                   = ExpectedUnsigned(b, report, Plan[s].project_ref, s, commitments)
             /\ b.signature = [issuer_key_ref |-> "ikr", trust_ring_ref |-> RingOf(ref),
                               algorithm |-> IssuerKey.algorithm,
                               unsigned_manifest_digest |-> UnsignedDigest(b.unsigned_manifest),
                               signature |-> Signature(IssuerKey,
                                                       ProcessMaterial(b.unsigned_manifest),
                                                       "canonical")]
<1> DEFINE s == SessionOf(ref)
           b == Bundle(ref, rs, report, commitments)
           open == [base_certificate_v0 |-> certificates[ref].certificate,
                    verification_materials_v0 |-> BaseMaterials[ref], receipts |-> Sealed(rs),
                    report |-> report, assertion |-> Assertion,
                    claim_support_rows |-> <<SupportRow(Sealed(rs), report, Assertion)>>,
                    unsigned_manifest |-> ABSENT, signature |-> ABSENT,
                    integers |-> [member \in IntegerMembers |-> "int"]]
           unsigned == ExpectedUnsigned(open, report, Plan[s].project_ref, s, commitments)
           signature == [issuer_key_ref |-> "ikr", trust_ring_ref |-> RingOf(ref),
                         algorithm |-> IssuerKey.algorithm,
                         unsigned_manifest_digest |-> UnsignedDigest(unsigned),
                         signature |-> Signature(IssuerKey, ProcessMaterial(unsigned),
                                                 "canonical")]
<1>1. b = [open EXCEPT !.unsigned_manifest = unsigned, !.signature = signature]
  BY DEF Bundle
<1> HIDE DEF b, unsigned, signature
<1>2. /\ b = BundleOf(b)
      /\ b.base_certificate_v0 = certificates[ref].certificate
      /\ b.verification_materials_v0 = BaseMaterials[ref]
      /\ b.receipts = Sealed(rs) /\ b.report = report /\ b.assertion = Assertion
      /\ b.claim_support_rows = <<SupportRow(Sealed(rs), report, Assertion)>>
      /\ b.integers = [member \in IntegerMembers |-> "int"]
      /\ b.unsigned_manifest = unsigned /\ b.signature = signature
  BY <1>1 DEF BundleOf
<1>3. unsigned = ExpectedUnsigned(b, report, Plan[s].project_ref, s, commitments)
  BY <1>2 DEF unsigned, ExpectedUnsigned
<1> QED  BY <1>2, <1>3 DEF b, signature

\* The same members, one by one.
LEMMA BundleMembers ==
  ASSUME NEW ref, NEW rs, NEW report, NEW commitments
  PROVE  /\ Bundle(ref, rs, report, commitments).receipts = Sealed(rs)
         /\ Bundle(ref, rs, report, commitments).base_certificate_v0 = certificates[ref].certificate
         /\ Bundle(ref, rs, report, commitments).verification_materials_v0 = BaseMaterials[ref]
         /\ Bundle(ref, rs, report, commitments).report = report
         /\ Bundle(ref, rs, report, commitments).assertion = Assertion
         /\ Bundle(ref, rs, report, commitments).integers
               = [member \in IntegerMembers |-> "int"]
BY DEF Bundle

LEMMA BundleUnsigned ==
  ASSUME NEW ref, NEW rs, NEW report, NEW commitments, NEW b,
         b = Bundle(ref, rs, report, commitments)
  PROVE  b.unsigned_manifest = ExpectedUnsigned(b, report, Plan[SessionOf(ref)].project_ref,
                                                SessionOf(ref), commitments)
<1> DEFINE unsigned(x) == ExpectedUnsigned(x, report, Plan[SessionOf(ref)].project_ref,
                                           SessionOf(ref), commitments)
           open == [base_certificate_v0 |-> certificates[ref].certificate,
                    verification_materials_v0 |-> BaseMaterials[ref], receipts |-> Sealed(rs),
                    report |-> report, assertion |-> Assertion,
                    claim_support_rows |-> <<SupportRow(Sealed(rs), report, Assertion)>>,
                    unsigned_manifest |-> ABSENT, signature |-> ABSENT,
                    integers |-> [member \in IntegerMembers |-> "int"]]
<1>1. b.unsigned_manifest = unsigned(open)
  BY DEF Bundle
<1>2. /\ b.base_certificate_v0 = open.base_certificate_v0
      /\ b.verification_materials_v0 = open.verification_materials_v0
      /\ b.receipts = open.receipts /\ b.assertion = open.assertion
      /\ b.claim_support_rows = open.claim_support_rows
  BY DEF Bundle
<1> HIDE DEF open
<1>3. unsigned(open) = unsigned(b)
  BY <1>2 DEF ExpectedUnsigned
<1> QED  BY <1>1, <1>3

\* A signature that verifies is one of those that were made on its material.
LEMMA VerifiedRecordSignature ==
  ASSUME RecordInv, NEW key, NEW algorithm, NEW material, NEW sig,
         VerifySignature(key, algorithm, material, sig) = OK, RecordMade(sig)
  PROVE  \/ \E ref \in Refs :
               /\ sig = certificates[ref].certificate.issuer_signature.signature
               /\ material = IssuerMaterial(certificates[ref].certificate.manifest)
         \/ \E ref \in Refs :
               /\ certificates[ref].certificate.co_attestation # ABSENT
               /\ sig = certificates[ref].certificate.co_attestation.signature
               /\ material = ClientMaterial(Projection(certificates[ref].certificate))
         \/ \E i \in issued :
               /\ sig = i.bundle.signature.signature
               /\ material = ProcessMaterial(i.bundle.unsigned_manifest)
         \/ \E e \in snapshots : material = SnapshotMaterial(e.snapshot)
<1>1. /\ sig.key = key /\ sig.material = material /\ key.algorithm = algorithm
      /\ sig.form # "malformed"
      /\ algorithm = "ecdsa_p256_sha256" => sig.form # "high_s"
  BY SignatureFacts
<1>2. ASSUME NEW i \in issued
      PROVE  i.bundle.signature.signature.material = ProcessMaterial(i.bundle.unsigned_manifest)
  <2>1. PICK ref, rs, report, commitments : i.bundle = Bundle(ref, rs, report, commitments)
    BY DEF RecordInv, IssuedInv
  <2>2. i.bundle.signature.signature
           = Signature(IssuerKey, ProcessMaterial(i.bundle.unsigned_manifest), "canonical")
    <3> DEFINE b == Bundle(ref, rs, report, commitments)
    <3> HIDE DEF b
    <3>1. b.signature = [issuer_key_ref |-> "ikr", trust_ring_ref |-> RingOf(ref),
                         algorithm |-> IssuerKey.algorithm,
                         unsigned_manifest_digest |-> UnsignedDigest(b.unsigned_manifest),
                         signature |-> Signature(IssuerKey, ProcessMaterial(b.unsigned_manifest),
                                                 "canonical")]
      BY BundleFacts DEF b
    <3>2. i.bundle = b
      BY <2>1 DEF b
    <3> QED  BY <3>1, <3>2
  <2> QED  BY <2>2, MaterialOfSignature
<1>3. ASSUME NEW e \in snapshots
      PROVE  e.signature.signature.material = SnapshotMaterial(e.snapshot)
  <2>1. e = Envelope(e.snapshot)
    BY DEF RecordInv, StatusInv
  <2>2. Envelope(e.snapshot).signature.signature
           = Signature(AnchorKey, SnapshotMaterial(e.snapshot), "canonical")
    BY DEF Envelope
  <2> QED  BY <2>1, <2>2, MaterialOfSignature
<1>4. CASE \E ref \in Refs : LET c == certificates[ref].certificate
                             IN  \/ sig = c.issuer_signature.signature
                                 \/ c.co_attestation # ABSENT /\ sig = c.co_attestation.signature
  BY <1>1, <1>4, BaseSignatures DEF RecordInv
<1>5. CASE \E b \in Sent : sig = b.signature.signature
  BY <1>1, <1>2, <1>5 DEF Sent
<1>6. CASE \E e \in snapshots : sig = e.signature.signature
  BY <1>1, <1>3, <1>6
<1> QED  BY <1>1, <1>4, <1>5, <1>6 DEF RecordMade
-----------------------------------------------------------------------------
(* What the checks establish about any bundle *)

\* What verify_process_record_certificate passes on to.
LEMMA VerifiedStages ==
  ASSUME NEW b, NEW ctx, NEW envelope, VerifyProcessRecord(b, ctx, envelope) = OK
  PROVE  /\ ProcessSchemaValid(b)
         /\ \A member \in WalkedMembers : b.integers[member] = "int"
         /\ VerifyBase(b, ctx) = OK
         /\ CheckRecord(b, ctx) = OK
         /\ CheckProcessSignature(b) = OK
         /\ CheckStatus(b, ctx, envelope) = OK
<1>1. /\ Require(ProcessSchemaValid(b), "SCHEMA") = OK
      /\ CheckStrictIntegers(b) = OK
      /\ VerifyBase(b, ctx) = OK
      /\ CheckRecord(b, ctx) = OK
      /\ CheckProcessSignature(b) = OK
      /\ CheckStatus(b, ctx, envelope) = OK
  BY BothPass DEF VerifyProcessRecord
<1> QED  BY <1>1 DEF Require, CheckStrictIntegers, OK

\* The members of a record against each other and against the caller's pins.
LEMMA RecordFacts ==
  ASSUME NEW b, NEW ctx, CheckRecord(b, ctx) = OK
  PROVE  LET derived == DeriveReport(b.receipts, ctx.expected_project_ref,
                                     ctx.expected_build_session_ref)
         IN  /\ b.report = derived
             /\ b.assertion.assertion_digest = AssertionDigest(b.assertion)
             /\ b.receipts.receipt_bundle_digest = ReceiptBundleDigest(b.receipts)
             /\ b.unsigned_manifest.commitments = ctx.expected_commitments
             /\ b.unsigned_manifest
                   = ExpectedUnsigned(b, derived, ctx.expected_project_ref,
                                      ctx.expected_build_session_ref, ctx.expected_commitments)
<1> DEFINE derived == DeriveReport(b.receipts, ctx.expected_project_ref,
                                   ctx.expected_build_session_ref)
           expected == ExpectedUnsigned(b, derived, ctx.expected_project_ref,
                                        ctx.expected_build_session_ref, ctx.expected_commitments)
<1>1. /\ b.report = derived
      /\ CheckAssertion(b.assertion) = OK
      /\ b.receipts.receipt_bundle_digest = ReceiptBundleDigest(b.receipts)
      /\ b.unsigned_manifest.commitments = ctx.expected_commitments
      /\ b.unsigned_manifest = expected
  BY DEF CheckRecord, &&, Require, OK
<1>2. b.assertion.assertion_digest = AssertionDigest(b.assertion)
  BY <1>1 DEF CheckAssertion, &&, Require, OK
<1> QED  BY <1>1, <1>2

\* The signature on a record is under the issuer key of its materials.
LEMMA ProcessSignatureFacts ==
  ASSUME NEW b, CheckProcessSignature(b) = OK
  PROVE  LET issuer == b.verification_materials_v0.issuer
         IN  /\ b.signature.unsigned_manifest_digest = UnsignedDigest(b.unsigned_manifest)
             /\ b.signature.issuer_key_ref = issuer.key_ref
             /\ b.signature.trust_ring_ref = issuer.trust_ring_ref
             /\ b.signature.algorithm = issuer.algorithm
             /\ VerifySignature(issuer.public_key, b.signature.algorithm,
                                ProcessMaterial(b.unsigned_manifest), b.signature.signature) = OK
  BY DEF CheckProcessSignature, &&, Require, Translate, OK

\* The base certificate verifies under materials that name the caller's
\* reference, issuer key and trust ring.
LEMMA VerifiedBase ==
  ASSUME NEW b, NEW ctx, VerifyBase(b, ctx) = OK
  PROVE  LET materials == b.verification_materials_v0
         IN  /\ materials.certificate_ref = ctx.certificate_ref
             /\ materials.issuer.key_ref = ctx.base_context.issuer_key_ref
             /\ materials.issuer.algorithm = ctx.base_context.issuer_algorithm
             /\ materials.issuer.trust_ring_ref = ctx.base_context.trust_ring_ref
             /\ \E key : VerifyCertificate(b.base_certificate_v0, materials.issuer.public_key,
                                           [ctx.base_context EXCEPT !.client_public_key = key],
                                           materials.policy) = OK
<1> DEFINE bare == [wrapped |-> FALSE, signed_certificate |-> b.base_certificate_v0]
           materials == b.verification_materials_v0
<1>1. VerifyWithMaterials(bare, materials, ctx.expected_materials_digest, ctx.certificate_ref,
                          ctx.base_context, FALSE) = OK
  BY DEF VerifyBase, Translate, OK
<1> HIDE DEF bare, materials
<1>2. \E key : VerifyCertificate(bare.signed_certificate, materials.issuer.public_key,
                                 [ctx.base_context EXCEPT !.client_public_key = key],
                                 materials.policy) = OK
  BY <1>1, MaterialsVerify
<1>3. bare.signed_certificate = b.base_certificate_v0
  BY DEF bare
<1>4. CheckMaterialsBindings(bare.signed_certificate, materials, ctx.certificate_ref,
                             ctx.base_context) = OK
  BY <1>1 DEF VerifyWithMaterials, &&, OK
<1>5. /\ materials.certificate_ref = ctx.certificate_ref
      /\ materials.issuer.key_ref = ctx.base_context.issuer_key_ref
      /\ materials.issuer.algorithm = ctx.base_context.issuer_algorithm
      /\ materials.issuer.trust_ring_ref = ctx.base_context.trust_ring_ref
  BY <1>4 DEF CheckMaterialsBindings, &&, Require, OK
<1> QED  BY <1>2, <1>3, <1>5 DEF materials
-----------------------------------------------------------------------------
(* Only what was signed is accepted *)

\* The members of a base certificate.
LEMMA BaseMembers ==
  ASSUME BasesInv, NEW ref \in Refs
  PROVE  LET d == certificates[ref].certificate
             s == SessionOf(ref)
         IN  /\ ClosedMembers(d)
             /\ ClosedMembers(Projection(d)) /\ BoundToManifest(Projection(d))
             /\ d.manifest.freshness_nonce = certificates[ref].nonce
             /\ d.manifest.subject.build_session_ref = s
             /\ d.manifest_digest = ManifestDigest(d.manifest)
             /\ ~RequiresClient(d.claims) => d.co_attestation = ABSENT
             /\ RequiresClient(d.claims) =>
                   /\ d.co_attestation = CoAttestation(s, certificates[ref].nonce, Projection(d))
                   /\ d.manifest.key_ring_identifiers.client_key_ref = KeyRef(s)
                   /\ d.manifest.key_ring_identifiers.client_signature_algorithm
                         = Plan[s].client_key.algorithm
<1> DEFINE s == SessionOf(ref)
           n == certificates[ref].nonce
<1>1. PICK printed : certificates[ref].certificate = Finalized(s, n, printed)
  BY BaseFacts
<1> DEFINE d == Finalized(s, n, printed)
<1>2. /\ ClosedMembers(d) /\ BoundToManifest(d)
      /\ Projection(d) = PrepareResponse(s, n, printed)
      /\ d.manifest.freshness_nonce = n /\ d.subject.build_session_ref = s
      /\ ~RequiresClient(d.claims) => d.co_attestation = ABSENT
      /\ RequiresClient(d.claims) =>
            /\ d.co_attestation = CoAttestation(s, n, Projection(d))
            /\ d.manifest.key_ring_identifiers.client_key_ref = KeyRef(s)
            /\ d.manifest.key_ring_identifiers.client_signature_algorithm
                  = Plan[s].client_key.algorithm
  BY FinalizedFacts
<1>3. ClosedMembers(Projection(d)) /\ BoundToManifest(Projection(d))
  BY <1>2, ResponseFacts
<1> HIDE DEF d
<1>4. d.subject = d.manifest.subject /\ d.manifest_digest = ManifestDigest(d.manifest)
  BY <1>2 DEF BoundToManifest
<1> QED  BY <1>1, <1>2, <1>3, <1>4 DEF d

\* Base certificates of one manifest are one certificate.
LEMMA BaseOfManifest ==
  ASSUME BasesInv, NEW p \in Refs, NEW q \in Refs,
         certificates[p].certificate.manifest = certificates[q].certificate.manifest
  PROVE  p = q
<1>1. /\ certificates[p].certificate.manifest.freshness_nonce = certificates[p].nonce
      /\ certificates[p].certificate.manifest.subject.build_session_ref = SessionOf(p)
  BY BaseMembers
<1>2. /\ certificates[q].certificate.manifest.freshness_nonce = certificates[q].nonce
      /\ certificates[q].certificate.manifest.subject.build_session_ref = SessionOf(q)
  BY BaseMembers
<1> QED  BY <1>1, <1>2, BaseOfNonce

\* A base certificate that verifies for the session and the nonce of a
\* reference is the one that was finalized under it, member for member.
LEMMA AcceptedBase ==
  ASSUME RecordInv, NEW c, NEW key, NEW ctx, NEW policy, NEW ref \in Refs,
         CertificateMade(c), VerifyCertificate(c, key, ctx, policy) = OK,
         ctx.build_session_ref = SessionOf(ref), ctx.nonce = certificates[ref].nonce
  PROVE  c = certificates[ref].certificate
<1> DEFINE d == certificates[ref].certificate
           s == SessionOf(ref)
           n == certificates[ref].nonce
<1>0. BasesInv
  BY DEF RecordInv
<1>1. /\ SchemaValid(c) /\ BoundToManifest(c)
      /\ ContextPinned(c.manifest, c.issuer_signature, ctx)
      /\ VerifySignature(key, c.issuer_signature.algorithm, IssuerMaterial(c.manifest),
                         c.issuer_signature.signature) = OK
      /\ VerifyCoAttestation(c, ctx) = OK
  BY VerifiedFacts
<1>2. ClosedMembers(c) /\ (~RequiresClient(c.claims) => c.co_attestation = ABSENT)
  BY <1>1 DEF SchemaValid
<1>3. /\ RecordMade(c.issuer_signature.signature)
      /\ c.co_attestation # ABSENT => RecordMade(c.co_attestation.signature)
  BY DEF CertificateMade
<1>4. PICK p \in Refs :
         /\ c.issuer_signature.signature
               = certificates[p].certificate.issuer_signature.signature
         /\ IssuerMaterial(c.manifest) = IssuerMaterial(certificates[p].certificate.manifest)
  BY <1>1, <1>3, VerifiedRecordSignature, MaterialsDiffer
<1>5. c.manifest = certificates[p].certificate.manifest
  BY <1>4 DEF IssuerMaterial
<1>6. p = ref
  <2>1. /\ c.manifest.freshness_nonce = n
        /\ c.manifest.subject.build_session_ref = s
    BY <1>1 DEF ContextPinned
  <2>2. /\ certificates[p].certificate.manifest.freshness_nonce = certificates[p].nonce
        /\ certificates[p].certificate.manifest.subject.build_session_ref = SessionOf(p)
    BY <1>0, BaseMembers
  <2> QED  BY <1>0, <1>5, <2>1, <2>2, BaseOfNonce
<1> HIDE DEF d, s, n
<1>7. /\ ClosedMembers(d) /\ ClosedMembers(Projection(d)) /\ BoundToManifest(Projection(d))
      /\ ~RequiresClient(d.claims) => d.co_attestation = ABSENT
      /\ RequiresClient(d.claims) =>
            /\ d.co_attestation = CoAttestation(s, n, Projection(d))
            /\ d.manifest.key_ring_identifiers.client_key_ref = KeyRef(s)
            /\ d.manifest.key_ring_identifiers.client_signature_algorithm
                  = Plan[s].client_key.algorithm
      /\ d.manifest.freshness_nonce = n
  BY <1>0, BaseMembers DEF d, s, n
<1>8. /\ Projection(d).manifest = d.manifest /\ Projection(d).claims = d.claims
      /\ Projection(d).issuer_signature = d.issuer_signature
      /\ Projection(d).co_attestation = ABSENT
  BY <1>7, ProjectionKeeps
<1>9. c.manifest = d.manifest /\ c.issuer_signature.signature = d.issuer_signature.signature
  BY <1>4, <1>5, <1>6 DEF d
<1>10. Projection(c) = Projection(d)
  BY <1>1, <1>2, <1>7, <1>8, <1>9, ManifestDeterminesDocument
<1>11. c.claims = d.claims
  BY <1>2, <1>8, <1>10, ProjectionKeeps
<1>12. CASE ~RequiresClient(c.claims)
  BY <1>2, <1>7, <1>10, <1>11, <1>12, ProjectionAndCoAttestation DEF d
<1>13. CASE RequiresClient(c.claims)
  <2> DEFINE co == c.co_attestation
  <2>1. /\ co # ABSENT
        /\ co.client_key_ref = c.manifest.key_ring_identifiers.client_key_ref
        /\ co.algorithm = c.manifest.key_ring_identifiers.client_signature_algorithm
        /\ co.nonce = c.manifest.freshness_nonce
        /\ co.signed_manifest_digest = ProjectionDigest(Projection(c))
        /\ VerifySignature(ctx.client_public_key, co.algorithm, ClientMaterial(Projection(c)),
                           co.signature) = OK
    BY <1>1, <1>13, CoAttestationFacts
  <2>2. PICK q \in Refs :
           /\ co.signature = certificates[q].certificate.co_attestation.signature
           /\ ClientMaterial(Projection(c)) = ClientMaterial(Projection(certificates[q].certificate))
    BY <1>3, <2>1, VerifiedRecordSignature, MaterialsDiffer
  <2>3. q = ref
    <3>1. Projection(c) = Projection(certificates[q].certificate)
      BY <2>2 DEF ClientMaterial
    <3>2. ClosedMembers(certificates[q].certificate)
      BY <1>0, BaseMembers
    <3>3. c.manifest = certificates[q].certificate.manifest
      BY <1>2, <3>1, <3>2, ProjectionKeeps
    <3> QED  BY <1>0, <1>9, <3>3, BaseOfManifest DEF d
  <2>4. co.signature = d.co_attestation.signature
    BY <2>2, <2>3 DEF d
  <2>5. /\ co.client_key_ref = KeyRef(s) /\ co.algorithm = Plan[s].client_key.algorithm
        /\ co.nonce = n /\ co.signed_manifest_digest = ProjectionDigest(Projection(d))
        /\ d.co_attestation = CoAttestation(s, n, Projection(d))
    BY <1>7, <1>9, <1>10, <1>11, <1>13, <2>1
  <2>6. co = CoAttestationOf(co)
    BY <1>2, <2>1 DEF ClosedMembers
  <2>7. co = d.co_attestation
    BY <2>4, <2>5, <2>6 DEF CoAttestation, CoAttestationOf
  <2> QED  BY <1>2, <1>7, <1>10, <2>7, ProjectionAndCoAttestation DEF d
<1> QED  BY <1>12, <1>13

\* Receipts that hold their own digest are told by it.
LEMMA ReceiptsOfDigest ==
  ASSUME NEW rs, NEW sealed, rs = ReceiptsOf(rs), sealed = ReceiptsOf(sealed),
         sealed.receipt_bundle_digest = ReceiptBundleDigest(sealed),
         ReceiptBundleDigest(sealed) = ReceiptBundleDigest(Sealed(rs))
  PROVE  sealed = Sealed(rs)
  BY DEF ReceiptsOf, ReceiptBundleDigest, Sealed

\* A derived report is told by its digest.
LEMMA ReportOfDigest ==
  ASSUME NEW x, NEW y, NEW p, NEW q, NEW s, NEW u,
         DeriveReport(x, p, s).report_digest = DeriveReport(y, q, u).report_digest
  PROVE  DeriveReport(x, p, s) = DeriveReport(y, q, u)
  BY DEF DeriveReport, ReportDigest

\* An assertion that holds its own digest is told by it.
LEMMA AssertionOfDigest ==
  ASSUME NEW a, a = AssertionOf(a), a.assertion_digest = AssertionDigest(a),
         AssertionDigest(a) = AssertionDigest(Assertion)
  PROVE  a = Assertion
  BY DEF AssertionOf, AssertionDigest, Assertion

\* The members of the unsigned manifest that tell records apart.
LEMMA UnsignedMembers ==
  ASSUME NEW b, NEW report, NEW project, NEW session, NEW commitments
  PROVE  LET u == ExpectedUnsigned(b, report, project, session, commitments)
         IN  /\ u.base_unsigned_manifest_digest = b.base_certificate_v0.manifest_digest
             /\ u.project_ref = project /\ u.build_session_ref = session
             /\ u.commitments = commitments
             /\ u.assertion_digest = AssertionDigest(b.assertion)
             /\ u.process_report_digest = report.report_digest
             /\ u.receipt_bundle_digest = ReceiptBundleDigest(b.receipts)
             /\ u.process_claim_support_rows_digest = SupportRowsDigest(b.claim_support_rows)
  BY DEF ExpectedUnsigned

\* What the relying party pins, member by member.
LEMMA ContextMembers ==
  ASSUME NEW ref, NEW commitments, NEW checked, NEW time
  PROVE  LET ctx == RecordContext(ref, commitments, checked, time)
             s == SessionOf(ref)
         IN  /\ ctx.certificate_ref = ref
             /\ ctx.expected_project_ref = Plan[s].project_ref
             /\ ctx.expected_build_session_ref = s
             /\ ctx.expected_commitments = commitments
             /\ ctx.verification_time = time
             /\ ctx.base_context.issuer_key_ref = "ikr"
             /\ ctx.base_context.issuer_algorithm = IssuerKey.algorithm
             /\ ctx.base_context.trust_ring_ref = RingOf(ref)
             /\ \A key : LET bound == [ctx.base_context EXCEPT !.client_public_key = key]
                         IN  /\ bound.build_session_ref = s
                             /\ bound.nonce = certificates[ref].nonce
  BY DEF RecordContext, Context, RingOf

\* The signature on a record that verifies was made on one with its manifest.
LEMMA RecordSigned ==
  ASSUME RecordInv, NEW key, NEW algorithm, NEW unsigned, NEW sig, RecordMade(sig),
         VerifySignature(key, algorithm, ProcessMaterial(unsigned), sig) = OK
  PROVE  \E i \in issued : /\ sig = i.bundle.signature.signature
                           /\ unsigned = i.bundle.unsigned_manifest
<1> DEFINE material == ProcessMaterial(unsigned)
<1>1. /\ \A a : material # IssuerMaterial(a)
      /\ \A a : material # ClientMaterial(a)
      /\ \A a : material # SnapshotMaterial(a)
  BY MaterialsDiffer
<1>2. VerifySignature(key, algorithm, material, sig) = OK
  OBVIOUS
<1> HIDE DEF material
<1>3. \E i \in issued : /\ sig = i.bundle.signature.signature
                        /\ material = ProcessMaterial(i.bundle.unsigned_manifest)
  BY <1>1, <1>2, VerifiedRecordSignature
<1> QED  BY <1>3 DEF material, ProcessMaterial

\* The members that Content keeps of a closed bundle.
Shown(b, marks) ==
    [base_certificate_v0 |-> b.base_certificate_v0, verification_materials_v0 |-> ABSENT,
     receipts |-> b.receipts, report |-> b.report, assertion |-> b.assertion,
     claim_support_rows |-> b.claim_support_rows, unsigned_manifest |-> b.unsigned_manifest,
     signature |-> b.signature, integers |-> marks]
LEMMA ContentOfBundle ==
  ASSUME NEW b, b = BundleOf(b), NEW marks,
         marks = [member \in WalkedMembers |-> b.integers[member]]
  PROVE  Content(b) = Shown(b, marks)
<1>1. Content(b) = [b EXCEPT !.verification_materials_v0 = ABSENT, !.integers = marks]
  BY DEF Content
<1>2. Content(b) = [BundleOf(b) EXCEPT !.verification_materials_v0 = ABSENT, !.integers = marks]
  BY <1>1
<1> QED  BY <1>2 DEF BundleOf, Shown

\* A bundle that verifies against what the caller pins under a reference is one
\* that the backend signed for that reference, down to what Content keeps.
LEMMA AcceptedWasIssued ==
  ASSUME RecordInv, NEW b \in ArrivedBundles, NEW ref \in Refs, NEW commitments, NEW checked,
         NEW time, NEW envelope,
         VerifyProcessRecord(b, RecordContext(ref, commitments, checked, time), envelope) = OK
  PROVE  \E i \in issued :
            /\ FiledUnder(i.bundle) = PinnedBy(RecordContext(ref, commitments, checked, time))
            /\ Content(i.bundle) = Content(b)
<1> DEFINE ctx == RecordContext(ref, commitments, checked, time)
           s == SessionOf(ref)
           project == Plan[s].project_ref
           derived == DeriveReport(b.receipts, project, s)
<1>0. /\ BasesInv
      /\ RecordMade(b.signature.signature) /\ CertificateMade(b.base_certificate_v0)
  BY DEF RecordInv, ArrivedBundles
<1>1. /\ ctx.certificate_ref = ref /\ ctx.expected_project_ref = project
      /\ ctx.expected_build_session_ref = s /\ ctx.expected_commitments = commitments
      /\ ctx.base_context.issuer_key_ref = "ikr"
      /\ ctx.base_context.issuer_algorithm = IssuerKey.algorithm
      /\ ctx.base_context.trust_ring_ref = RingOf(ref)
  BY ContextMembers
<1>2. \A key : /\ [ctx.base_context EXCEPT !.client_public_key = key].build_session_ref = s
               /\ [ctx.base_context EXCEPT !.client_public_key = key].nonce
                     = certificates[ref].nonce
  BY ContextMembers
<1>3. /\ ProcessSchemaValid(b) /\ VerifyBase(b, ctx) = OK
      /\ \A member \in WalkedMembers : b.integers[member] = "int"
      /\ CheckRecord(b, ctx) = OK /\ CheckProcessSignature(b) = OK
  BY VerifiedStages
<1> HIDE DEF ctx, project, s
<1>4. /\ b = BundleOf(b) /\ b.signature = ProcessSignatureOf(b.signature)
      /\ b.receipts = ReceiptsOf(b.receipts) /\ b.assertion = AssertionOf(b.assertion)
  BY <1>3 DEF ProcessSchemaValid
<1>5. /\ b.report = derived
      /\ b.assertion.assertion_digest = AssertionDigest(b.assertion)
      /\ b.receipts.receipt_bundle_digest = ReceiptBundleDigest(b.receipts)
      /\ b.unsigned_manifest = ExpectedUnsigned(b, derived, project, s, commitments)
  <2>1. /\ b.report = DeriveReport(b.receipts, ctx.expected_project_ref,
                                   ctx.expected_build_session_ref)
        /\ b.assertion.assertion_digest = AssertionDigest(b.assertion)
        /\ b.receipts.receipt_bundle_digest = ReceiptBundleDigest(b.receipts)
        /\ b.unsigned_manifest
              = ExpectedUnsigned(b, DeriveReport(b.receipts, ctx.expected_project_ref,
                                                 ctx.expected_build_session_ref),
                                 ctx.expected_project_ref, ctx.expected_build_session_ref,
                                 ctx.expected_commitments)
    BY <1>3, RecordFacts
  <2> QED  BY <1>1, <2>1
<1>6. b.base_certificate_v0 = certificates[ref].certificate
  <2>1. PICK key : VerifyCertificate(b.base_certificate_v0,
                                     b.verification_materials_v0.issuer.public_key,
                                     [ctx.base_context EXCEPT !.client_public_key = key],
                                     b.verification_materials_v0.policy) = OK
    BY <1>3, VerifiedBase
  <2> DEFINE bound == [ctx.base_context EXCEPT !.client_public_key = key]
             issuer_key == b.verification_materials_v0.issuer.public_key
             policy == b.verification_materials_v0.policy
             c == b.base_certificate_v0
  <2>2. bound.build_session_ref = SessionOf(ref) /\ bound.nonce = certificates[ref].nonce
    BY <1>2 DEF s
  <2>3. CertificateMade(c) /\ VerifyCertificate(c, issuer_key, bound, policy) = OK
    BY <1>0, <2>1
  <2> HIDE DEF bound, issuer_key, policy, c
  <2>4. c = certificates[ref].certificate
    BY <2>2, <2>3, AcceptedBase
  <2> QED  BY <2>4 DEF c
<1>7. /\ b.signature.unsigned_manifest_digest = UnsignedDigest(b.unsigned_manifest)
      /\ b.signature.issuer_key_ref = "ikr"
      /\ b.signature.trust_ring_ref = RingOf(ref)
      /\ b.signature.algorithm = IssuerKey.algorithm
  BY <1>1, <1>3, VerifiedBase, ProcessSignatureFacts
<1>8. PICK i \in issued :
         /\ b.signature.signature = i.bundle.signature.signature
         /\ b.unsigned_manifest = i.bundle.unsigned_manifest
  <2> DEFINE key == b.verification_materials_v0.issuer.public_key
             algorithm == b.signature.algorithm
             sig == b.signature.signature
             unsigned == b.unsigned_manifest
  <2>1. VerifySignature(key, algorithm, ProcessMaterial(unsigned), sig) = OK
    BY <1>3, ProcessSignatureFacts
  <2>2. RecordMade(sig)
    BY <1>0
  <2> HIDE DEF key, algorithm, sig, unsigned
  <2>3. \E i \in issued : /\ sig = i.bundle.signature.signature
                          /\ unsigned = i.bundle.unsigned_manifest
    BY <2>1, <2>2, RecordSigned
  <2> QED  BY <2>3 DEF sig, unsigned
<1> DEFINE x == i.bundle
<1>9. b.unsigned_manifest = x.unsigned_manifest
  BY <1>8
<1>10. PICK p \in Refs : \E rs, compiled :
          /\ rs = ReceiptsOf(rs)
          /\ x = Bundle(p, rs, DeriveReport(compiled, Plan[SessionOf(p)].project_ref,
                                            SessionOf(p)),
                        certificates[p].commitments)
  BY DEF RecordInv, IssuedInv
<1>11. PICK rs, compiled :
          /\ rs = ReceiptsOf(rs)
          /\ x = Bundle(p, rs, DeriveReport(compiled, Plan[SessionOf(p)].project_ref,
                                            SessionOf(p)),
                        certificates[p].commitments)
  BY <1>10
<1> DEFINE report == DeriveReport(compiled, Plan[SessionOf(p)].project_ref, SessionOf(p))
<1> HIDE DEF x, derived, report
<1>12. /\ x = BundleOf(x) /\ x.base_certificate_v0 = certificates[p].certificate
       /\ x.verification_materials_v0 = BaseMaterials[p]
       /\ x.receipts = Sealed(rs) /\ x.report = report /\ x.assertion = Assertion
       /\ x.integers = [member \in IntegerMembers |-> "int"]
       /\ x.unsigned_manifest
             = ExpectedUnsigned(x, report, Plan[SessionOf(p)].project_ref, SessionOf(p),
                                certificates[p].commitments)
       /\ x.signature = [issuer_key_ref |-> "ikr", trust_ring_ref |-> RingOf(p),
                         algorithm |-> IssuerKey.algorithm,
                         unsigned_manifest_digest |-> UnsignedDigest(x.unsigned_manifest),
                         signature |-> Signature(IssuerKey, ProcessMaterial(x.unsigned_manifest),
                                                 "canonical")]
  BY <1>11, BundleFacts DEF report
<1>13. /\ b.base_certificate_v0.manifest_digest = x.base_certificate_v0.manifest_digest
       /\ AssertionDigest(b.assertion) = AssertionDigest(x.assertion)
       /\ derived.report_digest = report.report_digest
       /\ ReceiptBundleDigest(b.receipts) = ReceiptBundleDigest(x.receipts)
       /\ SupportRowsDigest(b.claim_support_rows) = SupportRowsDigest(x.claim_support_rows)
       /\ commitments = certificates[p].commitments
       /\ x.unsigned_manifest.commitments = commitments
  <2> DEFINE u == b.unsigned_manifest
  <2>1. /\ u.base_unsigned_manifest_digest = b.base_certificate_v0.manifest_digest
        /\ u.commitments = commitments
        /\ u.assertion_digest = AssertionDigest(b.assertion)
        /\ u.process_report_digest = derived.report_digest
        /\ u.receipt_bundle_digest = ReceiptBundleDigest(b.receipts)
        /\ u.process_claim_support_rows_digest = SupportRowsDigest(b.claim_support_rows)
    BY <1>5, UnsignedMembers
  <2>2. /\ u.base_unsigned_manifest_digest = x.base_certificate_v0.manifest_digest
        /\ u.commitments = certificates[p].commitments
        /\ u.assertion_digest = AssertionDigest(x.assertion)
        /\ u.process_report_digest = report.report_digest
        /\ u.receipt_bundle_digest = ReceiptBundleDigest(x.receipts)
        /\ u.process_claim_support_rows_digest = SupportRowsDigest(x.claim_support_rows)
    BY <1>9, <1>12, UnsignedMembers
  <2> QED  BY <1>9, <2>1, <2>2
<1>14. p = ref
  <2>1. certificates[ref].certificate.manifest_digest
           = ManifestDigest(certificates[ref].certificate.manifest)
    BY <1>0, BaseMembers
  <2>2. certificates[p].certificate.manifest_digest
           = ManifestDigest(certificates[p].certificate.manifest)
    BY <1>0, BaseMembers
  <2>3. certificates[ref].certificate.manifest = certificates[p].certificate.manifest
    BY <1>6, <1>12, <1>13, <2>1, <2>2 DEF ManifestDigest
  <2> QED  BY <1>0, <2>3, BaseOfManifest
<1>15. b.receipts = x.receipts
  BY <1>4, <1>5, <1>11, <1>12, <1>13, ReceiptsOfDigest
<1>16. b.report = x.report
  BY <1>5, <1>12, <1>13, ReportOfDigest DEF derived, report
<1>17. b.assertion = x.assertion
  BY <1>4, <1>5, <1>12, <1>13, AssertionOfDigest
<1>18. b.claim_support_rows = x.claim_support_rows
  BY <1>13 DEF SupportRowsDigest
<1>19. b.signature = x.signature
  <2>1. /\ x.signature.issuer_key_ref = "ikr" /\ x.signature.trust_ring_ref = RingOf(ref)
        /\ x.signature.algorithm = IssuerKey.algorithm
        /\ x.signature.unsigned_manifest_digest = UnsignedDigest(x.unsigned_manifest)
        /\ x.signature = ProcessSignatureOf(x.signature)
    BY <1>12, <1>14 DEF ProcessSignatureOf
  <2>2. b.signature.signature = x.signature.signature
    BY <1>8 DEF x
  <2> QED  BY <1>4, <1>7, <1>9, <2>1, <2>2 DEF ProcessSignatureOf
<1>20. Content(x) = Content(b)
  <2>1. PICK mx, mb : /\ mx = [member \in WalkedMembers |-> x.integers[member]]
                      /\ mb = [member \in WalkedMembers |-> b.integers[member]]
    OBVIOUS
  <2>2. x.integers = [member \in IntegerMembers |-> "int"] /\ WalkedMembers \subseteq IntegerMembers
    BY <1>12 DEF IntegerMembers
  <2>3. \A member \in WalkedMembers : x.integers[member] = b.integers[member]
    BY <1>3, <2>2
  <2>4. mx = mb
    BY <2>1, <2>3
  <2>5. Content(x) = Shown(x, mx) /\ Content(b) = Shown(b, mb)
    BY <1>4, <1>12, <2>1, ContentOfBundle
  <2>6. Shown(x, mx) = Shown(b, mb)
    BY <1>6, <1>9, <1>12, <1>14, <1>15, <1>16, <1>17, <1>18, <1>19, <2>4 DEF Shown
  <2> QED  BY <2>5, <2>6
<1>21. FiledUnder(x) = PinnedBy(ctx)
  <2>1. x.verification_materials_v0.certificate_ref = ref
    BY <1>12, <1>14 DEF BaseMaterials, Materials
  <2> QED  BY <1>1, <1>13, <2>1 DEF FiledUnder, PinnedBy, s, project
<1> QED  BY <1>20, <1>21 DEF x, ctx
-----------------------------------------------------------------------------
(* The steps *)

\* What the documents of a reference hold is settled with its certificate.
LEMMA CertificatesKept ==
  ASSUME certificates' = certificates
  PROVE  /\ Refs' = Refs /\ Rings' = Rings
         /\ \A ref : SessionOf(ref)' = SessionOf(ref)
         /\ \A ref, rs, report, commitments :
               Bundle(ref, rs, report, commitments)' = Bundle(ref, rs, report, commitments)
         /\ \A b : FiledUnder(b)' = FiledUnder(b)
<1>1. Refs' = Refs /\ \A ref : SessionOf(ref)' = SessionOf(ref)
  BY DEF Refs, SessionOf
<1>2. \A ref : RingOf(ref)' = RingOf(ref)
  BY <1>1 DEF RingOf
<1>3. Rings' = Rings
  BY <1>1, <1>2 DEF Rings
<1>5. \A ref, rs, report, commitments :
         Bundle(ref, rs, report, commitments)' = Bundle(ref, rs, report, commitments)
  BY DEF Bundle, SessionOf, RingOf, BaseMaterials, HasClient, Refs
<1>6. \A b : FiledUnder(b)' = FiledUnder(b)
  BY <1>1 DEF FiledUnder
<1> QED  BY <1>1, <1>3, <1>5, <1>6

\* What the backend signed stays what it is.
LEMMA IssuedKept ==
  ASSUME IssuedInv, certificates' = certificates, ledger' = ledger, issued' = issued
  PROVE  IssuedInv'
  BY CertificatesKept DEF IssuedInv

\* So does what the anchor signed.
LEMMA StatusKept ==
  ASSUME StatusInv, certificates' = certificates, clock' = clock, revoked' = revoked,
         snapshots' = snapshots
  PROVE  StatusInv'
  BY CertificatesKept DEF StatusInv, SnapshotInv, NotRevokedBefore

\* Changing a member of closed receipts leaves them closed.
LEMMA ClosedUnderExcept ==
  ASSUME NEW rs, NEW k, NEW v, rs = ReceiptsOf(rs)
  PROVE  [rs EXCEPT ![k] = v] = ReceiptsOf([rs EXCEPT ![k] = v])
<1> DEFINE members == {"decision_stream", "receipt_event_stream", "transition_stream",
                       "receipt_bundle_digest"}
           new == [rs EXCEPT ![k] = v]
<1>1. DOMAIN new = members
  BY DEF ReceiptsOf
<1>2. new = [f \in members |-> new[f]]
  BY <1>1
<1> HIDE DEF new
<1>3. ReceiptsOf(new) = [f \in members |-> new[f]]
  BY DEF ReceiptsOf
<1> QED  BY <1>2, <1>3 DEF new

\* A receipt is appended to one stream of one session.
LEMMA RecordStep ==
  ASSUME RecordInv, NEW s \in Sessions, Record(s)
  PROVE  RecordInv'
<1>1. UNCHANGED <<world, certificates, issued, clock, revoked, snapshots>>
  BY DEF Record, status
<1>2. PICK o \in Observations[s] :
         ledger' = [ledger EXCEPT ![s][o.stream] = Append(@, Receipt(s, o, Len(@) + 1))]
  BY DEF Record
<1>3. \A u \in Sessions : ledger'[u] = ReceiptsOf(ledger'[u])
  <2> SUFFICES ASSUME NEW u \in Sessions
               PROVE  ledger'[u] = ReceiptsOf(ledger'[u])
    OBVIOUS
  <2>1. ledger[u] = ReceiptsOf(ledger[u]) /\ DOMAIN ledger = Sessions
    BY DEF RecordInv, IssuedInv
  <2>2. CASE u # s
    BY <1>2, <2>1, <2>2
  <2>3. CASE u = s
    <3>1. PICK new : ledger'[s] = [ledger[s] EXCEPT ![o.stream] = new]
      BY <1>2, <2>1
    <3> QED  BY <2>1, <2>3, <3>1, ClosedUnderExcept
  <2> QED  BY <2>2, <2>3
<1>4. DOMAIN ledger' = Sessions
  BY <1>2 DEF RecordInv, IssuedInv
<1>5. IssuedInv'
  BY <1>1, <1>3, <1>4, CertificatesKept DEF RecordInv, IssuedInv
<1>6. StatusInv' /\ BasesInv'
  BY <1>1, StatusKept DEF RecordInv, BasesInv
<1> QED  BY <1>5, <1>6 DEF RecordInv

\* The backend signs what the ledger of the session holds.
LEMMA IssueStep ==
  ASSUME RecordInv, NEW ref \in Refs, Issue(ref)
  PROVE  RecordInv'
<1> DEFINE s == SessionOf(ref)
           Report(compiled) == DeriveReport(compiled, Plan[s].project_ref, s)
<1>1. UNCHANGED <<world, certificates, ledger, clock, revoked, snapshots>>
  BY DEF Issue, status
<1>2. PICK compiled :
         issued' = issued \cup
            {[bundle |-> Bundle(ref, ledger[s], Report(compiled), certificates[ref].commitments),
              compiled |-> compiled]}
  BY DEF Issue
<1>3. s \in Sessions
  <2>1. certificates[ref] = Bases[world.bases[ref]] /\ ref \in DOMAIN world.bases
    BY DEF RecordInv, BasesInv, Refs
  <2> QED  BY <2>1, WorldsAssumption, BasesAssumption DEF RecordInv, BasesInv, SessionOf
<1>4. IssuedInv'
  <2>1. ledger[s] = ReceiptsOf(ledger[s])
    BY <1>3 DEF RecordInv, IssuedInv
  <2>2. ASSUME NEW i \in issued'
        PROVE  \E p \in Refs : \E rs, c :
                  /\ rs = ReceiptsOf(rs)
                  /\ i.bundle = Bundle(p, rs, DeriveReport(c, Plan[SessionOf(p)].project_ref,
                                                           SessionOf(p)),
                                       certificates[p].commitments)
    <3>1. CASE i \in issued
      BY <3>1 DEF RecordInv, IssuedInv
    <3>2. CASE i = [bundle |-> Bundle(ref, ledger[s], Report(compiled),
                                      certificates[ref].commitments), compiled |-> compiled]
      BY <2>1, <3>2
    <3> QED  BY <1>2, <3>1, <3>2
  <2> QED  BY <1>1, <2>2, CertificatesKept DEF RecordInv, IssuedInv
<1>5. StatusInv' /\ BasesInv'
  BY <1>1, StatusKept DEF RecordInv, BasesInv
<1> QED  BY <1>4, <1>5 DEF RecordInv

\* Time passes: no snapshot is dated in the future.
LEMMA TickStep ==
  ASSUME RecordInv, Tick
  PROVE  RecordInv'
<1>1. UNCHANGED <<world, certificates, ledger, issued, revoked, snapshots>> /\ clock' = clock + 1
  BY DEF Tick, record
<1>2. StatusInv'
  BY <1>1, CertificatesKept DEF RecordInv, StatusInv, SnapshotInv, NotRevokedBefore
<1> QED  BY <1>1, <1>2, IssuedKept DEF RecordInv, BasesInv

\* A revocation is dated now, after every snapshot that there is.
LEMMA RevokeStep ==
  ASSUME RecordInv, RevokeStatus
  PROVE  RecordInv'
<1>1. UNCHANGED <<world, certificates, ledger, issued, clock, snapshots>>
  BY DEF RevokeStatus, record
<1>2. PICK x \in Revocable : revoked[x] = ABSENT /\ revoked' = [revoked EXCEPT ![x] = clock]
  BY DEF RevokeStatus
<1>3. /\ DOMAIN revoked' = DOMAIN revoked
      /\ \A y \in DOMAIN revoked : revoked'[y] = IF y = x THEN clock ELSE revoked[y]
  BY <1>2
<1>4. StatusInv'
  <2>1. clock \in Nat
    BY DEF RecordInv, StatusInv
  <2>2. ASSUME NEW e \in snapshots
        PROVE  SnapshotInv(e.snapshot)'
    <3>1. SnapshotInv(e.snapshot)
      BY DEF RecordInv, StatusInv
    <3> QED  BY <1>1, <1>3, <2>1, <3>1 DEF SnapshotInv, NotRevokedBefore
  <2> QED  BY <1>1, <1>3, <2>1, <2>2, CertificatesKept DEF RecordInv, StatusInv
<1> QED  BY <1>1, <1>4, IssuedKept DEF RecordInv, BasesInv

\* The list of a finite set holds its elements.
LEMMA ListOfSet ==
  ASSUME NEW S, IsFiniteSet(S)
  PROVE  /\ DOMAIN SetToSeq(S) \subseteq Nat
         /\ \A i \in DOMAIN SetToSeq(S) : SetToSeq(S)[i] \in S
<1>1. Cardinality(S) \in Nat /\ ExistsBijection(1..Cardinality(S), S)
  BY FS_CardinalityType
<1>2. \E f \in [1..Cardinality(S) -> S] : IsInjective(f)
  BY <1>1 DEF ExistsBijection, Bijection, Injection
<1>3. SetToSeq(S) \in [1..Cardinality(S) -> S]
  BY <1>2 DEF SetToSeq
<1> QED  BY <1>1, <1>3

\* A snapshot calls active what has not been revoked by now.
LEMMA PublishStep ==
  ASSUME RecordInv, Publish
  PROVE  RecordInv'
<1>1. UNCHANGED <<world, certificates, ledger, issued, clock, revoked>>
  BY DEF Publish, record
<1>2. PICK c \in Coverings : snapshots' = snapshots \cup {Envelope(Snapshot(c[1], c[2]))}
  BY DEF Publish
<1> DEFINE KeyEntry(r) == [key_ref |-> "ikr", trust_ring_ref |-> r, status |-> StatusOf(r)]
           CertificateEntry(x) == [certificate_ref |-> x, status |-> StatusOf(x)]
           keys == {KeyEntry(r) : r \in c[1]}
           references == {CertificateEntry(x) : x \in c[2]}
           snapshot == Snapshot(c[1], c[2])
<1>3. IsFiniteSet(keys) /\ IsFiniteSet(references)
  <2>1. IsFiniteSet(c[1]) /\ IsFiniteSet(c[2])
    BY StatusAssumption
  <2>2. [r \in c[1] |-> KeyEntry(r)] \in Surjection(c[1], keys)
    BY DEF Surjection
  <2>3. [x \in c[2] |-> CertificateEntry(x)] \in Surjection(c[2], references)
    BY DEF Surjection
  <2> QED  BY <2>1, <2>2, <2>3, FS_Surjection
<1>4. /\ snapshot.effective_time = clock
      /\ snapshot.key_status = SetToSeq(keys)
      /\ snapshot.certificate_status = SetToSeq(references)
  BY DEF Snapshot
<1> HIDE DEF snapshot, keys, references
<1>5. clock \in Nat
  BY DEF RecordInv, StatusInv
<1>6. ASSUME NEW i \in DOMAIN snapshot.key_status, snapshot.key_status[i].status = "active"
      PROVE  revoked[snapshot.key_status[i].trust_ring_ref] = ABSENT
  <2>1. PICK r \in c[1] : snapshot.key_status[i] = KeyEntry(r)
    <3>1. snapshot.key_status[i] \in keys
      BY <1>3, <1>4, ListOfSet
    <3> QED  BY <3>1 DEF keys
  <2> QED  BY <1>6, <2>1 DEF StatusOf
<1>7. ASSUME NEW i \in DOMAIN snapshot.certificate_status,
             snapshot.certificate_status[i].status = "active"
      PROVE  revoked[snapshot.certificate_status[i].certificate_ref] = ABSENT
  <2>1. PICK x \in c[2] : snapshot.certificate_status[i] = CertificateEntry(x)
    <3>1. snapshot.certificate_status[i] \in references
      BY <1>3, <1>4, ListOfSet
    <3> QED  BY <3>1 DEF references
  <2> QED  BY <1>7, <2>1 DEF StatusOf
<1>8. /\ DOMAIN snapshot.key_status \subseteq Nat
      /\ DOMAIN snapshot.certificate_status \subseteq Nat
  BY <1>3, <1>4, ListOfSet
<1>9. SnapshotInv(snapshot)
  BY <1>4, <1>5, <1>6, <1>7, <1>8 DEF SnapshotInv, NotRevokedBefore
<1>10. Envelope(snapshot).snapshot = snapshot
  BY DEF Envelope
<1>11. \A e \in snapshots' : e = Envelope(e.snapshot) /\ SnapshotInv(e.snapshot)
  BY <1>2, <1>9, <1>10 DEF RecordInv, StatusInv, snapshot
<1>12. StatusInv'
  BY <1>1, <1>11, CertificatesKept DEF RecordInv, StatusInv, SnapshotInv, NotRevokedBefore
<1> QED  BY <1>1, <1>12, IssuedKept DEF RecordInv, BasesInv

\* The invariant holds in every reachable state.
THEOREM RecordInvariance == Spec => []RecordInv
<1>1. Init => RecordInv
  <2> SUFFICES ASSUME Init PROVE RecordInv
    OBVIOUS
  <2>1. BasesInv
    BY DEF Init, BasesInv
  <2>2. IssuedInv
    BY DEF Init, IssuedInv, NoReceipts, ReceiptsOf
  <2>3. StatusInv
    BY DEF Init, StatusInv
  <2> QED  BY <2>1, <2>2, <2>3 DEF RecordInv
<1>2. RecordInv /\ [Next]_vars => RecordInv'
  <2> SUFFICES ASSUME RecordInv, [Next]_vars
               PROVE  RecordInv'
    OBVIOUS
  <2>1. ASSUME UNCHANGED <<record, status>>
        PROVE  RecordInv'
    BY <2>1, IssuedKept, StatusKept DEF record, status, RecordInv, BasesInv
  <2>2. ASSUME NEW s \in Sessions, Record(s)
        PROVE  RecordInv'
    BY <2>2, RecordStep
  <2>3. ASSUME NEW ref \in Refs, Issue(ref)
        PROVE  RecordInv'
    BY <2>3, IssueStep
  <2>4. CASE Tick
    BY <2>4, TickStep
  <2>5. CASE RevokeStatus
    BY <2>5, RevokeStep
  <2>6. CASE Publish
    BY <2>6, PublishStep
  <2>7. CASE VerifyUnchecked
    BY <2>1, <2>7 DEF VerifyUnchecked
  <2>8. CASE VerifyChecked
    BY <2>1, <2>8 DEF VerifyChecked
  <2>9. CASE UNCHANGED vars
    BY <2>1, <2>9 DEF vars
  <2> QED  BY <2>2, <2>3, <2>4, <2>5, <2>6, <2>7, <2>8, <2>9 DEF Next
<1> QED  BY <1>1, <1>2, PTL DEF Spec
-----------------------------------------------------------------------------
(* The register *)

\* What is filed, and what has been accepted, as the register sees it.
Entry(i) == [pins |-> FiledUnder(i.bundle), record |-> Content(i.bundle)]
Filed == {Entry(i) : i \in issued}
Accepted == IF accepted.bundle = ABSENT THEN ABSENT
            ELSE [pins |-> PinnedBy(accepted.context), record |-> Content(accepted.bundle)]

\* The steps of the register in these terms.
LEMMA RegisterSteps ==
  /\ Contract!Init <=> Filed = {} /\ Accepted = ABSENT
  /\ (Filed' = Filed /\ Accepted' = ABSENT) => Contract!Next
  /\ (Filed' = Filed /\ Accepted' # ABSENT /\ Accepted' \in Filed) => Contract!Next
  /\ (\E entry : Filed' = Filed \cup {entry} /\ Accepted' = ABSENT) => Contract!Next
  /\ (Filed' = Filed /\ Accepted' = Accepted) => UNCHANGED Contract!vars
  BY DEF Contract!Init, Contract!Next, Contract!File, Contract!Accept, Contract!Forget,
         Contract!vars, Filed, Entry, Accepted

\* What the issuer files is not affected by other steps.
LEMMA FiledKept ==
  ASSUME certificates' = certificates, issued' = issued
  PROVE  Filed' = Filed
  BY CertificatesKept DEF Filed, Entry

\* A step that forgets what was accepted, and files nothing.
LEMMA ForgetStep ==
  ASSUME certificates' = certificates, issued' = issued, accepted' = NothingVerified
  PROVE  Contract!Next
<1>1. Accepted' = ABSENT
  BY DEF Accepted, NothingVerified
<1> QED  BY <1>1, FiledKept, RegisterSteps

\* A verification returns what was filed under the caller's pins.
LEMMA AcceptEntryStep ==
  ASSUME RecordInv, UNCHANGED <<record, status>>, NEW b \in ArrivedBundles, NEW ref \in Refs,
         NEW commitments, NEW checked, NEW time, NEW envelope,
         VerifyProcessRecord(b, RecordContext(ref, commitments, checked, time), envelope) = OK,
         accepted' = [bundle |-> b, context |-> RecordContext(ref, commitments, checked, time),
                      envelope |-> envelope]
  PROVE  Contract!Next
<1> DEFINE ctx == RecordContext(ref, commitments, checked, time)
<1>1. PICK i \in issued : FiledUnder(i.bundle) = PinnedBy(ctx) /\ Content(i.bundle) = Content(b)
  BY AcceptedWasIssued
<1>2. Filed' = Filed
  BY FiledKept DEF record
<1>3. accepted'.bundle = b /\ accepted'.context = ctx
  OBVIOUS
<1> HIDE DEF ctx
<1>4. Entry(i) \in Filed /\ Entry(i) = [pins |-> PinnedBy(ctx), record |-> Content(b)]
  BY <1>1 DEF Filed, Entry
<1>5. Accepted' = IF b = ABSENT THEN ABSENT ELSE Entry(i)
  BY <1>3, <1>4 DEF Accepted, PinnedBy, Content
<1> QED  BY <1>2, <1>4, <1>5, RegisterSteps

\* A bundle that the backend signs is filed.
LEMMA FileStep ==
  ASSUME NEW ref \in Refs, Issue(ref)
  PROVE  Contract!Next
<1>1. certificates' = certificates /\ accepted' = NothingVerified
  BY DEF Issue
<1>2. PICK new : issued' = issued \cup {new}
  BY DEF Issue
<1>3. \A i : Entry(i)' = Entry(i)
  BY <1>1, CertificatesKept DEF Entry
<1>4. Filed' = Filed \cup {Entry(new)}
  BY <1>2, <1>3 DEF Filed
<1>5. Accepted' = ABSENT
  BY <1>1 DEF Accepted, NothingVerified
<1> QED  BY <1>4, <1>5, RegisterSteps

\* verify_process_record_certificate implements the register, for every
\* session, plan and base certificate and whatever bundles arrive: it returns
\* only what the backend signed under the caller's pins, member for member, the
\* integers of the V1 members down to the type they were decoded with and those
\* of the base certificate up to the floats they are equal to.
THEOREM RegisterImplemented == Spec => ImplementsRegister
<1>1. Init => Contract!Init
  <2> SUFFICES ASSUME Init PROVE Contract!Init
    OBVIOUS
  <2>1. Filed = {} /\ Accepted = ABSENT
    BY DEF Init, Filed, Accepted, NothingVerified
  <2> QED  BY <2>1, RegisterSteps
<1>2. RecordInv /\ [Next]_vars => [Contract!Next]_Contract!vars
  <2> SUFFICES ASSUME RecordInv, [Next]_vars
               PROVE  Contract!Next \/ UNCHANGED Contract!vars
    OBVIOUS
  <2>1. ASSUME NEW s \in Sessions, Record(s)
        PROVE  Contract!Next
    BY <2>1, ForgetStep DEF Record
  <2>2. ASSUME NEW ref \in Refs, Issue(ref)
        PROVE  Contract!Next
    BY <2>2, FileStep
  <2>3. CASE Tick
    BY <2>3, ForgetStep DEF Tick, record
  <2>4. CASE RevokeStatus
    BY <2>4, ForgetStep DEF RevokeStatus, record
  <2>5. CASE Publish
    BY <2>5, ForgetStep DEF Publish, record
  <2>6. CASE VerifyUnchecked
    <3>1. PICK b \in ArrivedBundles, ref \in Refs : \E commitments :
             /\ VerifyProcessRecord(b, RecordContext(ref, commitments, FALSE, clock), ABSENT) = OK
             /\ accepted' = [bundle |-> b,
                             context |-> RecordContext(ref, commitments, FALSE, clock),
                             envelope |-> ABSENT]
      BY <2>6 DEF VerifyUnchecked
    <3> QED  BY <2>6, <3>1, AcceptEntryStep DEF VerifyUnchecked
  <2>7. CASE VerifyChecked
    <3>1. PICK envelope \in ArrivedStatuses, b \in ArrivedBundles, ref \in Refs, time \in 0..clock :
          \E commitments :
             /\ VerifyProcessRecord(b, RecordContext(ref, commitments, TRUE, time), envelope) = OK
             /\ accepted' = [bundle |-> b,
                             context |-> RecordContext(ref, commitments, TRUE, time),
                             envelope |-> envelope]
      BY <2>7 DEF VerifyChecked
    <3> QED  BY <2>7, <3>1, AcceptEntryStep DEF VerifyChecked
  <2>8. CASE UNCHANGED vars
    <3>1. certificates' = certificates /\ issued' = issued /\ accepted' = accepted
      BY <2>8 DEF vars, record
    <3>2. Accepted' = Accepted
      BY <3>1 DEF Accepted, PinnedBy, Content
    <3> QED  BY <3>1, <3>2, FiledKept, RegisterSteps
  <2> QED  BY <2>1, <2>2, <2>3, <2>4, <2>5, <2>6, <2>7, <2>8 DEF Next
<1>3. Contract!Init /\ [][Contract!Next]_Contract!vars => ImplementsRegister
  BY DEF ImplementsRegister, Contract!Spec
<1> QED  BY <1>1, <1>2, <1>3, RecordInvariance, PTL DEF Spec
-----------------------------------------------------------------------------
(* Revocation *)

\* What a trust-status envelope that passes has shown.
LEMMA TrustStatusFacts ==
  ASSUME NEW envelope, NEW ctx, VerifyTrustStatus(envelope, ctx) = OK
  PROVE  /\ NoDuplicates(envelope.snapshot)
         /\ VerifySignature(ctx.trust_anchor.public_key, envelope.signature.algorithm,
                            SnapshotMaterial(envelope.snapshot), envelope.signature.signature) = OK
         /\ Fresh(envelope.snapshot.effective_time, ctx.verification_time)
  BY DEF VerifyTrustStatus, &&, Require, Translate, OK

\* The signature on a snapshot that verifies was made on that snapshot.
LEMMA SnapshotSigned ==
  ASSUME RecordInv, NEW key, NEW algorithm, NEW snapshot, NEW sig, RecordMade(sig),
         VerifySignature(key, algorithm, SnapshotMaterial(snapshot), sig) = OK
  PROVE  \E e \in snapshots : snapshot = e.snapshot
<1> DEFINE material == SnapshotMaterial(snapshot)
<1>1. /\ \A a : material # IssuerMaterial(a)
      /\ \A a : material # ClientMaterial(a)
      /\ \A a : material # ProcessMaterial(a)
  BY MaterialsDiffer
<1>2. VerifySignature(key, algorithm, material, sig) = OK
  OBVIOUS
<1> HIDE DEF material
<1>3. \E e \in snapshots : material = SnapshotMaterial(e.snapshot)
  BY <1>1, <1>2, VerifiedRecordSignature
<1> QED  BY <1>3 DEF material, SnapshotMaterial

\* When no two entries cover the same, the one that decides is the covering one.
LEMMA EntryActive ==
  ASSUME NEW entries, NEW covering, NEW code, covering \subseteq Nat,
         \A i, j \in covering : i = j, CheckEntry(entries, covering, code) = OK, code # OK
  PROVE  \E i \in covering : entries[i].status = "active"
<1>1. covering # {} /\ entries[Min(covering)].status = "active"
  BY DEF CheckEntry, &&, Require, OK
<1>2. \E i \in covering : \A j \in covering : i <= j
  BY <1>1
<1>3. Min(covering) \in covering
  BY <1>2 DEF Min
<1> QED  BY <1>1, <1>3

\* What a snapshot that passes calls active.
LEMMA CoveredActive ==
  ASSUME NEW snapshot, NEW issuer, NEW ref, NoDuplicates(snapshot),
         DOMAIN snapshot.key_status \subseteq Nat,
         DOMAIN snapshot.certificate_status \subseteq Nat,
         CheckCoverage(snapshot, issuer, ref) = OK
  PROVE  /\ \E i \in DOMAIN snapshot.key_status :
               /\ snapshot.key_status[i].status = "active"
               /\ snapshot.key_status[i].trust_ring_ref = issuer.trust_ring_ref
         /\ \E i \in DOMAIN snapshot.certificate_status :
               /\ snapshot.certificate_status[i].status = "active"
               /\ snapshot.certificate_status[i].certificate_ref = ref
<1> DEFINE keys == snapshot.key_status
           references == snapshot.certificate_status
           coveringKeys == {i \in DOMAIN keys :
                               KeyOf(keys[i]) = <<issuer.key_ref, issuer.trust_ring_ref>>}
           coveringRefs == {i \in DOMAIN references : CertificateOf(references[i]) = ref}
<1>1. /\ CheckEntry(keys, coveringKeys, "KEY_REVOKED") = OK
      /\ CheckEntry(references, coveringRefs, "CERTIFICATE_REVOKED") = OK
  BY DEF CheckCoverage, CheckCertificateEntry, &&, OK
<1>2. \A i, j \in coveringKeys : i = j
  BY DEF NoDuplicates, IsInjective
<1>3. \A i, j \in coveringRefs : i = j
  BY DEF NoDuplicates, IsInjective
<1>4. coveringKeys \subseteq Nat /\ coveringRefs \subseteq Nat
  OBVIOUS
<1>5. "KEY_REVOKED" # OK /\ "CERTIFICATE_REVOKED" # OK
  BY DEF OK
<1> HIDE DEF coveringKeys, coveringRefs
<1>6. PICK i \in coveringKeys : keys[i].status = "active"
  BY <1>1, <1>2, <1>4, <1>5, EntryActive
<1>7. PICK j \in coveringRefs : references[j].status = "active"
  BY <1>1, <1>3, <1>4, <1>5, EntryActive
<1>8. i \in DOMAIN keys /\ keys[i].trust_ring_ref = issuer.trust_ring_ref
  BY DEF coveringKeys, KeyOf
<1>9. j \in DOMAIN references /\ references[j].certificate_ref = ref
  BY DEF coveringRefs, CertificateOf
<1> QED  BY <1>6, <1>7, <1>8, <1>9

\* A record verified with a snapshot, as of a time.
LEMMA CheckedStep ==
  ASSUME RecordInv, UNCHANGED <<record, status>>, NEW e \in ArrivedStatuses, NEW b, NEW ref \in Refs,
         NEW commitments, NEW time \in 0..clock,
         VerifyProcessRecord(b, RecordContext(ref, commitments, TRUE, time), e) = OK,
         accepted' = [bundle |-> b, context |-> RecordContext(ref, commitments, TRUE, time),
                      envelope |-> e]
  PROVE  RevocationTakesEffect'
<1> DEFINE ctx == RecordContext(ref, commitments, TRUE, time)
           snapshot == e.snapshot
           issuer == b.verification_materials_v0.issuer
<1>1. /\ ctx.certificate_ref = ref /\ ctx.verification_time = time
      /\ ctx.base_context.trust_ring_ref = RingOf(ref)
      /\ ~ctx.allow_unchecked_base_status
  BY DEF RecordContext, Context, RingOf
<1>2. accepted'.context = ctx
  OBVIOUS
<1>3. VerifyBase(b, ctx) = OK /\ CheckStatus(b, ctx, e) = OK
  BY VerifiedStages
<1> HIDE DEF ctx
<1>4. issuer.trust_ring_ref = RingOf(ref)
  BY <1>1, <1>3, VerifiedBase
<1>5. VerifyTrustStatus(e, ctx) = OK /\ CheckCoverage(snapshot, issuer, ref) = OK
  BY <1>1, <1>3 DEF CheckStatus, &&, OK
<1>6. NoDuplicates(snapshot) /\ Fresh(snapshot.effective_time, time)
  BY <1>1, <1>5, TrustStatusFacts
<1>7. SnapshotInv(snapshot)
  <2> DEFINE key == ctx.trust_anchor.public_key
             algorithm == e.signature.algorithm
             sig == e.signature.signature
  <2>1. VerifySignature(key, algorithm, SnapshotMaterial(snapshot), sig) = OK
    BY <1>5, TrustStatusFacts
  <2>2. RecordMade(sig)
    BY DEF ArrivedStatuses
  <2> HIDE DEF key, algorithm, sig, snapshot
  <2>3. \E x \in snapshots : snapshot = x.snapshot
    BY <2>1, <2>2, SnapshotSigned
  <2> QED  BY <2>3 DEF RecordInv, StatusInv
<1> HIDE DEF snapshot, issuer
<1>8. /\ \E i \in DOMAIN snapshot.key_status :
            /\ snapshot.key_status[i].status = "active"
            /\ snapshot.key_status[i].trust_ring_ref = RingOf(ref)
      /\ \E i \in DOMAIN snapshot.certificate_status :
            /\ snapshot.certificate_status[i].status = "active"
            /\ snapshot.certificate_status[i].certificate_ref = ref
  BY <1>4, <1>5, <1>6, <1>7, CoveredActive DEF SnapshotInv
<1>9. /\ ref \in DOMAIN revoked /\ RingOf(ref) \in DOMAIN revoked
      /\ revoked[ref] = ABSENT \/ revoked[ref] \in Nat
      /\ revoked[RingOf(ref)] = ABSENT \/ revoked[RingOf(ref)] \in Nat
  BY DEF RecordInv, StatusInv, Rings
<1>10. /\ NotRevokedBefore(ref, snapshot.effective_time)
       /\ NotRevokedBefore(RingOf(ref), snapshot.effective_time)
  BY <1>7, <1>8, <1>9 DEF SnapshotInv
<1>11. snapshot.effective_time \in Nat /\ time \in Nat
  BY <1>7 DEF SnapshotInv, RecordInv, StatusInv
<1>12. \A x \in {ref, RingOf(ref)} : revoked[x] # ABSENT => revoked[x] + TRUST_MAX_AGE >= time
  BY <1>6, <1>9, <1>10, <1>11, StatusAssumption DEF Fresh, NotRevokedBefore
<1>13. revoked' = revoked /\ RingOf(ref)' = RingOf(ref)
  BY DEF record, status, RingOf, SessionOf
<1> QED  BY <1>1, <1>2, <1>12, <1>13 DEF RevocationTakesEffect, RingOf, SessionOf

\* A revocation takes effect within the age limit of a snapshot, for every age
\* limit, whatever is revoked and published and whatever snapshots arrive: a
\* record verified with a snapshot as of a time was, within the limit before
\* that time, neither revoked itself nor signed with a key retired from its ring.
THEOREM RevocationEffective == Spec => []RevocationTakesEffect
<1>1. ASSUME accepted' = NothingVerified
      PROVE  RevocationTakesEffect'
  BY <1>1 DEF RevocationTakesEffect, NothingVerified
<1>2. Init => RevocationTakesEffect
  BY DEF Init, RevocationTakesEffect, NothingVerified
<1>3. RecordInv /\ RevocationTakesEffect /\ [Next]_vars => RevocationTakesEffect'
  <2> SUFFICES ASSUME RecordInv, RevocationTakesEffect, [Next]_vars
               PROVE  RevocationTakesEffect'
    OBVIOUS
  <2>1. ASSUME NEW s \in Sessions, Record(s)
        PROVE  RevocationTakesEffect'
    BY <1>1, <2>1 DEF Record
  <2>2. ASSUME NEW ref \in Refs, Issue(ref)
        PROVE  RevocationTakesEffect'
    BY <1>1, <2>2 DEF Issue
  <2>3. CASE Tick
    BY <1>1, <2>3 DEF Tick
  <2>4. CASE RevokeStatus
    BY <1>1, <2>4 DEF RevokeStatus
  <2>5. CASE Publish
    BY <1>1, <2>5 DEF Publish
  <2>6. CASE VerifyUnchecked
    <3>1. accepted'.envelope = ABSENT
      BY <2>6 DEF VerifyUnchecked
    <3> QED  BY <3>1 DEF RevocationTakesEffect
  <2>7. CASE VerifyChecked
    <3>1. PICK e \in ArrivedStatuses, b \in ArrivedBundles, ref \in Refs, time \in 0..clock :
          \E commitments :
             /\ VerifyProcessRecord(b, RecordContext(ref, commitments, TRUE, time), e) = OK
             /\ accepted' = [bundle |-> b,
                             context |-> RecordContext(ref, commitments, TRUE, time),
                             envelope |-> e]
      BY <2>7 DEF VerifyChecked
    <3> QED  BY <2>7, <3>1, CheckedStep DEF VerifyChecked
  <2>8. CASE UNCHANGED vars
    BY <2>8 DEF vars, record, status, RevocationTakesEffect, RingOf, SessionOf
  <2> QED  BY <2>1, <2>2, <2>3, <2>4, <2>5, <2>6, <2>7, <2>8 DEF Next
<1> QED  BY <1>2, <1>3, RecordInvariance, PTL DEF Spec
-----------------------------------------------------------------------------
(* The report *)

\* Among finitely many places there is a last one.
LEMMA LastPlace ==
  ASSUME NEW n \in Nat, NEW T \in SUBSET (1..n), T # {}
  PROVE  \E m \in T : \A x \in T : x <= m
<1> DEFINE D == {n - x : x \in T}
<1>1. D \subseteq Nat /\ D # {}
  <2>1. \A x \in T : n - x \in Nat
    OBVIOUS
  <2> QED  BY <2>1
<1>2. PICK d \in D : \A y \in D : <<y, d>> \notin OpToRel(<, Nat)
  <2> HIDE DEF D
  <2> QED  BY <1>1, NatLessThanWellFounded, WFMin
<1>3. PICK m \in T : d = n - m
  OBVIOUS
<1>4. ASSUME NEW x \in T
      PROVE  x <= m
  <2>1. n - x \in D /\ n - x \in Nat /\ d \in Nat
    BY <1>1
  <2>2. ~(n - x < d)
    BY <1>2, <2>1 DEF OpToRel
  <2> QED  BY <1>3, <2>1, <2>2
<1> QED  BY <1>4

\* A stream of receipts, numbered from 1 on.
Numbered(stream) == (\E S : stream \in Seq(S)) /\ \A i \in DOMAIN stream : stream[i].seq = i

LedgerInv ==
    /\ \A s \in Sessions : \A k \in DOMAIN Streams : Numbered(ledger[s][Streams[k]])
    /\ \A i \in issued :
          LET s == FiledUnder(i.bundle).build_session_ref
          IN  /\ s \in Sessions
              /\ \A k \in DOMAIN Streams :
                    /\ Numbered(i.bundle.receipts[Streams[k]])
                    /\ IsPrefix(i.bundle.receipts[Streams[k]], ledger[s][Streams[k]])

\* The last receipt of a step among numbered streams is one that LastReceipts
\* names.
LEMMA SelectedIsLast ==
  ASSUME NEW rs, NEW step, \A k \in DOMAIN Streams : Numbered(rs[Streams[k]]),
         \E i \in DOMAIN Flattened(rs) : Flattened(rs)[i].step_id = step
  PROVE  Selected(Flattened(rs), step) \in LastReceipts(rs, step)
<1>1. PICK a, b, c : a = rs[Streams[1]] /\ b = rs[Streams[2]] /\ c = rs[Streams[3]]
  OBVIOUS
<1>2. DOMAIN Streams = {1, 2, 3}
  BY DEF Streams
<1>3. PICK S : a \in Seq(S) /\ b \in Seq(S) /\ c \in Seq(S)
  <2>1. PICK A : a \in Seq(A)
    BY <1>1, <1>2 DEF Numbered
  <2>2. PICK B : b \in Seq(B)
    BY <1>1, <1>2 DEF Numbered
  <2>3. PICK C : c \in Seq(C)
    BY <1>1, <1>2 DEF Numbered
  <2>4. a \in Seq(A \cup B \cup C) /\ b \in Seq(A \cup B \cup C) /\ c \in Seq(A \cup B \cup C)
    BY <2>1, <2>2, <2>3
  <2> QED  BY <2>4
<1>4. /\ \A i \in DOMAIN a : a[i].seq = i
      /\ \A i \in DOMAIN b : b[i].seq = i
      /\ \A i \in DOMAIN c : c[i].seq = i
  BY <1>1, <1>2 DEF Numbered
<1>5. PICK all : all = Flattened(rs)
  OBVIOUS
<1>6. all = a \o b \o c
  BY <1>1, <1>5 DEF Flattened
<1>7. /\ all \in Seq(S) /\ Len(all) = Len(a) + Len(b) + Len(c) /\ DOMAIN all = 1..Len(all)
      /\ \A i \in 1..Len(a) : all[i] = a[i]
      /\ \A i \in 1..Len(b) : all[Len(a) + i] = b[i]
      /\ \A i \in 1..Len(c) : all[Len(a) + Len(b) + i] = c[i]
  BY <1>3, <1>6
<1>8. PICK m \in DOMAIN all :
         /\ all[m].step_id = step
         /\ \A j \in DOMAIN all : all[j].step_id = step => j <= m
         /\ Selected(all, step) = all[m]
  <2> DEFINE T == {i \in DOMAIN all : all[i].step_id = step}
  <2>1. T \in SUBSET (1..Len(all)) /\ T # {} /\ Len(all) \in Nat
    BY <1>5, <1>7
  <2>2. \E i \in DOMAIN all : /\ all[i].step_id = step
                              /\ \A j \in DOMAIN all : all[j].step_id = step => j <= i
    <3>1. \E i \in T : \A j \in T : j <= i
      <4> HIDE DEF T
      <4> QED  BY <2>1, LastPlace
    <3> QED  BY <3>1
  <2>3. PICK m : m = CHOOSE i \in DOMAIN all : /\ all[i].step_id = step
                                               /\ \A j \in DOMAIN all : all[j].step_id = step => j <= i
    OBVIOUS
  <2>4. Selected(all, step) = all[m]
    BY <2>3 DEF Selected
  <2>5. /\ m \in DOMAIN all /\ all[m].step_id = step
        /\ \A j \in DOMAIN all : all[j].step_id = step => j <= m
    BY <2>2, <2>3
  <2> QED  BY <2>4, <2>5
<1> DEFINE Of(k) == {r \in Range(rs[Streams[k]]) : r.step_id = step}
<1>9. /\ Of(1) = {r \in Range(a) : r.step_id = step}
      /\ Of(2) = {r \in Range(b) : r.step_id = step}
      /\ Of(3) = {r \in Range(c) : r.step_id = step}
  BY <1>1
<1>10. PICK r : r = all[m]
  OBVIOUS
<1>11. /\ Len(a) \in Nat /\ Len(b) \in Nat /\ Len(c) \in Nat
       /\ DOMAIN a = 1..Len(a) /\ DOMAIN b = 1..Len(b) /\ DOMAIN c = 1..Len(c) /\ m \in Nat \ {0}
  BY <1>3, <1>7, <1>8
<1>b. \A i \in DOMAIN b : Len(a) + i \in DOMAIN all /\ all[Len(a) + i] = b[i]
  BY <1>7, <1>11
<1>c. \A i \in DOMAIN c : Len(a) + Len(b) + i \in DOMAIN all /\ all[Len(a) + Len(b) + i] = c[i]
  BY <1>7, <1>11
<1>12. \E k \in {1, 2, 3} : /\ r \in Of(k) /\ \A x \in Of(k) : x.seq <= r.seq
                            /\ \A j \in {1, 2, 3} : j > k => Of(j) = {}
  <2>1. CASE m <= Len(a)
    <3>1. m \in DOMAIN a /\ r = a[m] /\ r.seq = m
      BY <1>4, <1>7, <1>10, <1>11, <2>1
    <3>2. \A i \in DOMAIN a : a[i].step_id = step => i <= m
      BY <1>7, <1>8, <1>11
    <3>3. \A i \in DOMAIN b : b[i].step_id # step
      BY <1>b, <1>8, <1>11, <2>1
    <3>4. \A i \in DOMAIN c : c[i].step_id # step
      BY <1>c, <1>8, <1>11, <2>1
    <3>5. r \in Of(1) /\ \A x \in Of(1) : x.seq <= r.seq
      BY <1>4, <1>8, <1>9, <1>10, <3>1, <3>2 DEF Range
    <3>6. Of(2) = {} /\ Of(3) = {}
      BY <1>9, <3>3, <3>4 DEF Range
    <3> HIDE DEF Of
    <3> QED  BY <3>5, <3>6
  <2>2. CASE m > Len(a) /\ m <= Len(a) + Len(b)
    <3>1. PICK n \in DOMAIN b : m = Len(a) + n
      <4>1. m - Len(a) \in DOMAIN b /\ m = Len(a) + (m - Len(a))
        BY <1>11, <2>2
      <4> QED  BY <4>1
    <3>2. r = b[n] /\ r.seq = n
      BY <1>4, <1>7, <1>10, <1>11, <3>1
    <3>3. \A i \in DOMAIN b : b[i].step_id = step => i <= n
      BY <1>b, <1>8, <1>11, <3>1
    <3>4. \A i \in DOMAIN c : c[i].step_id # step
      BY <1>c, <1>8, <1>11, <2>2
    <3>5. r \in Of(2) /\ \A x \in Of(2) : x.seq <= r.seq
      BY <1>4, <1>8, <1>9, <1>10, <3>1, <3>2, <3>3 DEF Range
    <3>6. Of(3) = {}
      BY <1>9, <3>4 DEF Range
    <3> HIDE DEF Of
    <3> QED  BY <3>5, <3>6
  <2>3. CASE m > Len(a) + Len(b)
    <3>1. PICK n \in DOMAIN c : m = Len(a) + Len(b) + n
      <4>1. m - (Len(a) + Len(b)) \in DOMAIN c /\ m = Len(a) + Len(b) + (m - (Len(a) + Len(b)))
        BY <1>7, <1>8, <1>11, <2>3
      <4> QED  BY <4>1
    <3>2. r = c[n] /\ r.seq = n
      BY <1>4, <1>7, <1>10, <1>11, <3>1
    <3>3. \A i \in DOMAIN c : c[i].step_id = step => i <= n
      BY <1>c, <1>8, <1>11, <3>1
    <3>5. r \in Of(3) /\ \A x \in Of(3) : x.seq <= r.seq
      BY <1>4, <1>8, <1>9, <1>10, <3>1, <3>2, <3>3 DEF Range
    <3> HIDE DEF Of
    <3> QED  BY <3>5
  <2> QED  BY <1>11, <2>1, <2>2, <2>3
<1>13. r \in LastReceipts(rs, step)
  BY <1>2, <1>12 DEF LastReceipts
<1> QED  BY <1>5, <1>8, <1>10, <1>13

\* A step without a receipt has no last one.
LEMMA NoReceiptIsLast ==
  ASSUME NEW rs, NEW step, \A k \in DOMAIN Streams : Numbered(rs[Streams[k]]),
         \A i \in DOMAIN Flattened(rs) : Flattened(rs)[i].step_id # step
  PROVE  LastReceipts(rs, step) = {}
<1>1. PICK a, b, c : a = rs[Streams[1]] /\ b = rs[Streams[2]] /\ c = rs[Streams[3]]
  OBVIOUS
<1>2. DOMAIN Streams = {1, 2, 3}
  BY DEF Streams
<1>3. PICK A, B, C : a \in Seq(A) /\ b \in Seq(B) /\ c \in Seq(C)
  BY <1>1, <1>2 DEF Numbered
<1>4. PICK all : all = Flattened(rs)
  OBVIOUS
<1>5. all = a \o b \o c
  BY <1>1, <1>4 DEF Flattened
<1>6. a \in Seq(A \cup B \cup C) /\ b \in Seq(A \cup B \cup C) /\ c \in Seq(A \cup B \cup C)
  BY <1>3
<1>7. /\ \A i \in DOMAIN a : i \in DOMAIN all /\ all[i] = a[i]
      /\ \A i \in DOMAIN b : Len(a) + i \in DOMAIN all /\ all[Len(a) + i] = b[i]
      /\ \A i \in DOMAIN c : Len(a) + Len(b) + i \in DOMAIN all /\ all[Len(a) + Len(b) + i] = c[i]
  BY <1>5, <1>6
<1>8. \A k \in {1, 2, 3} : {r \in Range(rs[Streams[k]]) : r.step_id = step} = {}
  <2>1. /\ \A i \in DOMAIN a : a[i].step_id # step
        /\ \A i \in DOMAIN b : b[i].step_id # step
        /\ \A i \in DOMAIN c : c[i].step_id # step
    BY <1>4, <1>7
  <2> QED  BY <1>1, <2>1 DEF Range
<1> QED  BY <1>2, <1>8 DEF LastReceipts

\* The rows of a derived report show the last receipts.
ShowsLast(rs, report) ==
    \A i \in DOMAIN ExpectedSteps :
        LET row == report.rows[i]
            last == LastReceipts(rs, ExpectedSteps[i])
        IN  IF last = {} THEN row.status = "missing"
            ELSE \E r \in last :
                    <<row.status, row.receipt_digest, row.observation_kind, row.registered_values>>
                    = <<"present", r.receipt_digest, r.observation_basis, r.registered_values>>

LEMMA DerivedShowsLast ==
  ASSUME NEW rs, NEW project, NEW session, \A k \in DOMAIN Streams : Numbered(rs[Streams[k]])
  PROVE  ShowsLast(rs, DeriveReport(rs, project, session))
<1> SUFFICES ASSUME NEW i \in DOMAIN ExpectedSteps
             PROVE  LET row == DeriveReport(rs, project, session).rows[i]
                        last == LastReceipts(rs, ExpectedSteps[i])
                    IN  IF last = {} THEN row.status = "missing"
                        ELSE \E r \in last :
                                <<row.status, row.receipt_digest, row.observation_kind,
                                  row.registered_values>>
                                = <<"present", r.receipt_digest, r.observation_basis,
                                    r.registered_values>>
  BY DEF ShowsLast
<1>1. PICK step : step = ExpectedSteps[i]
  OBVIOUS
<1>2. PICK all : all = Flattened(rs)
  OBVIOUS
<1>3. DeriveReport(rs, project, session).rows[i] = ReportRow(all, step)
  BY <1>1, <1>2 DEF DeriveReport
<1>4. CASE \A j \in DOMAIN all : all[j].step_id # step
  <2>1. ReportRow(all, step).status = "missing"
    BY <1>4 DEF ReportRow
  <2>2. LastReceipts(rs, step) = {}
    BY <1>2, <1>4, NoReceiptIsLast
  <2> QED  BY <1>1, <1>3, <2>1, <2>2
<1>5. CASE ~ \A j \in DOMAIN all : all[j].step_id # step
  <2>1. PICK r : r = Selected(all, step)
    OBVIOUS
  <2>2. r \in LastReceipts(rs, step)
    BY <1>2, <1>5, <2>1, SelectedIsLast
  <2>3. ReportRow(all, step) = [step_id |-> step, status |-> "present",
                                observation_kind |-> r.observation_basis,
                                receipt_digest |-> r.receipt_digest,
                                registered_values |-> r.registered_values]
    BY <1>5, <2>1 DEF ReportRow
  <2> QED  BY <1>1, <1>3, <2>2, <2>3
<1> QED  BY <1>4, <1>5

\* One more receipt: numbered as the next one, after what was there.
LEMMA AppendedReceipt ==
  ASSUME NEW stream, NEW r, Numbered(stream), r.seq = Len(stream) + 1
  PROVE  /\ Numbered(Append(stream, r))
         /\ \A q : Numbered(q) /\ IsPrefix(q, stream) => IsPrefix(q, Append(stream, r))
<1>1. PICK S : stream \in Seq(S)
  BY DEF Numbered
<1>2. PICK more : more = Append(stream, r)
  OBVIOUS
<1>3. /\ more \in Seq(S \cup {r}) /\ Len(more) = Len(stream) + 1
      /\ \A i \in 1..Len(stream) : more[i] = stream[i]
      /\ more[Len(stream) + 1] = r
  <2>1. stream \in Seq(S \cup {r})
    BY <1>1
  <2> QED  BY <1>2, <2>1
<1>4. Numbered(more)
  BY <1>1, <1>3 DEF Numbered
<1>5. ASSUME NEW q, Numbered(q), IsPrefix(q, stream)
      PROVE  IsPrefix(q, more)
  <2>1. PICK Q : q \in Seq(Q)
    BY <1>5 DEF Numbered
  <2>2. Len(q) \in Nat /\ Len(stream) \in Nat /\ Len(q) <= Len(stream)
    BY <1>1, <1>5, <2>1 DEF IsPrefix
  <2>3. SubSeq(more, 1, Len(q)) = SubSeq(stream, 1, Len(q))
    BY <1>1, <1>3, <2>2
  <2> QED  BY <1>3, <1>5, <2>2, <2>3 DEF IsPrefix
<1> QED  BY <1>2, <1>4, <1>5

\* What Record does to the streams.
LEMMA RecordedStreams ==
  ASSUME RecordInv, NEW s \in Sessions, Record(s), NEW u \in Sessions, NEW k \in DOMAIN Streams
  PROVE  \/ ledger'[u][Streams[k]] = ledger[u][Streams[k]]
         \/ \E r : /\ r.seq = Len(ledger[u][Streams[k]]) + 1
                   /\ ledger'[u][Streams[k]] = Append(ledger[u][Streams[k]], r)
<1>1. PICK o \in Observations[s] :
         ledger' = [ledger EXCEPT ![s][o.stream] = Append(@, Receipt(s, o, Len(@) + 1))]
  BY DEF Record
<1>2. ledger[s] = ReceiptsOf(ledger[s]) /\ DOMAIN ledger = Sessions
  BY DEF RecordInv, IssuedInv
<1>3. CASE u # s
  BY <1>1, <1>2, <1>3
<1>4. CASE u = s
  <2>1. PICK name : name = Streams[k]
    OBVIOUS
  <2>2. name \in DOMAIN ledger[s]
    <3>1. Streams[k] \in {"decision_stream", "receipt_event_stream", "transition_stream"}
      BY DEF Streams
    <3> QED  BY <1>2, <2>1, <3>1 DEF ReceiptsOf
  <2>3. PICK r : r = Receipt(s, o, Len(ledger[s][o.stream]) + 1)
    OBVIOUS
  <2>4. ledger'[s] = [ledger[s] EXCEPT ![o.stream] = Append(ledger[s][o.stream], r)]
    BY <1>1, <1>2, <2>3
  <2>5. r.seq = Len(ledger[s][o.stream]) + 1
    BY <2>3 DEF Receipt
  <2>6. CASE o.stream = name
    BY <1>4, <2>1, <2>2, <2>4, <2>5, <2>6
  <2>7. CASE o.stream # name
    BY <1>4, <2>1, <2>2, <2>4, <2>7
  <2> QED  BY <2>6, <2>7
<1> QED  BY <1>3, <1>4

\* The receipts that the backend signs are, stream by stream, the first ones
\* that it recorded for the session, numbered from 1 on.
LEMMA LedgerInvariance == Spec => []LedgerInv
<1>1. Init => LedgerInv
  <2> SUFFICES ASSUME Init PROVE LedgerInv
    OBVIOUS
  <2>1. Numbered(<<>>)
    <3>1. <<>> \in Seq(Nat) /\ DOMAIN <<>> = {}
      OBVIOUS
    <3> QED  BY <3>1 DEF Numbered
  <2>2. \A s \in Sessions : \A k \in DOMAIN Streams : ledger[s][Streams[k]] = <<>>
    BY DEF Init, NoReceipts, Streams
  <2> QED  BY <2>1, <2>2 DEF Init, LedgerInv
<1>2. RecordInv /\ LedgerInv /\ [Next]_vars => LedgerInv'
  <2> SUFFICES ASSUME RecordInv, LedgerInv, [Next]_vars
               PROVE  LedgerInv'
    OBVIOUS
  <2>1. CASE UNCHANGED <<certificates, ledger, issued>>
    BY <2>1, CertificatesKept DEF LedgerInv
  <2>2. ASSUME NEW s \in Sessions, Record(s)
        PROVE  LedgerInv'
    <3>1. certificates' = certificates /\ issued' = issued
      BY <2>2 DEF Record
    <3>2. \A u \in Sessions : \A k \in DOMAIN Streams :
             /\ Numbered(ledger'[u][Streams[k]])
             /\ \A q : Numbered(q) /\ IsPrefix(q, ledger[u][Streams[k]])
                          => IsPrefix(q, ledger'[u][Streams[k]])
      <4> TAKE u \in Sessions
      <4> TAKE k \in DOMAIN Streams
      <4>1. Numbered(ledger[u][Streams[k]])
        BY DEF LedgerInv
      <4>2. CASE ledger'[u][Streams[k]] = ledger[u][Streams[k]]
        BY <4>1, <4>2
      <4>3. ASSUME NEW r, r.seq = Len(ledger[u][Streams[k]]) + 1,
                   ledger'[u][Streams[k]] = Append(ledger[u][Streams[k]], r)
            PROVE  /\ Numbered(ledger'[u][Streams[k]])
                   /\ \A q : Numbered(q) /\ IsPrefix(q, ledger[u][Streams[k]])
                                => IsPrefix(q, ledger'[u][Streams[k]])
        BY <4>1, <4>3, AppendedReceipt
      <4> QED  BY <2>2, <4>2, <4>3, RecordedStreams
    <3>3. \A b : FiledUnder(b)' = FiledUnder(b)
      BY <3>1, CertificatesKept
    <3> QED  BY <3>1, <3>2, <3>3 DEF LedgerInv
  <2>3. ASSUME NEW ref \in Refs, Issue(ref)
        PROVE  LedgerInv'
    <3>1. PICK s : s = SessionOf(ref)
      OBVIOUS
    <3>2. certificates' = certificates /\ ledger' = ledger
      BY <2>3 DEF Issue
    <3>3. PICK report, compiled :
             issued' = issued \cup
                {[bundle |-> Bundle(ref, ledger[s], report, certificates[ref].commitments),
                  compiled |-> compiled]}
      BY <2>3, <3>1 DEF Issue
    <3>4. PICK b : b = Bundle(ref, ledger[s], report, certificates[ref].commitments)
      OBVIOUS
    <3>5. s \in Sessions
      <4>1. certificates[ref] = Bases[world.bases[ref]] /\ ref \in DOMAIN world.bases
        BY DEF RecordInv, BasesInv, Refs
      <4> QED  BY <3>1, <4>1, WorldsAssumption, BasesAssumption DEF RecordInv, BasesInv, SessionOf
    <3>6. b.receipts = Sealed(ledger[s]) /\ b.verification_materials_v0 = BaseMaterials[ref]
      BY <3>4, BundleMembers
    <3>7. FiledUnder(b).build_session_ref = s
      BY <3>1, <3>6 DEF FiledUnder, BaseMaterials, Materials
    <3>8. ledger[s] = ReceiptsOf(ledger[s])
      BY <3>5 DEF RecordInv, IssuedInv
    <3>9. \A k \in DOMAIN Streams : b.receipts[Streams[k]] = ledger[s][Streams[k]]
      BY <3>6, <3>8 DEF Sealed, ReceiptsOf, Streams
    <3>10. ASSUME NEW k \in DOMAIN Streams
           PROVE  IsPrefix(ledger[s][Streams[k]], ledger[s][Streams[k]])
      <4>1. PICK S : ledger[s][Streams[k]] \in Seq(S)
        BY <3>5 DEF LedgerInv, Numbered
      <4> QED  BY <4>1 DEF IsPrefix
    <3>11. \A k \in DOMAIN Streams : /\ Numbered(b.receipts[Streams[k]])
                                     /\ IsPrefix(b.receipts[Streams[k]], ledger[s][Streams[k]])
      BY <3>5, <3>9, <3>10 DEF LedgerInv
    <3>12. issued' = issued \cup {[bundle |-> b, compiled |-> compiled]}
      BY <3>3, <3>4
    <3>13. \A x : FiledUnder(x)' = FiledUnder(x)
      BY <3>2, CertificatesKept
    <3> QED  BY <3>2, <3>5, <3>7, <3>11, <3>12, <3>13 DEF LedgerInv
  <2> QED
    BY <2>1, <2>2, <2>3
    DEF Next, Tick, RevokeStatus, Publish, VerifyUnchecked, VerifyChecked, vars, record
<1> QED  BY <1>1, <1>2, RecordInvariance, PTL DEF Spec

\* What verifies shows the last receipts of a prefix of what was recorded.
LEMMA VerifiedReport ==
  ASSUME RecordInv, LedgerInv, UNCHANGED <<record, status>>, NEW b \in ArrivedBundles,
         NEW ref \in Refs, NEW commitments, NEW checked, NEW time, NEW envelope,
         VerifyProcessRecord(b, RecordContext(ref, commitments, checked, time), envelope) = OK,
         accepted' = [bundle |-> b, context |-> RecordContext(ref, commitments, checked, time),
                      envelope |-> envelope]
  PROVE  ReportIsOfLastReceipts'
<1>1. PICK ctx : ctx = RecordContext(ref, commitments, checked, time)
  OBVIOUS
<1>2. PICK i \in issued : FiledUnder(i.bundle) = PinnedBy(ctx) /\ Content(i.bundle) = Content(b)
  BY <1>1, AcceptedWasIssued
<1>3. PICK x : x = i.bundle
  OBVIOUS
<1>4. b = BundleOf(b) /\ b.report = DeriveReport(b.receipts, ctx.expected_project_ref,
                                                 ctx.expected_build_session_ref)
  <2>1. ProcessSchemaValid(b) /\ CheckRecord(b, ctx) = OK
    BY <1>1, VerifiedStages
  <2> QED  BY <2>1, RecordFacts DEF ProcessSchemaValid
<1>5. x = BundleOf(x)
  <2>1. PICK r, rs, report, cs : x = Bundle(r, rs, report, cs)
    BY <1>3 DEF RecordInv, IssuedInv
  <2> QED  BY <2>1, BundleFacts, Zenon
<1>6. b.receipts = x.receipts
  BY <1>2, <1>3, <1>4, <1>5 DEF Content, BundleOf
<1>7. FiledUnder(x).build_session_ref = ctx.expected_build_session_ref
  BY <1>2, <1>3 DEF PinnedBy
<1>8. \A k \in DOMAIN Streams :
         /\ Numbered(b.receipts[Streams[k]])
         /\ IsPrefix(b.receipts[Streams[k]], ledger[ctx.expected_build_session_ref][Streams[k]])
  BY <1>3, <1>6, <1>7 DEF LedgerInv
<1>9. ShowsLast(b.receipts, b.report)
  BY <1>4, <1>8, DerivedShowsLast
<1>10. accepted'.bundle = b /\ accepted'.context = ctx /\ ledger' = ledger
  BY <1>1 DEF record
<1> QED  BY <1>8, <1>9, <1>10 DEF ReportIsOfLastReceipts, ShowsLast

\* An accepted report is what was really recorded, for every ledger: each row
\* shows the last receipt of its step among the first receipts of the session,
\* and a report compiled too early is refused (_derive_report).
THEOREM ReportOfLastReceipts == Spec => []ReportIsOfLastReceipts
<1>1. Init => ReportIsOfLastReceipts
  BY DEF Init, ReportIsOfLastReceipts, NothingVerified
<1>2. RecordInv /\ LedgerInv /\ ReportIsOfLastReceipts /\ [Next]_vars => ReportIsOfLastReceipts'
  <2> SUFFICES ASSUME RecordInv, LedgerInv, ReportIsOfLastReceipts, [Next]_vars
               PROVE  ReportIsOfLastReceipts'
    OBVIOUS
  <2>1. CASE accepted' = NothingVerified
    BY <2>1 DEF ReportIsOfLastReceipts, NothingVerified
  <2>2. CASE VerifyUnchecked
    <3>1. PICK b \in ArrivedBundles, ref \in Refs : \E commitments :
             /\ VerifyProcessRecord(b, RecordContext(ref, commitments, FALSE, clock), ABSENT) = OK
             /\ accepted' = [bundle |-> b,
                             context |-> RecordContext(ref, commitments, FALSE, clock),
                             envelope |-> ABSENT]
      BY <2>2 DEF VerifyUnchecked
    <3> QED  BY <2>2, <3>1, VerifiedReport DEF VerifyUnchecked
  <2>3. CASE VerifyChecked
    <3>1. PICK envelope \in ArrivedStatuses, b \in ArrivedBundles, ref \in Refs, time \in 0..clock :
          \E commitments :
             /\ VerifyProcessRecord(b, RecordContext(ref, commitments, TRUE, time), envelope) = OK
             /\ accepted' = [bundle |-> b,
                             context |-> RecordContext(ref, commitments, TRUE, time),
                             envelope |-> envelope]
      BY <2>3 DEF VerifyChecked
    <3> QED  BY <2>3, <3>1, VerifiedReport DEF VerifyChecked
  <2>4. CASE UNCHANGED vars
    BY <2>4 DEF vars, record, ReportIsOfLastReceipts
  <2> QED  BY <2>1, <2>2, <2>3, <2>4 DEF Next, Record, Issue, Tick, RevokeStatus, Publish
<1> QED  BY <1>1, <1>2, RecordInvariance, LedgerInvariance, PTL DEF Spec
-----------------------------------------------------------------------------
(* What the backend signs verifies *)

\* A stream of receipts of a session, as Record appends them.
RecordedStream(stream, s, k) ==
    /\ \E S : stream \in Seq(S)
    /\ \A i \in DOMAIN stream :
          \E o \in Observations[s] : o.stream = Streams[k] /\ stream[i] = Receipt(s, o, i)
RecordedReceipts(rs, s) == \A k \in DOMAIN Streams : RecordedStream(rs[Streams[k]], s, k)

CompiledInv ==
    /\ \A s \in Sessions : RecordedReceipts(ledger[s], s)
    /\ \A i \in issued :
          \E ref \in Refs : \E rs :
             LET s == SessionOf(ref)
             IN  /\ rs = ReceiptsOf(rs)
                 /\ RecordedReceipts(rs, s)
                 /\ RecordedReceipts(i.compiled, s)
                 /\ i.bundle = Bundle(ref, rs, DeriveReport(i.compiled, Plan[s].project_ref, s),
                                      certificates[ref].commitments)

\* The members of a receipt: it holds its own digest, which tells it.
LEMMA ReceiptMembers ==
  ASSUME NEW s, NEW o, NEW n, NEW r, r = Receipt(s, o, n)
  PROVE  /\ r.receipt_ref = <<s, o.stream, n>> /\ r.stream_id = o.stream /\ r.seq = n
         /\ r.project_ref = Plan[s].project_ref /\ r.build_session_ref = s
         /\ r.receipt_digest = ReceiptDigest(r)
         /\ r = [f \in DOMAIN r |-> r[f]]
<1>1. PICK open :
         open = [receipt_ref |-> <<s, o.stream, n>>, project_ref |-> Plan[s].project_ref,
                 build_session_ref |-> s, stream_id |-> o.stream, seq |-> n, step_id |-> o.step,
                 observation_basis |-> o.basis, registered_values |-> o.values,
                 receipt_digest |-> ABSENT]
  OBVIOUS
<1>2. PICK digest : digest = ReceiptDigest(open)
  OBVIOUS
<1>3. r = [open EXCEPT !.receipt_digest = digest]
  BY <1>1, <1>2 DEF Receipt
<1>4. /\ open = [receipt_ref |-> open.receipt_ref, project_ref |-> open.project_ref,
                 build_session_ref |-> open.build_session_ref, stream_id |-> open.stream_id,
                 seq |-> open.seq, step_id |-> open.step_id,
                 observation_basis |-> open.observation_basis,
                 registered_values |-> open.registered_values,
                 receipt_digest |-> open.receipt_digest]
      /\ open.receipt_digest = ABSENT
  BY <1>1
<1>5. [r EXCEPT !.receipt_digest = ABSENT] = open
  BY <1>3, <1>4
<1>6. r.receipt_digest = digest /\ digest = ReceiptDigest(r)
  BY <1>2, <1>3, <1>4, <1>5 DEF ReceiptDigest
<1>7. /\ r.receipt_ref = open.receipt_ref /\ r.stream_id = open.stream_id /\ r.seq = open.seq
      /\ r.project_ref = open.project_ref /\ r.build_session_ref = open.build_session_ref
      /\ r = [f \in DOMAIN r |-> r[f]]
  BY <1>3, <1>4
<1>8. /\ open.receipt_ref = <<s, o.stream, n>> /\ open.stream_id = o.stream /\ open.seq = n
      /\ open.project_ref = Plan[s].project_ref /\ open.build_session_ref = s
  BY <1>1
<1> QED  BY <1>6, <1>7, <1>8

LEMMA ReceiptOfDigest ==
  ASSUME NEW s, NEW o, NEW n, NEW p, NEW m, NEW x, NEW y,
         x = Receipt(s, o, n), y = Receipt(s, p, m), x.receipt_digest = y.receipt_digest
  PROVE  x = y
<1>1. /\ x.receipt_digest = ReceiptDigest(x) /\ x = [f \in DOMAIN x |-> x[f]]
      /\ y.receipt_digest = ReceiptDigest(y) /\ y = [f \in DOMAIN y |-> y[f]]
  BY ReceiptMembers
<1>2. PICK z : z = [x EXCEPT !.receipt_digest = ABSENT]
  OBVIOUS
<1>3. z = [y EXCEPT !.receipt_digest = ABSENT]
  <2>1. ReceiptDigest(x).process_receipt = ReceiptDigest(y).process_receipt
    BY <1>1
  <2> QED  BY <1>2, <2>1 DEF ReceiptDigest
<1>4. /\ DOMAIN x = DOMAIN z /\ DOMAIN y = DOMAIN z
      /\ \A f \in DOMAIN z : f # "receipt_digest" => x[f] = z[f] /\ y[f] = z[f]
  BY <1>2, <1>3
<1> QED  BY <1>1, <1>4

\* One more receipt, and the first ones.
LEMMA AppendedIsRecorded ==
  ASSUME NEW stream, NEW s, NEW k, NEW o \in Observations[s], o.stream = Streams[k],
         RecordedStream(stream, s, k)
  PROVE  RecordedStream(Append(stream, Receipt(s, o, Len(stream) + 1)), s, k)
<1>1. PICK S : stream \in Seq(S)
  BY DEF RecordedStream
<1>2. PICK r : r = Receipt(s, o, Len(stream) + 1)
  OBVIOUS
<1>3. PICK more : more = Append(stream, r)
  OBVIOUS
<1>4. /\ more \in Seq(S \cup {r}) /\ Len(more) = Len(stream) + 1 /\ Len(stream) \in Nat
      /\ DOMAIN more = 1..Len(more) /\ DOMAIN stream = 1..Len(stream)
      /\ \A i \in 1..Len(stream) : more[i] = stream[i]
      /\ more[Len(stream) + 1] = r
  <2>1. stream \in Seq(S \cup {r})
    BY <1>1
  <2> QED  BY <1>3, <2>1
<1>5. ASSUME NEW i \in DOMAIN more
      PROVE  \E p \in Observations[s] : p.stream = Streams[k] /\ more[i] = Receipt(s, p, i)
  <2>1. CASE i = Len(stream) + 1
    BY <1>2, <1>4, <2>1
  <2>2. CASE i # Len(stream) + 1
    <3>1. i \in DOMAIN stream /\ more[i] = stream[i]
      BY <1>4, <2>2
    <3> QED  BY <3>1 DEF RecordedStream
  <2> QED  BY <2>1, <2>2
<1> QED  BY <1>2, <1>3, <1>4, <1>5 DEF RecordedStream

LEMMA PrefixIsRecorded ==
  ASSUME NEW stream, NEW s, NEW k, RecordedStream(stream, s, k), NEW q \in Prefixes(stream)
  PROVE  RecordedStream(q, s, k)
<1>1. PICK S : stream \in Seq(S)
  BY DEF RecordedStream
<1>2. PICK l \in 0..Len(stream) : q = SubSeq(stream, 1, l)
  BY DEF Prefixes
<1>3. /\ q \in Seq(S) /\ Len(q) = l /\ DOMAIN q = 1..l /\ DOMAIN stream = 1..Len(stream)
      /\ \A i \in 1..l : q[i] = stream[i]
  BY <1>1, <1>2
<1>4. DOMAIN q \subseteq DOMAIN stream
  BY <1>1, <1>2, <1>3
<1> QED  BY <1>3, <1>4 DEF RecordedStream

LEMMA EarlierIsRecorded ==
  ASSUME NEW rs, NEW s, RecordedReceipts(rs, s), NEW compiled \in Earlier(rs)
  PROVE  RecordedReceipts(compiled, s)
<1>1. PICK d \in Prefixes(rs.decision_stream), e \in Prefixes(rs.receipt_event_stream),
           t \in Prefixes(rs.transition_stream) : compiled = ReceiptsIn(d, e, t)
  BY DEF Earlier
<1>2. /\ compiled.decision_stream = d /\ compiled.receipt_event_stream = e
      /\ compiled.transition_stream = t
  BY <1>1 DEF ReceiptsIn, NoReceipts
<1>3. /\ DOMAIN Streams = {1, 2, 3} /\ Streams[1] = "decision_stream"
      /\ Streams[2] = "receipt_event_stream" /\ Streams[3] = "transition_stream"
  BY DEF Streams
<1>4. /\ RecordedStream(d, s, 1) /\ RecordedStream(e, s, 2) /\ RecordedStream(t, s, 3)
  BY <1>3, PrefixIsRecorded DEF RecordedReceipts
<1> QED  BY <1>2, <1>3, <1>4 DEF RecordedReceipts

\* Record leaves every stream one of recorded receipts.
LEMMA RecordKeepsRecorded ==
  ASSUME RecordInv, CompiledInv, NEW s \in Sessions, Record(s), NEW u \in Sessions
  PROVE  RecordedReceipts(ledger'[u], u)
<1>1. PICK o \in Observations[s] :
         ledger' = [ledger EXCEPT ![s][o.stream] = Append(@, Receipt(s, o, Len(@) + 1))]
  BY DEF Record
<1>2. ledger[s] = ReceiptsOf(ledger[s]) /\ DOMAIN ledger = Sessions
  BY DEF RecordInv, IssuedInv
<1>3. CASE u # s
  BY <1>1, <1>2, <1>3 DEF CompiledInv
<1>4. CASE u = s
  <2>1. SUFFICES ASSUME NEW k \in DOMAIN Streams
                 PROVE  RecordedStream(ledger'[s][Streams[k]], s, k)
    BY <1>4 DEF RecordedReceipts
  <2>2. PICK name : name = Streams[k]
    OBVIOUS
  <2>3. name \in DOMAIN ledger[s]
    <3>1. Streams[k] \in {"decision_stream", "receipt_event_stream", "transition_stream"}
      BY DEF Streams
    <3> QED  BY <1>2, <2>2, <3>1 DEF ReceiptsOf
  <2>4. PICK stream : stream = ledger[s][name]
    OBVIOUS
  <2>5. RecordedStream(stream, s, k)
    BY <2>2, <2>4 DEF CompiledInv, RecordedReceipts
  <2>6. PICK r : r = Receipt(s, o, Len(ledger[s][o.stream]) + 1)
    OBVIOUS
  <2>7. ledger'[s] = [ledger[s] EXCEPT ![o.stream] = Append(ledger[s][o.stream], r)]
    BY <1>1, <1>2, <2>6
  <2>8. CASE o.stream = name
    <3>1. ledger'[s][name] = Append(stream, Receipt(s, o, Len(stream) + 1))
      BY <2>3, <2>4, <2>6, <2>7, <2>8
    <3> QED  BY <2>2, <2>5, <2>8, <3>1, AppendedIsRecorded
  <2>9. CASE o.stream # name
    BY <2>2, <2>3, <2>4, <2>5, <2>7, <2>9
  <2> QED  BY <2>8, <2>9
<1> QED  BY <1>3, <1>4

\* The receipts that the backend has, that it signs and that a report is
\* compiled of are those of one session, stream by stream from the first one on.
LEMMA CompiledInvariance == Spec => []CompiledInv
<1>1. Init => CompiledInv
  <2> SUFFICES ASSUME Init PROVE CompiledInv
    OBVIOUS
  <2>1. \A s, k : RecordedStream(<<>>, s, k)
    <3>1. <<>> \in Seq(Nat) /\ DOMAIN <<>> = {}
      OBVIOUS
    <3> QED  BY <3>1 DEF RecordedStream
  <2>2. \A s \in Sessions : \A k \in DOMAIN Streams : ledger[s][Streams[k]] = <<>>
    BY DEF Init, NoReceipts, Streams
  <2> QED  BY <2>1, <2>2 DEF Init, CompiledInv, RecordedReceipts
<1>2. RecordInv /\ CompiledInv /\ [Next]_vars => CompiledInv'
  <2> SUFFICES ASSUME RecordInv, CompiledInv, [Next]_vars
               PROVE  CompiledInv'
    OBVIOUS
  <2>1. CASE UNCHANGED <<certificates, ledger, issued>>
    BY <2>1, CertificatesKept DEF CompiledInv
  <2>2. ASSUME NEW s \in Sessions, Record(s)
        PROVE  CompiledInv'
    <3>1. certificates' = certificates /\ issued' = issued
      BY <2>2 DEF Record
    <3>2. \A u \in Sessions : RecordedReceipts(ledger'[u], u)
      BY <2>2, RecordKeepsRecorded
    <3> QED  BY <3>1, <3>2, CertificatesKept DEF CompiledInv
  <2>3. ASSUME NEW ref \in Refs, Issue(ref)
        PROVE  CompiledInv'
    <3>1. PICK s : s = SessionOf(ref)
      OBVIOUS
    <3>2. certificates' = certificates /\ ledger' = ledger
      BY <2>3 DEF Issue
    <3>3. PICK compiled, b :
             /\ compiled \in Earlier(ledger[s])
             /\ b = Bundle(ref, ledger[s], DeriveReport(compiled, Plan[s].project_ref, s),
                           certificates[ref].commitments)
             /\ issued' = issued \cup {[bundle |-> b, compiled |-> compiled]}
      BY <2>3, <3>1 DEF Issue
    <3>4. s \in Sessions
      <4>1. certificates[ref] = Bases[world.bases[ref]] /\ ref \in DOMAIN world.bases
        BY DEF RecordInv, BasesInv, Refs
      <4> QED  BY <3>1, <4>1, WorldsAssumption, BasesAssumption DEF RecordInv, BasesInv, SessionOf
    <3>5. /\ ledger[s] = ReceiptsOf(ledger[s]) /\ RecordedReceipts(ledger[s], s)
          /\ RecordedReceipts(compiled, s)
      BY <3>3, <3>4, EarlierIsRecorded DEF RecordInv, IssuedInv, CompiledInv
    <3>6. ASSUME NEW i \in issued'
          PROVE  \E p \in Refs : \E rs :
                    /\ rs = ReceiptsOf(rs)
                    /\ RecordedReceipts(rs, SessionOf(p))
                    /\ RecordedReceipts(i.compiled, SessionOf(p))
                    /\ i.bundle = Bundle(p, rs, DeriveReport(i.compiled,
                                                             Plan[SessionOf(p)].project_ref,
                                                             SessionOf(p)),
                                         certificates[p].commitments)
      <4>1. CASE i \in issued
        BY <4>1 DEF CompiledInv
      <4>2. CASE i = [bundle |-> b, compiled |-> compiled]
        <5>1. i.bundle = b /\ i.compiled = compiled
          BY <4>2
        <5> QED  BY <3>1, <3>3, <3>5, <5>1
      <4> QED  BY <3>3, <4>1, <4>2
    <3> QED  BY <3>2, <3>6, CertificatesKept DEF CompiledInv
  <2> QED
    BY <2>1, <2>2, <2>3
    DEF Next, Tick, RevokeStatus, Publish, VerifyUnchecked, VerifyChecked, vars, record
<1> QED  BY <1>1, <1>2, RecordInvariance, PTL DEF Spec

\* The places of a recorded stream number its receipts.
LEMMA RecordedIsNumbered ==
  ASSUME NEW rs, NEW s, RecordedReceipts(rs, s)
  PROVE  \A k \in DOMAIN Streams : Numbered(rs[Streams[k]])
<1> SUFFICES ASSUME NEW k \in DOMAIN Streams
             PROVE  Numbered(rs[Streams[k]])
  OBVIOUS
<1>1. RecordedStream(rs[Streams[k]], s, k)
  BY DEF RecordedReceipts
<1>2. \A i \in DOMAIN rs[Streams[k]] : rs[Streams[k]][i].seq = i
  <2> TAKE i \in DOMAIN rs[Streams[k]]
  <2>1. PICK r : r = rs[Streams[k]][i]
    OBVIOUS
  <2>2. PICK o \in Observations[s] : r = Receipt(s, o, i)
    BY <1>1, <2>1 DEF RecordedStream
  <2>3. r.seq = i
    BY <2>2, ReceiptMembers
  <2> QED  BY <2>1, <2>3
<1> QED  BY <1>1, <1>2 DEF RecordedStream, Numbered

\* A step has one last receipt, the selected one, or none.
LEMMA LastIsSelected ==
  ASSUME NEW rs, NEW s, NEW step, RecordedReceipts(rs, s)
  PROVE  LastReceipts(rs, step)
            = IF \A i \in DOMAIN Flattened(rs) : Flattened(rs)[i].step_id # step THEN {}
              ELSE {Selected(Flattened(rs), step)}
<1>1. \A k \in DOMAIN Streams : Numbered(rs[Streams[k]])
  BY RecordedIsNumbered
<1>2. CASE \A i \in DOMAIN Flattened(rs) : Flattened(rs)[i].step_id # step
  BY <1>1, <1>2, NoReceiptIsLast
<1>3. CASE ~ \A i \in DOMAIN Flattened(rs) : Flattened(rs)[i].step_id # step
  <2>1. Selected(Flattened(rs), step) \in LastReceipts(rs, step)
    BY <1>1, <1>3, SelectedIsLast
  <2>2. ASSUME NEW x \in LastReceipts(rs, step), NEW y \in LastReceipts(rs, step)
        PROVE  x = y
    <3> DEFINE Of(k) == {r \in Range(rs[Streams[k]]) : r.step_id = step}
    <3>1. PICK k \in DOMAIN Streams : /\ x \in Of(k) /\ \A z \in Of(k) : z.seq <= x.seq
                                      /\ \A j \in DOMAIN Streams : j > k => Of(j) = {}
      BY DEF LastReceipts
    <3>2. PICK l \in DOMAIN Streams : /\ y \in Of(l) /\ \A z \in Of(l) : z.seq <= y.seq
                                      /\ \A j \in DOMAIN Streams : j > l => Of(j) = {}
      BY DEF LastReceipts
    <3>3. k \in {1, 2, 3} /\ l \in {1, 2, 3}
      BY DEF Streams
    <3>4. k = l
      <4> HIDE DEF Of
      <4> QED  BY <3>1, <3>2, <3>3
    <3>5. x.seq <= y.seq /\ y.seq <= x.seq
      BY <3>1, <3>2, <3>4
    <3>6. PICK stream : stream = rs[Streams[k]]
      OBVIOUS
    <3>7. PICK i \in DOMAIN stream, j \in DOMAIN stream : x = stream[i] /\ y = stream[j]
      BY <3>1, <3>2, <3>4, <3>6 DEF Range
    <3>8. x.seq = i /\ y.seq = j /\ i \in Nat /\ j \in Nat
      BY <1>1, <3>6, <3>7 DEF Numbered
    <3> QED  BY <3>5, <3>7, <3>8
  <2> HIDE DEF Selected
  <2> QED  BY <1>3, <2>1, <2>2
<1> QED  BY <1>2, <1>3

\* The last receipts are recorded ones.
LEMMA LastIsRecorded ==
  ASSUME NEW rs, NEW s, NEW step, RecordedReceipts(rs, s), NEW r \in LastReceipts(rs, step)
  PROVE  \E o, n : r = Receipt(s, o, n)
<1>1. PICK k \in DOMAIN Streams : r \in Range(rs[Streams[k]])
  BY DEF LastReceipts
<1>2. PICK i \in DOMAIN rs[Streams[k]] : r = rs[Streams[k]][i]
  BY <1>1 DEF Range
<1> QED  BY <1>2 DEF RecordedReceipts, RecordedStream

\* The row of a step tells its last receipt.
LEMMA RowTellsLast ==
  ASSUME NEW s, NEW x, NEW y, NEW step, RecordedReceipts(x, s), RecordedReceipts(y, s)
  PROVE  ReportRow(Flattened(x), step) = ReportRow(Flattened(y), step)
            <=> LastReceipts(x, step) = LastReceipts(y, step)
<1> DEFINE None(all) == \A i \in DOMAIN all : all[i].step_id # step
           Row(r) == [step_id |-> step, status |-> "present",
                      observation_kind |-> r.observation_basis,
                      receipt_digest |-> r.receipt_digest,
                      registered_values |-> r.registered_values]
<1>1. PICK a, b : a = Flattened(x) /\ b = Flattened(y)
  OBVIOUS
<1>2. PICK p, q : p = Selected(a, step) /\ q = Selected(b, step)
  OBVIOUS
<1>3. /\ LastReceipts(x, step) = (IF None(a) THEN {} ELSE {p})
      /\ LastReceipts(y, step) = (IF None(b) THEN {} ELSE {q})
  BY <1>1, <1>2, LastIsSelected
<1>4. ASSUME NEW all
      PROVE  /\ None(all) => ReportRow(all, step).status = "missing"
             /\ ~None(all) => ReportRow(all, step) = Row(Selected(all, step))
  BY DEF ReportRow
<1>5. CASE None(a) /\ None(b)
  <2>1. ReportRow(a, step) = ReportRow(b, step)
    BY <1>5 DEF ReportRow
  <2> QED  BY <1>1, <1>3, <1>5, <2>1
<1>6. CASE None(a) /\ ~None(b)
  <2>1. ReportRow(a, step).status # ReportRow(b, step).status
    BY <1>4, <1>6
  <2> QED  BY <1>1, <1>3, <1>6, <2>1
<1>7. CASE ~None(a) /\ None(b)
  <2>1. ReportRow(a, step).status # ReportRow(b, step).status
    BY <1>4, <1>7
  <2> QED  BY <1>1, <1>3, <1>7, <2>1
<1>8. CASE ~None(a) /\ ~None(b)
  <2>1. ReportRow(a, step) = Row(p) /\ ReportRow(b, step) = Row(q)
    BY <1>2, <1>4, <1>8
  <2>2. (\E o, n : p = Receipt(s, o, n)) /\ (\E o, n : q = Receipt(s, o, n))
    BY <1>3, <1>8, LastIsRecorded
  <2>3. Row(p) = Row(q) => p = q
    <3>1. Row(p) = Row(q) => p.receipt_digest = q.receipt_digest
      OBVIOUS
    <3> QED  BY <2>2, <3>1, ReceiptOfDigest
  <2>4. p = q <=> LastReceipts(x, step) = LastReceipts(y, step)
    BY <1>3, <1>8
  <2> QED  BY <1>1, <2>1, <2>3, <2>4
<1> QED  BY <1>5, <1>6, <1>7, <1>8

\* Two derived reports are equal exactly when every step has the same last
\* receipt.
LEMMA ReportTellsLast ==
  ASSUME NEW s, NEW project, NEW x, NEW y, RecordedReceipts(x, s), RecordedReceipts(y, s)
  PROVE  DeriveReport(x, project, s) = DeriveReport(y, project, s)
            <=> \A step \in Range(ExpectedSteps) : LastReceipts(x, step) = LastReceipts(y, step)
<1> DEFINE Rows(rs) == [i \in DOMAIN ExpectedSteps |-> ReportRow(Flattened(rs), ExpectedSteps[i])]
<1>1. \A rs : DeriveReport(rs, project, s).rows = Rows(rs)
  BY DEF DeriveReport
<1>2. Rows(x) = Rows(y) => DeriveReport(x, project, s) = DeriveReport(y, project, s)
  BY DEF DeriveReport
<1>3. Rows(x) = Rows(y)
         <=> \A i \in DOMAIN ExpectedSteps :
                ReportRow(Flattened(x), ExpectedSteps[i]) = ReportRow(Flattened(y), ExpectedSteps[i])
  OBVIOUS
<1>4. \A i \in DOMAIN ExpectedSteps :
         ReportRow(Flattened(x), ExpectedSteps[i]) = ReportRow(Flattened(y), ExpectedSteps[i])
            <=> LastReceipts(x, ExpectedSteps[i]) = LastReceipts(y, ExpectedSteps[i])
  BY RowTellsLast
<1>5. (\A step \in Range(ExpectedSteps) : LastReceipts(x, step) = LastReceipts(y, step))
         <=> \A i \in DOMAIN ExpectedSteps :
                LastReceipts(x, ExpectedSteps[i]) = LastReceipts(y, ExpectedSteps[i])
  BY DEF Range
<1> HIDE DEF Rows
<1> QED  BY <1>1, <1>2, <1>3, <1>4, <1>5

\* A recorded stream passes every check but, when it is too long, the limit.
LEMMA RecordedStreamPasses ==
  ASSUME NEW rs, NEW s, NEW project, NEW k \in DOMAIN Streams, RecordedReceipts(rs, s),
         project = Plan[s].project_ref
  PROVE  CheckStream(rs, k, project, s) = OK <=> Len(rs[Streams[k]]) <= MAX_STREAM_ITEMS
<1> DEFINE stream == rs[Streams[k]]
           earlier == UNION {Range(rs[Streams[j]]) : j \in 1..(k - 1)}
           Check(i) ==
              LET r == stream[i]
                  seen == earlier \cup {stream[j] : j \in 1..(i - 1)}
              IN  Require(r.stream_id = Streams[k], "RECEIPT_STREAM_MISMATCH")
                  && Require(r.project_ref = project /\ r.build_session_ref = s,
                             "SCOPE_MISMATCH")
                  && Require(SeqGrows(rs, k, i), "RECEIPT_ORDER")
                  && Require(\A x \in seen : /\ x.receipt_ref # r.receipt_ref
                                             /\ x.receipt_digest # r.receipt_digest,
                             "RECEIPT_DUPLICATE")
                  && Require(ReceiptDigest(r) = r.receipt_digest, "RECEIPT_DIGEST_MISMATCH")
           outcomes == [i \in DOMAIN stream |-> Check(i)]
<1>1. CheckStream(rs, k, project, s)
         = (Require(Len(stream) <= MAX_STREAM_ITEMS, "RECEIPT_LIMIT_EXCEEDED") && ForEach(outcomes))
  BY DEF CheckStream
<1>2. k \in {1, 2, 3} /\ DOMAIN Streams = {1, 2, 3} /\ \A j \in 1..(k - 1) : j \in {1, 2, 3} /\ j # k
  BY DEF Streams
<1>3. \A j \in DOMAIN Streams : RecordedStream(rs[Streams[j]], s, j)
  BY DEF RecordedReceipts
<1>4. PICK S : stream \in Seq(S)
  BY <1>3 DEF RecordedStream
<1>5. \A i \in DOMAIN stream : stream[i].seq = i
  BY RecordedIsNumbered DEF Numbered
<1>6. ASSUME NEW i \in DOMAIN stream
      PROVE  Check(i) = OK
  <2>1. PICK r : r = stream[i]
    OBVIOUS
  <2>2. PICK o \in Observations[s] : o.stream = Streams[k] /\ r = Receipt(s, o, i)
    BY <1>3, <2>1 DEF RecordedStream
  <2>3. /\ r.receipt_ref = <<s, Streams[k], i>> /\ r.stream_id = Streams[k]
        /\ r.project_ref = project /\ r.build_session_ref = s
        /\ r.receipt_digest = ReceiptDigest(r)
    BY <2>2, ReceiptMembers
  <2>4. i \in Nat \ {0} /\ \A j \in 1..(i - 1) : j \in DOMAIN stream /\ j # i
    BY <1>4
  <2>5. SeqGrows(rs, k, i)
    <3>1. i > 1 => i - 1 \in DOMAIN stream
      BY <1>4, <2>4
    <3> QED  BY <1>5, <2>4, <3>1 DEF SeqGrows
  <2>6. ASSUME NEW x \in earlier \cup {stream[j] : j \in 1..(i - 1)}
        PROVE  x.receipt_ref # r.receipt_ref /\ x.receipt_digest # r.receipt_digest
    <3>0. PICK j \in DOMAIN Streams : \E n \in DOMAIN rs[Streams[j]] :
             x = rs[Streams[j]][n] /\ <<j, n>> # <<k, i>>
      <4>1. CASE x \in earlier
        <5>1. PICK j \in 1..(k - 1) : x \in Range(rs[Streams[j]])
          BY <4>1
        <5>2. PICK n \in DOMAIN rs[Streams[j]] : x = rs[Streams[j]][n]
          BY <5>1 DEF Range
        <5> QED  BY <1>2, <5>2
      <4>2. CASE x \in {stream[j] : j \in 1..(i - 1)}
        BY <2>4, <4>2
      <4> QED  BY <4>1, <4>2
    <3>1. PICK n \in DOMAIN rs[Streams[j]] : x = rs[Streams[j]][n] /\ <<j, n>> # <<k, i>>
      BY <3>0
    <3>2. PICK p \in Observations[s] : p.stream = Streams[j] /\ x = Receipt(s, p, n)
      BY <1>3, <3>1 DEF RecordedStream
    <3>3. x.receipt_ref = <<s, Streams[j], n>>
      BY <3>2, ReceiptMembers
    <3>4. Streams[j] = Streams[k] => j = k
      BY DEF Streams
    <3>5. x.receipt_ref # r.receipt_ref
      BY <2>3, <3>1, <3>3, <3>4
    <3>6. x.receipt_digest = r.receipt_digest => x = r
      BY <2>2, <3>2, ReceiptOfDigest
    <3> QED  BY <3>5, <3>6
  <2> HIDE DEF stream, earlier
  <2> QED  BY <2>1, <2>3, <2>5, <2>6 DEF &&, Require
<1>7. ForEach(outcomes) = OK
  <2>1. \A i \in DOMAIN outcomes : outcomes[i] = OK
    BY <1>6
  <2> HIDE DEF outcomes
  <2> QED  BY <2>1, AllPass
<1>8. Require(Len(stream) <= MAX_STREAM_ITEMS, "RECEIPT_LIMIT_EXCEEDED") = OK
         <=> Len(stream) <= MAX_STREAM_ITEMS
  BY DEF Require, OK
<1> HIDE DEF outcomes
<1> QED  BY <1>1, <1>7, <1>8, BothPass

\* A loop over three elements passes exactly when each of them does.
LEMMA ThreePass ==
  ASSUME NEW outcomes, DOMAIN outcomes = {1, 2, 3}
  PROVE  ForEach(outcomes) = OK <=> \A i \in {1, 2, 3} : outcomes[i] = OK
<1>1. CASE \A i \in {1, 2, 3} : outcomes[i] = OK
  BY <1>1, AllPass
<1>2. CASE ~ \A i \in {1, 2, 3} : outcomes[i] = OK
  <2>1. \E i \in {1, 2, 3} : /\ outcomes[i] # OK
                             /\ \A j \in {1, 2, 3} : j < i => outcomes[j] = OK
    <3>1. CASE outcomes[1] # OK
      BY <3>1
    <3>2. CASE outcomes[1] = OK /\ outcomes[2] # OK
      BY <3>2
    <3>3. CASE outcomes[1] = OK /\ outcomes[2] = OK
      BY <1>2, <3>3
    <3> QED  BY <3>1, <3>2, <3>3
  <2>2. PICK i : i = CHOOSE n \in DOMAIN outcomes :
                        outcomes[n] # OK /\ \A j \in DOMAIN outcomes : j < n => outcomes[j] = OK
    OBVIOUS
  <2>3. outcomes[i] # OK
    BY <2>1, <2>2
  <2>4. ForEach(outcomes) = outcomes[i]
    BY <1>2, <2>2 DEF ForEach
  <2> QED  BY <1>2, <2>3, <2>4
<1> QED  BY <1>1, <1>2

\* Recorded receipts pass exactly when they are within the limits.
LEMMA RecordedReceiptsPass ==
  ASSUME NEW rs, NEW s, NEW project, RecordedReceipts(rs, s), project = Plan[s].project_ref
  PROVE  CheckReceipts(rs, project, s) = OK
            <=> /\ \A k \in DOMAIN Streams : Len(rs[Streams[k]]) <= MAX_STREAM_ITEMS
                /\ Len(Flattened(rs)) <= MAX_TOTAL_RECEIPTS
<1> DEFINE outcomes == [k \in DOMAIN Streams |-> CheckStream(rs, k, project, s)]
<1>1. DOMAIN outcomes = {1, 2, 3} /\ DOMAIN Streams = {1, 2, 3}
  BY DEF Streams
<1>2. \A k \in {1, 2, 3} : outcomes[k] = OK <=> Len(rs[Streams[k]]) <= MAX_STREAM_ITEMS
  BY <1>1, RecordedStreamPasses
<1>3. CheckReceipts(rs, project, s)
         = (ForEach(outcomes)
            && Require(Len(Flattened(rs)) <= MAX_TOTAL_RECEIPTS, "RECEIPT_LIMIT_EXCEEDED"))
  BY DEF CheckReceipts
<1>4. Require(Len(Flattened(rs)) <= MAX_TOTAL_RECEIPTS, "RECEIPT_LIMIT_EXCEEDED") = OK
         <=> Len(Flattened(rs)) <= MAX_TOTAL_RECEIPTS
  BY DEF Require, OK
<1> HIDE DEF outcomes
<1>5. ForEach(outcomes) = OK <=> \A k \in {1, 2, 3} : outcomes[k] = OK
  BY <1>1, ThreePass
<1> QED  BY <1>1, <1>2, <1>3, <1>4, <1>5, BothPass

\* Sealing adds the digest of the receipts, which takes nothing away.
LEMMA SealedReceipts ==
  ASSUME NEW rs, NEW sealed, rs = ReceiptsOf(rs), sealed = Sealed(rs)
  PROVE  /\ sealed = ReceiptsOf(sealed)
         /\ sealed.receipt_bundle_digest = ReceiptBundleDigest(sealed)
         /\ \A s : RecordedReceipts(rs, s) => RecordedReceipts(sealed, s)
<1>1. /\ sealed.decision_stream = rs.decision_stream
      /\ sealed.receipt_event_stream = rs.receipt_event_stream
      /\ sealed.transition_stream = rs.transition_stream
      /\ sealed = ReceiptsOf(sealed)
  BY DEF ReceiptsOf, Sealed
<1>2. \A k \in DOMAIN Streams : sealed[Streams[k]] = rs[Streams[k]]
  BY <1>1 DEF Streams
<1>3. sealed.receipt_bundle_digest = ReceiptBundleDigest(sealed)
  BY DEF ReceiptsOf, ReceiptBundleDigest, Sealed
<1> QED  BY <1>1, <1>2, <1>3 DEF RecordedReceipts

LEMMA AssertionMembers ==
  /\ Assertion = AssertionOf(Assertion) /\ Assertion.capture_policy = CapturePolicy
  /\ AssertionDigest(Assertion) = Assertion.assertion_digest
<1>1. PICK open : open = [capture_policy |-> CapturePolicy,
                          rendered_text |-> "process_record_correctness_v1",
                          assertion_digest |-> ABSENT]
  OBVIOUS
<1>2. PICK digest : digest = AssertionDigest(open)
  OBVIOUS
<1>3. PICK a : a = [open EXCEPT !.assertion_digest = digest]
  OBVIOUS
<1>4. [a EXCEPT !.assertion_digest = ABSENT] = open
  <2>1. PICK policy, text : policy = CapturePolicy /\ text = "process_record_correctness_v1"
    OBVIOUS
  <2>2. open = [capture_policy |-> policy, rendered_text |-> text, assertion_digest |-> ABSENT]
    BY <1>1, <2>1
  <2>3. a = [capture_policy |-> policy, rendered_text |-> text, assertion_digest |-> digest]
    BY <1>3, <2>2
  <2> QED  BY <2>2, <2>3
<1>5. AssertionDigest(a) = digest /\ a.assertion_digest = digest
  BY <1>1, <1>2, <1>3, <1>4 DEF AssertionDigest
<1>6. a = AssertionOf(a) /\ a.capture_policy = CapturePolicy
  BY <1>1, <1>3 DEF AssertionOf
<1>7. a = Assertion
  BY <1>1, <1>2, <1>3 DEF Assertion
<1> QED  BY <1>5, <1>6, <1>7

LEMMA BundleSupport ==
  ASSUME NEW ref, NEW rs, NEW report, NEW commitments
  PROVE  Bundle(ref, rs, report, commitments).claim_support_rows
            = <<SupportRow(Sealed(rs), report, Assertion)>>
  BY DEF Bundle

\* A bundle has the shape of the schema.
LEMMA BundleIsClosed ==
  ASSUME NEW ref, NEW rs, NEW report, NEW commitments, NEW b, rs = ReceiptsOf(rs),
         b = Bundle(ref, rs, report, commitments)
  PROVE  ProcessSchemaValid(b)
<1>1. /\ b = BundleOf(b) /\ b.receipts = Sealed(rs) /\ b.assertion = Assertion
      /\ b.signature = [issuer_key_ref |-> "ikr", trust_ring_ref |-> RingOf(ref),
                        algorithm |-> IssuerKey.algorithm,
                        unsigned_manifest_digest |-> UnsignedDigest(b.unsigned_manifest),
                        signature |-> Signature(IssuerKey, ProcessMaterial(b.unsigned_manifest),
                                                "canonical")]
  BY BundleFacts
<1>2. b.signature = ProcessSignatureOf(b.signature)
  BY <1>1 DEF ProcessSignatureOf
<1>3. b.receipts = ReceiptsOf(b.receipts)
  BY <1>1, SealedReceipts
<1>4. b.claim_support_rows = <<b.claim_support_rows[1]>>
  BY BundleSupport
<1> QED  BY <1>1, <1>2, <1>3, <1>4, AssertionMembers DEF ProcessSchemaValid

\* Its base verifies, with the materials published for it.
LEMMA BundleBaseVerifies ==
  ASSUME BasesInv, NEW ref \in Refs, NEW rs, NEW report, NEW commitments, NEW b, NEW ctx,
         NEW declared, NEW time, b = Bundle(ref, rs, report, commitments),
         ctx = RecordContext(ref, declared, FALSE, time)
  PROVE  VerifyBase(b, ctx) = OK
<1>1. PICK s, nonce, c : s = SessionOf(ref) /\ nonce = certificates[ref].nonce
                         /\ c = certificates[ref].certificate
  OBVIOUS
<1>2. certificates[ref] = Bases[world.bases[ref]] /\ world.bases[ref] \in DOMAIN Bases
  BY WorldsAssumption DEF BasesInv, Refs
<1>3. /\ s \in Sessions
      /\ RequiresClient(c.claims) => c.co_attestation # ABSENT
      /\ \E printed \in ClaimLists : c = Finalized(s, nonce, printed)
  BY <1>1, <1>2, BasesAssumption DEF SessionOf
<1>4. PICK client, materials : /\ client = RequiresClient(c.claims)
                               /\ materials = Materials(ref, s, client)
  OBVIOUS
<1>5. HasClient(ref) = client /\ BaseMaterials[ref] = materials
  BY <1>1, <1>4 DEF HasClient, BaseMaterials
<1>6. /\ ctx.expected_materials_digest = materials.materials_digest
      /\ ctx.certificate_ref = ref
      /\ ctx.base_context = [Context(s, nonce, client) EXCEPT !.client_public_key = ABSENT]
  BY <1>1, <1>5 DEF RecordContext
<1>7. b.base_certificate_v0 = c /\ b.verification_materials_v0 = materials
  <2>1. /\ b.base_certificate_v0 = certificates[ref].certificate
        /\ b.verification_materials_v0 = BaseMaterials[ref]
    BY BundleMembers
  <2> QED  BY <1>1, <1>5, <2>1
<1>8. PICK ctx0, bare : /\ ctx0 = [Context(s, nonce, client) EXCEPT !.client_public_key = ABSENT]
                        /\ bare = [wrapped |-> FALSE, signed_certificate |-> c]
  OBVIOUS
<1>9. VerifyWithMaterials(bare, materials, materials.materials_digest, ref, ctx0, FALSE) = OK
  <2>1. PICK printed \in ClaimLists : c = Finalized(s, nonce, printed)
    BY <1>3
  <2>2. RequiresClient(c.claims) => c.co_attestation # ABSENT
    BY <1>3
  <2>3. client = RequiresClient(c.claims) /\ materials = Materials(ref, s, client)
    BY <1>4
  <2>4. s \in Sessions
    BY <1>3
  <2>5. bare = [wrapped |-> FALSE, signed_certificate |-> c]
    BY <1>8
  <2>6. ctx0 = [Context(s, nonce, client) EXCEPT !.client_public_key = ABSENT]
    BY <1>8, Zenon
  <2>7. Retrievable(c, s, nonce, printed, client, ref, materials, ctx0)
    BY <2>1, <2>2, <2>3, <2>4, <2>6 DEF Retrievable
  <2> QED  BY ONLY <2>5, <2>7, FinalizedVerifiesWithMaterials
<1> QED  BY <1>6, <1>7, <1>8, <1>9 DEF VerifyBase, Translate

\* Its signature verifies under the issuer key of those materials.
LEMMA BundleIsSigned ==
  ASSUME NEW ref \in Refs, NEW rs, NEW report, NEW commitments, NEW b,
         b = Bundle(ref, rs, report, commitments)
  PROVE  CheckProcessSignature(b) = OK
<1>1. PICK issuer, sig, unsigned : /\ issuer = b.verification_materials_v0.issuer
                                   /\ sig = b.signature /\ unsigned = b.unsigned_manifest
  OBVIOUS
<1>2. /\ b.verification_materials_v0 = BaseMaterials[ref]
      /\ sig = [issuer_key_ref |-> "ikr", trust_ring_ref |-> RingOf(ref),
                algorithm |-> IssuerKey.algorithm,
                unsigned_manifest_digest |-> UnsignedDigest(unsigned),
                signature |-> Signature(IssuerKey, ProcessMaterial(unsigned), "canonical")]
  BY <1>1, BundleFacts
<1>3. /\ issuer.key_ref = "ikr" /\ issuer.trust_ring_ref = RingOf(ref)
      /\ issuer.algorithm = IssuerKey.algorithm /\ issuer.public_key = IssuerKey
  BY <1>1, <1>2 DEF BaseMaterials, Materials, RingOf
<1>4. VerifySignature(IssuerKey, IssuerKey.algorithm, ProcessMaterial(unsigned),
                      Signature(IssuerKey, ProcessMaterial(unsigned), "canonical")) = OK
  BY KeysAssumption DEF VerifySignature, Signature, &&, Require
<1> QED  BY <1>1, <1>2, <1>3, <1>4 DEF CheckProcessSignature, Translate, &&, Require

\* b is signed for base ref and session s with the receipts rs, and ctx is what
\* a relying party pins that has no trust anchor.
SignedFor(b, ref, s, project, rs, report, ctx, time) ==
    /\ ref \in Refs /\ s = SessionOf(ref) /\ project = Plan[s].project_ref
    /\ rs = ReceiptsOf(rs)
    /\ b = Bundle(ref, rs, report, certificates[ref].commitments)
    /\ ctx = RecordContext(ref, b.unsigned_manifest.commitments, FALSE, time)

\* Its members agree, except that its receipts may be beyond the limits, and
\* its report of other receipts than its own.
LEMMA BundleRecordPasses ==
  ASSUME BasesInv, NEW ref, NEW rs, NEW report, NEW b, NEW ctx, NEW time, NEW s, NEW project,
         SignedFor(b, ref, s, project, rs, report, ctx, time)
  PROVE  CheckRecord(b, ctx) = OK <=> /\ CheckReceipts(b.receipts, project, s) = OK
                                      /\ report = DeriveReport(b.receipts, project, s)
<1>0. /\ ref \in Refs /\ s = SessionOf(ref) /\ project = Plan[s].project_ref
      /\ rs = ReceiptsOf(rs)
      /\ b = Bundle(ref, rs, report, certificates[ref].commitments)
      /\ ctx = RecordContext(ref, b.unsigned_manifest.commitments, FALSE, time)
  BY DEF SignedFor
<1> USE <1>0
<1>1. PICK c, commitments :
         /\ c = certificates[ref].certificate /\ commitments = certificates[ref].commitments
  OBVIOUS
<1>2. PICK derived : derived = DeriveReport(b.receipts, project, s)
  OBVIOUS
<1>3. /\ b.base_certificate_v0 = c /\ b.receipts = Sealed(rs) /\ b.report = report
      /\ b.assertion = Assertion
      /\ b.unsigned_manifest = ExpectedUnsigned(b, report, project, s, commitments)
  <2>1. /\ b.base_certificate_v0 = certificates[ref].certificate
        /\ b.receipts = Sealed(rs) /\ b.report = report /\ b.assertion = Assertion
    BY BundleMembers
  <2>2. b.unsigned_manifest = ExpectedUnsigned(b, report, Plan[SessionOf(ref)].project_ref,
                                               SessionOf(ref), certificates[ref].commitments)
    BY BundleUnsigned
  <2> QED  BY <1>1, <2>1, <2>2
<1>4. PICK unsigned : unsigned = b.unsigned_manifest
  OBVIOUS
<1>5. /\ unsigned.base_unsigned_manifest_digest = c.manifest_digest
      /\ unsigned.commitments = commitments /\ unsigned.streams = Indexes(b.receipts)
  BY <1>3, <1>4 DEF ExpectedUnsigned
<1>6. /\ ctx.expected_project_ref = project /\ ctx.expected_build_session_ref = s
      /\ ctx.expected_commitments = commitments
  BY <1>1, <1>4, <1>5 DEF RecordContext
<1>7. c.subject.project_ref = project /\ c.subject.build_session_ref = s
  <2>1. PICK printed : c = Finalized(s, certificates[ref].nonce, printed)
    BY <1>1, BaseFacts
  <2> QED  BY <1>1, <2>1, FinalizedFacts, FinalizedRing
<1>8. b.receipts.receipt_bundle_digest = ReceiptBundleDigest(b.receipts)
  BY <1>3, SealedReceipts
<1>9. CheckAssertion(b.assertion) = OK
  BY <1>3, AssertionMembers DEF CheckAssertion, &&, Require
<1>10. b.claim_support_rows[1] = SupportRow(b.receipts, report, b.assertion)
  BY <1>3, BundleSupport
<1>11. b.claim_support_rows[1].evidence_basis = "issuer_verified"
  BY <1>10 DEF SupportRow
<1>12. CheckRecord(b, ctx)
          = (Require(c.subject.project_ref = project /\ c.subject.build_session_ref = s,
                     "SCOPE_MISMATCH")
             && Require(unsigned.base_unsigned_manifest_digest = c.manifest_digest,
                        "BASE_MANIFEST_DIGEST_MISMATCH")
             && CheckReceipts(b.receipts, project, s)
             && Require(unsigned.streams = Indexes(b.receipts), "STREAM_INDEX_MISMATCH")
             && Require(report = derived, "REPORT_MISMATCH")
             && CheckAssertion(b.assertion)
             && Require(b.receipts.receipt_bundle_digest = ReceiptBundleDigest(b.receipts),
                        "RECEIPT_BUNDLE_DIGEST_MISMATCH")
             && CheckSupportRow(b.claim_support_rows[1], b.receipts, derived, b.assertion)
             && Require(unsigned.commitments = commitments, "COMMITMENT_REF_MISMATCH")
             && Require(unsigned = ExpectedUnsigned(b, derived, project, s, commitments),
                        "UNSIGNED_MANIFEST_MISMATCH"))
  BY <1>2, <1>3, <1>4, <1>6 DEF CheckRecord
<1>13. ASSUME report = derived
       PROVE  /\ CheckSupportRow(b.claim_support_rows[1], b.receipts, derived, b.assertion) = OK
              /\ unsigned = ExpectedUnsigned(b, derived, project, s, commitments)
  BY <1>3, <1>4, <1>10, <1>11, <1>13 DEF CheckSupportRow, &&, Require
<1>14. Require(report = derived, "REPORT_MISMATCH") = OK <=> report = derived
  BY DEF Require, OK
<1>15. CheckRecord(b, ctx) = OK
          <=> CheckReceipts(b.receipts, project, s) = OK /\ report = derived
  <2>1. PICK c1, c2, c3, c4, c5, c6, c7, c8, c9, c10 :
           /\ c1 = Require(c.subject.project_ref = project /\ c.subject.build_session_ref = s,
                           "SCOPE_MISMATCH")
           /\ c2 = Require(unsigned.base_unsigned_manifest_digest = c.manifest_digest,
                           "BASE_MANIFEST_DIGEST_MISMATCH")
           /\ c3 = CheckReceipts(b.receipts, project, s)
           /\ c4 = Require(unsigned.streams = Indexes(b.receipts), "STREAM_INDEX_MISMATCH")
           /\ c5 = Require(report = derived, "REPORT_MISMATCH")
           /\ c6 = CheckAssertion(b.assertion)
           /\ c7 = Require(b.receipts.receipt_bundle_digest = ReceiptBundleDigest(b.receipts),
                           "RECEIPT_BUNDLE_DIGEST_MISMATCH")
           /\ c8 = CheckSupportRow(b.claim_support_rows[1], b.receipts, derived, b.assertion)
           /\ c9 = Require(unsigned.commitments = commitments, "COMMITMENT_REF_MISMATCH")
           /\ c10 = Require(unsigned = ExpectedUnsigned(b, derived, project, s, commitments),
                            "UNSIGNED_MANIFEST_MISMATCH")
    OBVIOUS
  <2>2. c1 = OK /\ c2 = OK /\ c4 = OK /\ c6 = OK /\ c7 = OK /\ c9 = OK
    BY <1>5, <1>7, <1>8, <1>9, <2>1 DEF Require
  <2>3. report = derived => c8 = OK /\ c10 = OK
    BY <1>13, <2>1 DEF Require
  <2>4. CheckRecord(b, ctx) = (c1 && c2 && c3 && c4 && c5 && c6 && c7 && c8 && c9 && c10)
    BY <1>12, <2>1, Zenon
  <2>5. CheckRecord(b, ctx) = OK
          <=> /\ c1 = OK /\ c2 = OK /\ c3 = OK /\ c4 = OK /\ c5 = OK
              /\ c6 = OK /\ c7 = OK /\ c8 = OK /\ c9 = OK /\ c10 = OK
    BY <2>4 DEF &&
  <2> QED  BY <1>14, <2>1, <2>2, <2>3, <2>5
<1> QED  BY <1>2, <1>15

\* A bundle verifies without a status exactly when its receipts are within the
\* limits and the report it was signed with is of the same last receipts.
LEMMA IssuedVerifies ==
  ASSUME RecordInv, CompiledInv, NEW i \in issued, NEW ref, NEW b, NEW ctx, NEW time,
         b = i.bundle, ref = b.verification_materials_v0.certificate_ref,
         ctx = RecordContext(ref, b.unsigned_manifest.commitments, FALSE, time)
  PROVE  VerifyProcessRecord(b, ctx, ABSENT) = OK
            <=> /\ \A k \in DOMAIN Streams : Len(b.receipts[Streams[k]]) <= MAX_STREAM_ITEMS
                /\ Len(Flattened(b.receipts)) <= MAX_TOTAL_RECEIPTS
                /\ \A step \in Range(ExpectedSteps) :
                      LastReceipts(i.compiled, step) = LastReceipts(b.receipts, step)
<1>0. BasesInv
  BY DEF RecordInv
<1>1. PICK p \in Refs : \E rs :
         /\ rs = ReceiptsOf(rs) /\ RecordedReceipts(rs, SessionOf(p))
         /\ RecordedReceipts(i.compiled, SessionOf(p))
         /\ b = Bundle(p, rs, DeriveReport(i.compiled, Plan[SessionOf(p)].project_ref,
                                           SessionOf(p)),
                       certificates[p].commitments)
  BY DEF CompiledInv
<1>2. PICK rs, report, s, project :
         /\ s = SessionOf(p) /\ project = Plan[s].project_ref
         /\ rs = ReceiptsOf(rs) /\ RecordedReceipts(rs, s) /\ RecordedReceipts(i.compiled, s)
         /\ report = DeriveReport(i.compiled, project, s)
         /\ b = Bundle(p, rs, report, certificates[p].commitments)
  BY <1>1
<1>3. /\ b.receipts = Sealed(rs) /\ b.verification_materials_v0 = BaseMaterials[p]
      /\ b.integers = [member \in IntegerMembers |-> "int"]
  BY <1>2, BundleMembers
<1>4. p = ref
  <2>1. BaseMaterials[p].certificate_ref = p
    BY DEF BaseMaterials, Materials
  <2> QED  BY <1>3, <2>1
<1>5. ctx.trust_anchor = ABSENT /\ ctx.allow_unchecked_base_status = TRUE
  BY DEF RecordContext
<1>6. ProcessSchemaValid(b) /\ CheckProcessSignature(b) = OK
  BY <1>2, BundleIsClosed, BundleIsSigned
<1>a. ref \in Refs
  BY <1>4
<1>b. b = Bundle(ref, rs, report, certificates[ref].commitments)
  BY <1>2, <1>4, Zenon
<1>c. s = SessionOf(ref)
  BY <1>2, <1>4, Zenon
<1>7. VerifyBase(b, ctx) = OK
  <2>1. PICK declared, commitments : /\ declared = b.unsigned_manifest.commitments
                                     /\ commitments = certificates[ref].commitments
    OBVIOUS
  <2>2. b = Bundle(ref, rs, report, commitments)
    BY <1>b, <2>1, Zenon
  <2>3. ctx = RecordContext(ref, declared, FALSE, time)
    BY <2>1
  <2> QED  BY ONLY <1>0, <1>a, <2>2, <2>3, BundleBaseVerifies, Zenon
<1>8. CheckStrictIntegers(b) = OK /\ CheckStatus(b, ctx, ABSENT) = OK
  <2>1. \A member \in WalkedMembers : b.integers[member] = "int"
    BY <1>3 DEF IntegerMembers
  <2>2. CheckStrictIntegers(b) = OK
    BY <2>1 DEF CheckStrictIntegers, Require
  <2> QED  BY <1>5, <2>2 DEF CheckStatus
<1>9. VerifyProcessRecord(b, ctx, ABSENT) = OK <=> CheckRecord(b, ctx) = OK
  <2>1. PICK r1, r2, r3 :
           /\ r1 = Require((ctx.trust_anchor = ABSENT) = ctx.allow_unchecked_base_status, "CONTEXT")
           /\ r2 = Require(ctx.allow_unchecked_base_status => ABSENT = ABSENT, "CONTEXT")
           /\ r3 = Require(ProcessSchemaValid(b), "SCHEMA")
    OBVIOUS
  <2>2. r1 = OK /\ r2 = OK /\ r3 = OK
    BY <1>5, <1>6, <2>1 DEF Require
  <2>3. VerifyProcessRecord(b, ctx, ABSENT)
          = (r1 && r2 && r3 && CheckStrictIntegers(b) && VerifyBase(b, ctx) && CheckRecord(b, ctx)
             && CheckProcessSignature(b) && CheckStatus(b, ctx, ABSENT))
    BY <2>1 DEF VerifyProcessRecord
  <2> QED  BY <1>6, <1>7, <1>8, <2>2, <2>3 DEF &&
<1>10. CheckRecord(b, ctx) = OK <=> /\ CheckReceipts(b.receipts, project, s) = OK
                                    /\ report = DeriveReport(b.receipts, project, s)
  <2>1. rs = ReceiptsOf(rs)
    BY <1>2
  <2>2. ctx = RecordContext(ref, b.unsigned_manifest.commitments, FALSE, time)
    OBVIOUS
  <2>3. project = Plan[s].project_ref
    BY <1>2
  <2>4. SignedFor(b, ref, s, project, rs, report, ctx, time)
    BY ONLY <1>a, <1>b, <1>c, <2>1, <2>2, <2>3 DEF SignedFor
  <2> QED  BY ONLY <1>0, <2>4, BundleRecordPasses
<1>11. RecordedReceipts(b.receipts, s)
  BY <1>2, <1>3, SealedReceipts
<1>12. CheckReceipts(b.receipts, project, s) = OK
          <=> /\ \A k \in DOMAIN Streams : Len(b.receipts[Streams[k]]) <= MAX_STREAM_ITEMS
              /\ Len(Flattened(b.receipts)) <= MAX_TOTAL_RECEIPTS
  BY <1>2, <1>11, RecordedReceiptsPass
<1>13. report = DeriveReport(b.receipts, project, s)
          <=> \A step \in Range(ExpectedSteps) :
                 LastReceipts(i.compiled, step) = LastReceipts(b.receipts, step)
  BY <1>2, <1>11, ReportTellsLast
<1> QED  BY <1>9, <1>10, <1>12, <1>13

\* A record is good exactly when it should be, for every session, plan and
\* limit and however long a report waited: every record that the backend signs
\* passes verify_process_record_certificate, unless its receipts are beyond the
\* limits or a receipt came in meanwhile that is the last of its step.
THEOREM IssuedVerify == Spec => []IssuedRecordVerifies
<1>1. RecordInv /\ CompiledInv => IssuedRecordVerifies
  BY IssuedVerifies DEF IssuedRecordVerifies
<1> QED  BY <1>1, RecordInvariance, CompiledInvariance, PTL
=============================================================================
