------------------------ MODULE DatasetRecordProofs ------------------------
(***************************************************************************)
(* For any worlds, times and arriving bundles: the dataset record verifier *)
(* implements the register of issued records, and the plan of an accepted  *)
(* record is older than the results its process record shows.              *)
(***************************************************************************)
EXTENDS DatasetRecordProtocol, FiniteSetTheorems, SequenceTheorems, WellFoundedInduction, TLAPS

\* A document and the digest of the rest of it.
Carries(domain, doc, field) == HasMember(doc, field) /\ doc[field] = OwnDigest(domain, doc, field)

\* Everything in a bundle that the manifest determines, as it does.
BoundToManifest(b) ==
    LET unsigned == b.unsigned_manifest
        plan == b.preregistration_envelope.preregistration
        attestation == b.leaf_generation_attestation
    IN  /\ ClosedDocuments(b) /\ b.integers = "int"
        /\ Carries("composition", b.composition, "composition_digest")
        /\ unsigned.composition_digest = b.composition.composition_digest
        /\ Carries("leakage_report", b.leakage_report, "leakage_report_digest")
        /\ unsigned.leakage_report_digest = b.leakage_report.leakage_report_digest
        /\ Carries("limitations", b.limitations, "limitations_digest")
        /\ unsigned.limitations_digest = b.limitations.limitations_digest
        /\ Carries("efficiency_report", b.efficiency_report, "efficiency_report_digest")
        /\ unsigned.efficiency_report_digest = b.efficiency_report.efficiency_report_digest
        /\ Carries("prereg", plan, "prereg_digest")
        /\ unsigned.prereg_digest = plan.prereg_digest
        /\ unsigned.prereg_signature_digest
               = RoleDigest("prereg_signature", b.preregistration_envelope.signature)
        /\ attestation # ABSENT =>
              Carries("leaf_generation_attestation", attestation, "attestation_digest")
        /\ unsigned.leaf_generation_attestation_digest = AttestationDigest(attestation)
        /\ unsigned.claim_support_rows_digest = RoleDigest("claim_support_rows", b.claim_support_rows)
        /\ b.signature.issuer_key_ref = unsigned.issuer_key_ref
        /\ b.signature.trust_ring_ref = unsigned.trust_ring_ref
        /\ b.signature.algorithm = unsigned.issuer_signature_algorithm
        /\ b.signature.unsigned_manifest_digest = ManifestDigest(unsigned)

\* A process record over these receipts, under its pins.
FiledProcess(s, receipts) ==
    LET pins == [project_ref |-> Build(s).project_ref, build_session_ref |-> s,
                 commitments |-> Build(s).commitment]
    IN  [pins |-> pins,
         record |-> [unsigned_manifest |-> [project_ref |-> pins.project_ref, build_session_ref |-> s,
                                            commitments |-> pins.commitments,
                                            receipts |-> RoleDigest("receipts", receipts)],
                     receipts |-> receipts, issuer |-> Issuer]]

\* The issuer signs only what it has: a plan of some tick until now, a process
\* record over the receipts it holds, a bundle over both and over an account of
\* the session.
DatasetInv ==
    /\ world \in Worlds /\ clock \in 0..world.max_time
    /\ \A e \in plans : \E design \in world.designs, tick \in 0..clock : e = PlanEnvelope(design, tick)
    /\ \A p \in processes : p = FiledProcess(p.pins.build_session_ref, p.record.receipts)
    /\ \A i \in issued :
          /\ i.session \in Sessions /\ i.account \in world.accounts[i.session]
          /\ \E e \in plans, p \in processes :
                /\ i.process = p.record
                /\ i.bundle = Bundle(i.session, p.record, e, i.account)
-----------------------------------------------------------------------------
(* What the checks establish *)

\* Two statements pass when both do.
LEMMA BothPass == \A a, b : ((a && b) = OK) <=> (a = OK /\ b = OK)
  BY DEF &&

\* What a signature that verifies is of.
LEMMA SignatureMaterial ==
  ASSUME NEW key, NEW algorithm, NEW material, NEW sig,
         V0!VerifySignature(key, algorithm, material, sig) = OK
  PROVE  sig.key = key /\ sig.material = material
  BY DEF V0!VerifySignature, V0!&&, V0!Require, OK, V0!OK

\* Equal digests of two documents, without the member that carries it.
LEMMA WithoutDetermines ==
  ASSUME NEW field, NEW doc, NEW other, HasMember(doc, field), HasMember(other, field),
         Without(doc, field) = Without(other, field), doc[field] = other[field]
  PROVE  doc = other
<1>1. DOMAIN Without(doc, field) = DOMAIN doc \ {field}
  BY DEF Without
<1>2. DOMAIN Without(other, field) = DOMAIN other \ {field}
  BY DEF Without
<1>3. DOMAIN doc = DOMAIN other
  BY <1>1, <1>2 DEF HasMember
<1>4. \A f \in DOMAIN doc \ {field} : Without(doc, field)[f] = doc[f]
  BY DEF Without
<1>5. \A f \in DOMAIN other \ {field} : Without(other, field)[f] = other[f]
  BY DEF Without
<1>6. \A f \in DOMAIN doc : doc[f] = other[f]
  BY <1>3, <1>4, <1>5
<1>7. /\ doc = [f \in DOMAIN doc |-> doc[f]]
      /\ other = [f \in DOMAIN other |-> other[f]]
  BY DEF HasMember
<1> QED  BY <1>3, <1>6, <1>7

\* A document that carries its own digest is determined by it.
LEMMA CarriedDetermines ==
  ASSUME NEW domain, NEW field, NEW doc, NEW other,
         Carries(domain, doc, field), Carries(domain, other, field), doc[field] = other[field]
  PROVE  doc = other
<1>1. Without(doc, field) = Without(other, field)
  BY DEF Carries, OwnDigest, RoleDigest
<1> QED  BY <1>1, WithoutDetermines DEF Carries

\* The issuer closes a document with its digest.
LEMMA ClosedCarries ==
  ASSUME NEW domain, NEW field, NEW open, HasMember(open, field)
  PROVE  /\ Carries(domain, Closed(domain, open, field), field)
         /\ Closed(domain, open, field)[field] = OwnDigest(domain, open, field)
<1> DEFINE digest == OwnDigest(domain, open, field)
           doc == Closed(domain, open, field)
<1>1. doc = [f \in DOMAIN open |-> IF f = field THEN digest ELSE open[f]]
  BY DEF Closed, HasMember
<1> HIDE DEF digest, doc
<1>2. HasMember(doc, field) /\ doc[field] = digest
  BY <1>1 DEF HasMember
<1>3. Without(doc, field) = Without(open, field)
  BY <1>1 DEF Without
<1>4. OwnDigest(domain, doc, field) = digest
  BY <1>3 DEF digest, OwnDigest
<1> QED  BY <1>2, <1>4 DEF Carries, digest, doc

\* The statements of verify_dataset_record_certificate that bind one document
\* to another.
LEMMA VerifiedStages ==
  ASSUME NEW b, NEW ctx, NEW process, NEW lists, NEW filed,
         VerifyDatasetRecord(b, ctx, process, lists, filed) = OK
  PROVE  /\ ClosedDocuments(b) /\ b.integers = "int"
         /\ [pins |-> ProcessPins(ctx), record |-> process] \in filed
         /\ CheckBindings(b, ctx, process, lists) = OK
         /\ CheckClaims(b, ctx, lists) = OK
         /\ CheckLimitationsDigest(b.unsigned_manifest, b.limitations) = OK
         /\ CheckPlan(b, ctx, process) = OK
         /\ CheckEfficiency(b) = OK
         /\ CheckSupportRows(b.unsigned_manifest, b.claim_support_rows, ClaimBases(b, ctx, lists)) = OK
         /\ CheckManifestSignature(b.unsigned_manifest, b.signature, process.issuer) = OK
<1>1. /\ Require(DatasetSchemaValid(b), "SCHEMA") = OK /\ CheckDatasetIntegers(b) = OK
      /\ VerifyProcess(process, ctx, filed) = OK
      /\ CheckBindings(b, ctx, process, lists) = OK
      /\ CheckClaims(b, ctx, lists) = OK
      /\ CheckLimitationsDigest(b.unsigned_manifest, b.limitations) = OK
      /\ CheckPlan(b, ctx, process) = OK
      /\ CheckEfficiency(b) = OK
      /\ CheckSupportRows(b.unsigned_manifest, b.claim_support_rows, ClaimBases(b, ctx, lists)) = OK
      /\ CheckManifestSignature(b.unsigned_manifest, b.signature, process.issuer) = OK
  BY BothPass DEF VerifyDatasetRecord
<1>2. ClosedDocuments(b)
  BY <1>1 DEF Require, OK, DatasetSchemaValid
<1>3. b.integers = "int"
  BY <1>1 DEF CheckDatasetIntegers, Require, OK
<1>4. [pins |-> ProcessPins(ctx), record |-> process] \in filed
  BY <1>1 DEF VerifyProcess, Require, OK
<1> QED  BY <1>1, <1>2, <1>3, <1>4

\* The manifest of a bundle that verifies has the digest of each document.
LEMMA DigestsOfParts ==
  ASSUME NEW b, NEW ctx, NEW process, NEW lists,
         CheckClaims(b, ctx, lists) = OK,
         CheckLimitationsDigest(b.unsigned_manifest, b.limitations) = OK,
         CheckPlan(b, ctx, process) = OK, CheckEfficiency(b) = OK
  PROVE  LET unsigned == b.unsigned_manifest
             plan == b.preregistration_envelope.preregistration
         IN  /\ OwnDigest("composition", b.composition, "composition_digest")
                    = b.composition.composition_digest
             /\ OwnDigest("composition", b.composition, "composition_digest")
                    = unsigned.composition_digest
             /\ OwnDigest("leakage_report", b.leakage_report, "leakage_report_digest")
                    = b.leakage_report.leakage_report_digest
             /\ OwnDigest("leakage_report", b.leakage_report, "leakage_report_digest")
                    = unsigned.leakage_report_digest
             /\ OwnDigest("limitations", b.limitations, "limitations_digest")
                    = b.limitations.limitations_digest
             /\ OwnDigest("limitations", b.limitations, "limitations_digest")
                    = unsigned.limitations_digest
             /\ OwnDigest("efficiency_report", b.efficiency_report, "efficiency_report_digest")
                    = b.efficiency_report.efficiency_report_digest
             /\ OwnDigest("efficiency_report", b.efficiency_report, "efficiency_report_digest")
                    = unsigned.efficiency_report_digest
             /\ OwnDigest("prereg", plan, "prereg_digest") = plan.prereg_digest
             /\ OwnDigest("prereg", plan, "prereg_digest") = unsigned.prereg_digest
<1> DEFINE unsigned == b.unsigned_manifest
           plan == b.preregistration_envelope.preregistration
<1>1. /\ CheckCompositionDigest(unsigned, b.composition) = OK
      /\ CheckLeakageDigest(unsigned, b.leakage_report) = OK
  BY BothPass DEF CheckClaims, CheckComposition, CheckLeakageReport, CheckCorpora
<1>2. CheckPreregDigest(unsigned, plan) = OK
  BY BothPass DEF CheckPlan
<1>3. CheckEfficiencyDigest(unsigned, b.efficiency_report) = OK
  BY BothPass DEF CheckEfficiency
<1> HIDE DEF unsigned, plan
<1>4. /\ OwnDigest("composition", b.composition, "composition_digest")
             = b.composition.composition_digest
      /\ OwnDigest("composition", b.composition, "composition_digest") = unsigned.composition_digest
  BY <1>1 DEF CheckCompositionDigest, CheckOwnDigest, &&, Require, OK
<1>5. /\ OwnDigest("leakage_report", b.leakage_report, "leakage_report_digest")
             = b.leakage_report.leakage_report_digest
      /\ OwnDigest("leakage_report", b.leakage_report, "leakage_report_digest")
             = unsigned.leakage_report_digest
  BY <1>1 DEF CheckLeakageDigest, CheckOwnDigest, &&, Require, OK
<1>6. /\ OwnDigest("limitations", b.limitations, "limitations_digest")
             = b.limitations.limitations_digest
      /\ OwnDigest("limitations", b.limitations, "limitations_digest") = unsigned.limitations_digest
  BY DEF CheckLimitationsDigest, CheckOwnDigest, &&, Require, OK, unsigned
<1>7. /\ OwnDigest("efficiency_report", b.efficiency_report, "efficiency_report_digest")
             = b.efficiency_report.efficiency_report_digest
      /\ OwnDigest("efficiency_report", b.efficiency_report, "efficiency_report_digest")
             = unsigned.efficiency_report_digest
  BY <1>3 DEF CheckEfficiencyDigest, CheckOwnDigest, &&, Require, OK
<1>8. /\ OwnDigest("prereg", plan, "prereg_digest") = plan.prereg_digest
      /\ OwnDigest("prereg", plan, "prereg_digest") = unsigned.prereg_digest
  BY <1>2 DEF CheckPreregDigest, CheckOwnDigest, &&, Require, OK
<1> QED  BY <1>4, <1>5, <1>6, <1>7, <1>8 DEF unsigned, plan

\* CheckSupportRows, CheckPreregSignature, CheckManifestSignature and
\* CheckAttestation: the other digests of the manifest.
LEMMA OtherDigests ==
  ASSUME NEW b, NEW ctx, NEW process, NEW lists,
         CheckClaims(b, ctx, lists) = OK, CheckPlan(b, ctx, process) = OK,
         CheckSupportRows(b.unsigned_manifest, b.claim_support_rows, ClaimBases(b, ctx, lists)) = OK,
         CheckManifestSignature(b.unsigned_manifest, b.signature, process.issuer) = OK
  PROVE  LET unsigned == b.unsigned_manifest
             attestation == b.leaf_generation_attestation
             digest == OwnDigest("leaf_generation_attestation", attestation, "attestation_digest")
             sig == b.signature
         IN  /\ unsigned.claim_support_rows_digest
                    = RoleDigest("claim_support_rows", b.claim_support_rows)
             /\ unsigned.prereg_signature_digest
                    = RoleDigest("prereg_signature", b.preregistration_envelope.signature)
             /\ attestation = ABSENT => unsigned.leaf_generation_attestation_digest = ABSENT
             /\ attestation # ABSENT => /\ attestation.attestation_digest = digest
                                        /\ unsigned.leaf_generation_attestation_digest = digest
             /\ sig.unsigned_manifest_digest = ManifestDigest(unsigned)
             /\ sig.algorithm = unsigned.issuer_signature_algorithm
             /\ sig.issuer_key_ref = unsigned.issuer_key_ref
             /\ sig.trust_ring_ref = unsigned.trust_ring_ref
             /\ V0!VerifySignature(process.issuer.public_key, sig.algorithm,
                                   DatasetMaterial(unsigned), sig.signature) = OK
<1> DEFINE unsigned == b.unsigned_manifest
           attestation == b.leaf_generation_attestation
           digest == OwnDigest("leaf_generation_attestation", attestation, "attestation_digest")
           sig == b.signature
           envelope == b.preregistration_envelope
           issuer == process.issuer
           identity == unsigned.identity
           report == b.leakage_report
<1>1. CheckAttestation(unsigned, identity, report, attestation, lists) = OK
  BY BothPass DEF CheckClaims, CheckComposition, CheckLeakageReport, CheckCorpora
<1>2. CheckPreregSignature(unsigned, envelope, issuer) = OK
  BY BothPass DEF CheckPlan
<1>3. CheckManifestSignature(unsigned, sig, issuer) = OK
  OBVIOUS
<1>4. unsigned.claim_support_rows_digest = RoleDigest("claim_support_rows", b.claim_support_rows)
  BY DEF CheckSupportRows, &&, Require, OK
<1> HIDE DEF unsigned, attestation, digest, sig, envelope, issuer, identity, report
<1>5. unsigned.prereg_signature_digest = RoleDigest("prereg_signature", envelope.signature)
  BY <1>2 DEF CheckPreregSignature, &&, Require, OK
<1>6. attestation = ABSENT => unsigned.leaf_generation_attestation_digest = ABSENT
  BY <1>1 DEF CheckAttestation, &&, Require, OK
<1>7. attestation # ABSENT => /\ attestation.attestation_digest = digest
                             /\ unsigned.leaf_generation_attestation_digest = digest
  <2>1. attestation # ABSENT => CheckAttestationBindings(unsigned, report, attestation) = OK
    BY <1>1 DEF CheckAttestation, &&, Require, OK
  <2> QED  BY <2>1 DEF CheckAttestationBindings, &&, Require, OK, digest
<1>8. /\ sig.unsigned_manifest_digest = ManifestDigest(unsigned)
      /\ sig.algorithm = unsigned.issuer_signature_algorithm
      /\ sig.issuer_key_ref = unsigned.issuer_key_ref
      /\ sig.trust_ring_ref = unsigned.trust_ring_ref
  BY <1>3 DEF CheckManifestSignature, &&, Require, OK
<1>9. V0!VerifySignature(issuer.public_key, sig.algorithm, DatasetMaterial(unsigned),
                         sig.signature) = OK
  BY <1>3 DEF CheckManifestSignature, &&, Require, Translate, OK
<1> QED
  BY <1>4, <1>5, <1>6, <1>7, <1>8, <1>9
     DEF unsigned, attestation, digest, sig, envelope, issuer

\* A bundle that verifies is what its manifest says, and its signature is of
\* the manifest.
LEMMA VerifiedBound ==
  ASSUME NEW b, NEW ctx, NEW process, NEW lists, NEW filed,
         VerifyDatasetRecord(b, ctx, process, lists, filed) = OK
  PROVE  /\ BoundToManifest(b)
         /\ b.signature.signature.key = process.issuer.public_key
         /\ b.signature.signature.material = DatasetMaterial(b.unsigned_manifest)
<1>1. /\ ClosedDocuments(b) /\ b.integers = "int"
      /\ CheckClaims(b, ctx, lists) = OK
      /\ CheckLimitationsDigest(b.unsigned_manifest, b.limitations) = OK
      /\ CheckPlan(b, ctx, process) = OK
      /\ CheckEfficiency(b) = OK
      /\ CheckSupportRows(b.unsigned_manifest, b.claim_support_rows, ClaimBases(b, ctx, lists)) = OK
      /\ CheckManifestSignature(b.unsigned_manifest, b.signature, process.issuer) = OK
  BY VerifiedStages
<1> DEFINE unsigned == b.unsigned_manifest
           attestation == b.leaf_generation_attestation
           digest == OwnDigest("leaf_generation_attestation", attestation, "attestation_digest")
           sig == b.signature
           plan == b.preregistration_envelope.preregistration
           key == process.issuer.public_key
           algorithm == sig.algorithm
           material == DatasetMaterial(unsigned)
           signature == sig.signature
<1>2. /\ unsigned.claim_support_rows_digest = RoleDigest("claim_support_rows", b.claim_support_rows)
      /\ unsigned.prereg_signature_digest
             = RoleDigest("prereg_signature", b.preregistration_envelope.signature)
      /\ attestation = ABSENT => unsigned.leaf_generation_attestation_digest = ABSENT
      /\ attestation # ABSENT => /\ attestation.attestation_digest = digest
                                 /\ unsigned.leaf_generation_attestation_digest = digest
      /\ sig.unsigned_manifest_digest = ManifestDigest(unsigned)
      /\ sig.algorithm = unsigned.issuer_signature_algorithm
      /\ sig.issuer_key_ref = unsigned.issuer_key_ref
      /\ sig.trust_ring_ref = unsigned.trust_ring_ref
      /\ V0!VerifySignature(key, algorithm, material, signature) = OK
  BY <1>1, OtherDigests
<1>3. /\ OwnDigest("composition", b.composition, "composition_digest")
             = b.composition.composition_digest
      /\ OwnDigest("composition", b.composition, "composition_digest") = unsigned.composition_digest
      /\ OwnDigest("leakage_report", b.leakage_report, "leakage_report_digest")
             = b.leakage_report.leakage_report_digest
      /\ OwnDigest("leakage_report", b.leakage_report, "leakage_report_digest")
             = unsigned.leakage_report_digest
      /\ OwnDigest("limitations", b.limitations, "limitations_digest")
             = b.limitations.limitations_digest
      /\ OwnDigest("limitations", b.limitations, "limitations_digest") = unsigned.limitations_digest
      /\ OwnDigest("efficiency_report", b.efficiency_report, "efficiency_report_digest")
             = b.efficiency_report.efficiency_report_digest
      /\ OwnDigest("efficiency_report", b.efficiency_report, "efficiency_report_digest")
             = unsigned.efficiency_report_digest
      /\ OwnDigest("prereg", plan, "prereg_digest") = plan.prereg_digest
      /\ OwnDigest("prereg", plan, "prereg_digest") = unsigned.prereg_digest
  BY <1>1, DigestsOfParts
<1>4. BoundToManifest(b)
  BY <1>1, <1>2, <1>3 DEF BoundToManifest, ClosedDocuments, Carries, AttestationDigest
<1> HIDE DEF key, algorithm, material, signature
<1>5. signature.key = key /\ signature.material = material
  BY <1>2, SignatureMaterial
<1> QED  BY <1>4, <1>5 DEF key, material, signature

\* Bundles under one manifest and one signature are equal.
LEMMA ManifestDeterminesBundle ==
  ASSUME NEW b, NEW d, BoundToManifest(b), BoundToManifest(d),
         b.unsigned_manifest = d.unsigned_manifest,
         b.signature.signature = d.signature.signature
  PROVE  b = d
<1>1. b.composition = d.composition
  <2> DEFINE x == b.composition  y == d.composition
  <2>1. /\ Carries("composition", x, "composition_digest")
        /\ Carries("composition", y, "composition_digest")
        /\ x["composition_digest"] = y["composition_digest"]
    BY DEF BoundToManifest
  <2> HIDE DEF x, y
  <2>2. x = y
    BY <2>1, CarriedDetermines
  <2> QED  BY <2>2 DEF x, y
<1>2. b.leakage_report = d.leakage_report
  <2> DEFINE x == b.leakage_report  y == d.leakage_report
  <2>1. /\ Carries("leakage_report", x, "leakage_report_digest")
        /\ Carries("leakage_report", y, "leakage_report_digest")
        /\ x["leakage_report_digest"] = y["leakage_report_digest"]
    BY DEF BoundToManifest
  <2> HIDE DEF x, y
  <2>2. x = y
    BY <2>1, CarriedDetermines
  <2> QED  BY <2>2 DEF x, y
<1>3. b.limitations = d.limitations
  <2> DEFINE x == b.limitations  y == d.limitations
  <2>1. /\ Carries("limitations", x, "limitations_digest")
        /\ Carries("limitations", y, "limitations_digest")
        /\ x["limitations_digest"] = y["limitations_digest"]
    BY DEF BoundToManifest
  <2> HIDE DEF x, y
  <2>2. x = y
    BY <2>1, CarriedDetermines
  <2> QED  BY <2>2 DEF x, y
<1>4. b.efficiency_report = d.efficiency_report
  <2> DEFINE x == b.efficiency_report  y == d.efficiency_report
  <2>1. /\ Carries("efficiency_report", x, "efficiency_report_digest")
        /\ Carries("efficiency_report", y, "efficiency_report_digest")
        /\ x["efficiency_report_digest"] = y["efficiency_report_digest"]
    BY DEF BoundToManifest
  <2> HIDE DEF x, y
  <2>2. x = y
    BY <2>1, CarriedDetermines
  <2> QED  BY <2>2 DEF x, y
<1>5. b.preregistration_envelope = d.preregistration_envelope
  <2> DEFINE x == b.preregistration_envelope.preregistration
             y == d.preregistration_envelope.preregistration
  <2>1. /\ Carries("prereg", x, "prereg_digest")
        /\ Carries("prereg", y, "prereg_digest")
        /\ x["prereg_digest"] = y["prereg_digest"]
    BY DEF BoundToManifest
  <2>2. b.preregistration_envelope.signature = d.preregistration_envelope.signature
    BY DEF BoundToManifest, RoleDigest
  <2> HIDE DEF x, y
  <2>3. x = y
    BY <2>1, CarriedDetermines
  <2> QED  BY <2>2, <2>3 DEF x, y, BoundToManifest, ClosedDocuments, PreregEnvelopeOf
<1>6. b.leaf_generation_attestation = d.leaf_generation_attestation
  <2> DEFINE x == b.leaf_generation_attestation  y == d.leaf_generation_attestation
  <2>1. /\ x # ABSENT => /\ Carries("leaf_generation_attestation", x, "attestation_digest")
                         /\ x["attestation_digest"] # ABSENT
        /\ y # ABSENT => /\ Carries("leaf_generation_attestation", y, "attestation_digest")
                         /\ y["attestation_digest"] # ABSENT
        /\ AttestationDigest(x) = AttestationDigest(y)
    BY DEF BoundToManifest, ClosedDocuments
  <2> HIDE DEF x, y
  <2>2. (x = ABSENT) = (y = ABSENT) /\ (x # ABSENT => x["attestation_digest"] = y["attestation_digest"])
    BY <2>1 DEF AttestationDigest
  <2>3. x = y
    BY <2>1, <2>2, CarriedDetermines
  <2> QED  BY <2>3 DEF x, y
<1>7. b.claim_support_rows = d.claim_support_rows /\ b.integers = d.integers
  BY DEF BoundToManifest, RoleDigest
<1>8. b.signature = d.signature
  <2>1. /\ b.signature = DatasetSignatureOf(b.signature)
        /\ d.signature = DatasetSignatureOf(d.signature)
    BY DEF BoundToManifest, ClosedDocuments
  <2>2. /\ b.signature.issuer_key_ref = d.signature.issuer_key_ref
        /\ b.signature.trust_ring_ref = d.signature.trust_ring_ref
        /\ b.signature.algorithm = d.signature.algorithm
        /\ b.signature.unsigned_manifest_digest = d.signature.unsigned_manifest_digest
    BY DEF BoundToManifest
  <2> QED  BY <2>1, <2>2 DEF DatasetSignatureOf
<1>9. b = BundleOf(b) /\ d = BundleOf(d)
  BY DEF BoundToManifest, ClosedDocuments
<1> QED  BY <1>1, <1>2, <1>3, <1>4, <1>5, <1>6, <1>7, <1>8, <1>9 DEF BundleOf
-----------------------------------------------------------------------------
(* What the issuer signs *)

\* Each document that the issuer closes.
LEMMA LimitationsCarries ==
  ASSUME NEW account
  PROVE  Carries("limitations", Limitations(account), "limitations_digest")
<1> DEFINE Entry(code) == [limitation_code |-> code,
                           observation_basis |-> IF code \in DerivableLimitations
                                                 THEN "backend_observed" ELSE "client_attested"]
           entries == [i \in DOMAIN account.limitations |-> Entry(account.limitations[i])]
           open == [limitations |-> entries, limitations_digest |-> ABSENT]
<1>1. Limitations(account) = Closed("limitations", open, "limitations_digest")
  BY DEF Limitations
<1> HIDE DEF entries
<1>2. HasMember(open, "limitations_digest")
  BY DEF HasMember
<1> HIDE DEF open
<1> QED  BY <1>1, <1>2, ClosedCarries

LEMMA AttestationCarries ==
  ASSUME NEW s, NEW account, account.attested # <<>>
  PROVE  LET attestation == Attestation(s, account)
         IN  /\ Carries("leaf_generation_attestation", attestation, "attestation_digest")
             /\ attestation.attestation_digest = OpenAttestationDigest(Build(s), account.attested)
<1> DEFINE open == OpenAttestation(Build(s), account.attested)
<1>1. Attestation(s, account) = Closed("leaf_generation_attestation", open, "attestation_digest")
  BY DEF Attestation
<1>2. HasMember(open, "attestation_digest")
  BY DEF HasMember, OpenAttestation
<1> HIDE DEF open
<1> QED  BY <1>1, <1>2, ClosedCarries DEF open, OpenAttestationDigest

LEMMA CompositionCarries ==
  ASSUME NEW s, NEW account
  PROVE  Carries("composition", Composition(s, account), "composition_digest")
<1> DEFINE Cell(key) == [category_id |-> key[1], difficulty_stratum |-> key[2],
                         item_count |-> Cardinality(InCell(account.items, key)),
                         cell_leaf_root |-> CellRoot(account.items, key)]
           keys == SetToSeq({CellKey(x) : x \in Range(account.items)})
           open == [taxonomy |-> Taxonomy, cells |-> [i \in DOMAIN keys |-> Cell(keys[i])],
                    populated_cell_count |-> Len(keys), composition_digest |-> ABSENT]
<1>1. Composition(s, account) = Closed("composition", open, "composition_digest")
  BY DEF Composition
<1>2. HasMember(open, "composition_digest")
  BY DEF HasMember
<1> HIDE DEF open
<1> QED  BY <1>1, <1>2, ClosedCarries

LEMMA LeakageCarries ==
  ASSUME NEW s, NEW account, NEW attestation
  PROVE  Carries("leakage_report", LeakageReport(s, account, attestation), "leakage_report_digest")
<1> DEFINE Finding(f) == [finding_kind |-> f.kind, corpus_a_ref |-> CorpusRef(s, f.pair[1]),
                          corpus_b_ref |-> CorpusRef(s, f.pair[2]), overlap_count |-> f.count,
                          disjointness_asserted |-> f.asserted, near_duplicate |-> f.near_duplicate,
                          observation_basis |-> IF f.kind \in TierC THEN "client_attested"
                                                ELSE "backend_observed"]
           Descriptor(n) == [corpus_ref |-> CorpusRef(s, n), leaf_count |-> Len(Build(s).corpora[n]),
                             leaf_list_digest |-> LeafListDigest(Build(s).corpora[n])]
           names == SetToSeq(DOMAIN Build(s).corpora)
           findings == [i \in DOMAIN account.findings |-> Finding(account.findings[i])]
           descriptors == [i \in DOMAIN names |-> Descriptor(names[i])]
           open == [method_registry |-> MethodRegistry, leakage_scope_ref |-> Scope(s),
                    findings |-> findings, leaf_list_digests |-> descriptors,
                    leaf_generation_attestation_digest |-> AttestationDigest(attestation),
                    leakage_report_digest |-> ABSENT]
<1>1. LeakageReport(s, account, attestation) = Closed("leakage_report", open, "leakage_report_digest")
  BY DEF LeakageReport
<1> HIDE DEF findings, descriptors
<1>2. HasMember(open, "leakage_report_digest")
  BY DEF HasMember
<1> HIDE DEF open
<1> QED  BY <1>1, <1>2, ClosedCarries

LEMMA EfficiencyCarries ==
  ASSUME NEW s, NEW plan, NEW account
  PROVE  Carries("efficiency_report", Efficiency(s, plan, account), "efficiency_report_digest")
<1> DEFINE Ratio(r) == [full |-> r[2], decisive |-> r[1], ppm |-> Ppm(r[1], r[2])]
           mean == [estimator_kind |-> "point_estimate", quantity_kind |-> "mean", lo |-> 0,
                    point |-> 1, hi |-> 2, interval |-> plan.interval,
                    bootstrap |-> plan.policy.bootstrap, sample_size_n |-> account.sample,
                    effective_sample_size_n |-> account.sample]
           bound == [estimator_kind |-> "upper_bound", quantity_kind |-> "count",
                     lo |-> account.decisive, point |-> account.decisive, hi |-> account.decisive,
                     interval |-> [method |-> "none", level_ppm |-> 0], bootstrap |-> ABSENT,
                     sample_size_n |-> account.sample, effective_sample_size_n |-> account.sample]
           inert == Ppm(account.inert, Len(Build(s).items))
           cost == Ratio(account.cost)
           latency == Ratio(account.latency)
           open == [prereg_digest |-> plan.prereg_digest, candidates |-> plan.candidates,
                    applied_policy |-> plan.policy, information |-> plan.information,
                    uninformative_item_count |-> 0, inert_item_count |-> account.inert,
                    inert_fraction_ppm |-> inert, mean_item_information |-> mean,
                    decisive_subset_upper_bound |-> bound, cost |-> cost, latency |-> latency,
                    efficiency_report_digest |-> ABSENT]
<1>1. Efficiency(s, plan, account) = Closed("efficiency_report", open, "efficiency_report_digest")
  BY DEF Efficiency
<1> HIDE DEF mean, bound, inert, cost, latency
<1>2. HasMember(open, "efficiency_report_digest")
  BY DEF HasMember
<1> HIDE DEF open
<1> QED  BY <1>1, <1>2, ClosedCarries

\* A plan that the issuer registered, and when.
LEMMA PlanFacts ==
  ASSUME NEW design, NEW tick
  PROVE  LET envelope == PlanEnvelope(design, tick)
             plan == envelope.preregistration
         IN  /\ envelope = PreregEnvelopeOf(envelope)
             /\ Carries("prereg", plan, "prereg_digest")
             /\ plan.registered_at = Rendered[tick]
<1> DEFINE open == [evidence_grade |-> design.evidence_grade, registered_at |-> Rendered[tick],
                    candidates |-> "candidates", policy |-> design.policy,
                    interval |-> design.interval, near_duplicate |-> design.near_duplicate,
                    information |-> design.information, coverage |-> PreregCoverage,
                    prereg_digest |-> ABSENT]
           plan == Closed("prereg", open, "prereg_digest")
           envelope == PlanEnvelope(design, tick)
<1>1. envelope.preregistration = plan /\ envelope = PreregEnvelopeOf(envelope)
  BY DEF PlanEnvelope, PreregEnvelopeOf
<1>2. HasMember(open, "prereg_digest")
  BY DEF HasMember
<1>3. plan.registered_at = Rendered[tick]
  BY DEF Closed
<1> HIDE DEF open
<1>4. Carries("prereg", plan, "prereg_digest")
  BY <1>2, ClosedCarries
<1> QED  BY <1>1, <1>3, <1>4

\* A bundle that the issuer signs is what its manifest says, and says of which
\* build, process record and plan it is.
LEMMA BundleFacts ==
  ASSUME NEW s, NEW process, NEW envelope, NEW account,
         envelope = PreregEnvelopeOf(envelope),
         Carries("prereg", envelope.preregistration, "prereg_digest"),
         OpenAttestationDigest(Build(s), account.attested) # ABSENT
  PROVE  LET d == Bundle(s, process, envelope, account)
             unsigned == d.unsigned_manifest
         IN  /\ BoundToManifest(d)
             /\ d.preregistration_envelope = envelope
             /\ d.signature.signature.material = DatasetMaterial(unsigned)
             /\ unsigned.scope_binding_digest = ScopeBindingDigest(Build(s).project_ref, s)
             /\ unsigned.process_unsigned_manifest_digest = ProcessManifestDigest(process)
             /\ unsigned.dataset_commitment_ref = Build(s).commitment
             /\ unsigned.identity = Identity(s)
<1> DEFINE plan == envelope.preregistration
           identity == Identity(s)
           composition == Composition(s, account)
           attestation == Attestation(s, account)
           leakage == LeakageReport(s, account, attestation)
           limitations == Limitations(account)
           efficiency == Efficiency(s, plan, account)
           scope_binding == ScopeBindingDigest(Build(s).project_ref, s)
           process_digest == ProcessManifestDigest(process)
           commitment == Build(s).commitment
           attestation_digest == AttestationDigest(attestation)
           signature_digest == RoleDigest("prereg_signature", envelope.signature)
           open == [identity |-> identity, scope_binding_digest |-> scope_binding,
                    process_unsigned_manifest_digest |-> process_digest,
                    dataset_commitment_ref |-> commitment, taxonomy |-> Taxonomy,
                    method_registry |-> MethodRegistry,
                    composition_digest |-> composition.composition_digest,
                    leakage_report_digest |-> leakage.leakage_report_digest,
                    leaf_generation_attestation_digest |-> attestation_digest,
                    efficiency_report_digest |-> efficiency.efficiency_report_digest,
                    limitations_digest |-> limitations.limitations_digest,
                    prereg_digest |-> plan.prereg_digest,
                    prereg_signature_digest |-> signature_digest,
                    prereg_evidence_grade |-> plan.evidence_grade,
                    prereg_registered_at |-> plan.registered_at, non_claims |-> NonClaimsCanonical,
                    claim_support_rows_digest |-> ABSENT, coverage |-> ManifestCoverage,
                    issuer_key_ref |-> Issuer.key_ref, trust_ring_ref |-> Issuer.trust_ring_ref,
                    issuer_signature_algorithm |-> Issuer.public_key.algorithm]
           rows == [i \in DOMAIN ClaimIds |->
                       SupportRow(open, ClaimIds[i], account.bases[ClaimIds[i]])]
           unsigned == [open EXCEPT !.claim_support_rows_digest = RoleDigest("claim_support_rows", rows)]
           sig == [issuer_key_ref |-> Issuer.key_ref, trust_ring_ref |-> Issuer.trust_ring_ref,
                   algorithm |-> Issuer.public_key.algorithm,
                   unsigned_manifest_digest |-> ManifestDigest(unsigned),
                   signature |-> Sign(DatasetMaterial(unsigned))]
           d == Bundle(s, process, envelope, account)
<1>1. d = [composition |-> composition, leakage_report |-> leakage,
           leaf_generation_attestation |-> attestation, limitations |-> limitations,
           preregistration_envelope |-> envelope, efficiency_report |-> efficiency,
           claim_support_rows |-> rows, unsigned_manifest |-> unsigned, integers |-> "int",
           signature |-> sig]
  BY DEF Bundle
<1>2. /\ Carries("composition", composition, "composition_digest")
      /\ Carries("leakage_report", leakage, "leakage_report_digest")
      /\ Carries("limitations", limitations, "limitations_digest")
      /\ Carries("efficiency_report", efficiency, "efficiency_report_digest")
      /\ Carries("prereg", plan, "prereg_digest")
  BY CompositionCarries, LeakageCarries, LimitationsCarries, EfficiencyCarries
<1>3. attestation # ABSENT =>
         /\ Carries("leaf_generation_attestation", attestation, "attestation_digest")
         /\ attestation.attestation_digest # ABSENT
  BY AttestationCarries DEF Attestation
<1> HIDE DEF plan, identity, composition, attestation, leakage, limitations, efficiency,
             scope_binding, process_digest, commitment, attestation_digest, signature_digest, rows, d
<1>4. /\ unsigned.identity = identity /\ unsigned.scope_binding_digest = scope_binding
      /\ unsigned.process_unsigned_manifest_digest = process_digest
      /\ unsigned.dataset_commitment_ref = commitment
      /\ unsigned.composition_digest = composition.composition_digest
      /\ unsigned.leakage_report_digest = leakage.leakage_report_digest
      /\ unsigned.leaf_generation_attestation_digest = attestation_digest
      /\ unsigned.efficiency_report_digest = efficiency.efficiency_report_digest
      /\ unsigned.limitations_digest = limitations.limitations_digest
      /\ unsigned.prereg_digest = plan.prereg_digest
      /\ unsigned.prereg_signature_digest = signature_digest
      /\ unsigned.claim_support_rows_digest = RoleDigest("claim_support_rows", rows)
      /\ unsigned.issuer_key_ref = Issuer.key_ref
      /\ unsigned.trust_ring_ref = Issuer.trust_ring_ref
      /\ unsigned.issuer_signature_algorithm = Issuer.public_key.algorithm
  OBVIOUS
<1> HIDE DEF unsigned
<1>5. /\ sig = DatasetSignatureOf(sig) /\ sig.issuer_key_ref = Issuer.key_ref
      /\ sig.trust_ring_ref = Issuer.trust_ring_ref
      /\ sig.algorithm = Issuer.public_key.algorithm
      /\ sig.unsigned_manifest_digest = ManifestDigest(unsigned)
      /\ sig.signature.material = DatasetMaterial(unsigned)
  BY DEF DatasetSignatureOf, Sign, V0!Signature
<1> HIDE DEF sig
<1>6. /\ d = BundleOf(d) /\ d.integers = "int" /\ d.signature = sig /\ d.unsigned_manifest = unsigned
      /\ d.composition = composition /\ d.leakage_report = leakage
      /\ d.limitations = limitations /\ d.efficiency_report = efficiency
      /\ d.leaf_generation_attestation = attestation
      /\ d.preregistration_envelope = envelope /\ d.claim_support_rows = rows
  BY <1>1 DEF BundleOf
<1>7. ClosedDocuments(d)
  BY <1>2, <1>3, <1>5, <1>6 DEF ClosedDocuments, Carries, plan
<1>8. BoundToManifest(d)
  BY <1>2, <1>3, <1>4, <1>5, <1>6, <1>7
     DEF BoundToManifest, plan, attestation_digest, signature_digest
<1> QED
  BY <1>4, <1>5, <1>6, <1>8 DEF d, identity, scope_binding, process_digest, commitment
-----------------------------------------------------------------------------
(* A bundle that verifies is one that the issuer signed *)

\* What the bundle is bound to.
LEMMA BindingFacts ==
  ASSUME NEW b, NEW ctx, NEW process, NEW lists, CheckBindings(b, ctx, process, lists) = OK
  PROVE  LET unsigned == b.unsigned_manifest
         IN  /\ unsigned.scope_binding_digest
                    = ScopeBindingDigest(ctx.expected_project_ref, ctx.expected_build_session_ref)
             /\ unsigned.process_unsigned_manifest_digest = ProcessManifestDigest(process)
             /\ unsigned.dataset_commitment_ref = ctx.expected_dataset_commitment_ref
             /\ CheckIdentity(unsigned.identity, ctx) = OK
<1> DEFINE unsigned == b.unsigned_manifest
           pr_unsigned == process.unsigned_manifest
           identity == unsigned.identity
<1>1. /\ CheckScopeBinding(unsigned, pr_unsigned, ctx) = OK
      /\ CheckProcessBinding(unsigned, process) = OK
      /\ CheckDatasetCommitment(unsigned, process, ctx) = OK
      /\ CheckIdentity(identity, ctx) = OK
  BY BothPass DEF CheckBindings
<1> HIDE DEF unsigned, pr_unsigned, identity
<1>2. unsigned.scope_binding_digest
         = ScopeBindingDigest(ctx.expected_project_ref, ctx.expected_build_session_ref)
  BY <1>1 DEF CheckScopeBinding, Require, OK
<1>3. unsigned.process_unsigned_manifest_digest = ProcessManifestDigest(process)
  BY <1>1 DEF CheckProcessBinding, Require, OK
<1>4. unsigned.dataset_commitment_ref = ctx.expected_dataset_commitment_ref
  BY <1>1 DEF CheckDatasetCommitment, Require, OK
<1> QED  BY <1>1, <1>2, <1>3, <1>4 DEF unsigned, identity

\* The plan is the one that is pinned, and comes before the results.
LEMMA PlanChecked ==
  ASSUME NEW b, NEW ctx, NEW process, CheckPlan(b, ctx, process) = OK
  PROVE  LET plan == b.preregistration_envelope.preregistration
         IN  /\ ctx.expected_prereg_digest \in {ABSENT, plan.prereg_digest}
             /\ \A t \in ResultTimes(process.receipts) : UtcMicroseconds(plan.registered_at) < t
<1> DEFINE plan == b.preregistration_envelope.preregistration
           unsigned == b.unsigned_manifest
           receipts == process.receipts
<1>1. CheckOrdering(unsigned, plan, receipts) = OK /\ CheckEvidenceGrade(unsigned, plan, ctx) = OK
  BY BothPass DEF CheckPlan
<1> HIDE DEF plan, unsigned, receipts
<1>2. \A t \in ResultTimes(receipts) : UtcMicroseconds(plan.registered_at) < t
  BY <1>1 DEF CheckOrdering, Require, OK
<1>3. ctx.expected_prereg_digest \in {ABSENT, plan.prereg_digest}
  BY <1>1 DEF CheckEvidenceGrade, &&, Require, OK
<1> QED  BY <1>2, <1>3 DEF plan, receipts

\* A process record is determined by its unsigned manifest.
LEMMA ProcessOfDigest ==
  ASSUME NEW s, NEW t, NEW x, NEW y,
         ProcessManifestDigest(FiledProcess(s, x).record) = ProcessManifestDigest(FiledProcess(t, y).record)
  PROVE  FiledProcess(s, x).record = FiledProcess(t, y).record
<1> DEFINE p == FiledProcess(s, x).record
           q == FiledProcess(t, y).record
<1>1. p.unsigned_manifest = q.unsigned_manifest
  BY DEF ProcessManifestDigest, RoleDigest
<1>2. p.unsigned_manifest.receipts = RoleDigest("receipts", x)
  BY DEF FiledProcess
<1>3. q.unsigned_manifest.receipts = RoleDigest("receipts", y)
  BY DEF FiledProcess
<1>4. x = y
  BY <1>1, <1>2, <1>3 DEF RoleDigest
<1>5. p = [unsigned_manifest |-> p.unsigned_manifest, receipts |-> x, issuer |-> Issuer]
  BY DEF FiledProcess
<1>6. q = [unsigned_manifest |-> q.unsigned_manifest, receipts |-> y, issuer |-> Issuer]
  BY DEF FiledProcess
<1> QED  BY <1>1, <1>4, <1>5, <1>6

\* What the issuer signed, by the invariant.
LEMMA IssuedFacts ==
  ASSUME DatasetInv, NEW i \in issued
  PROVE  LET d == i.bundle
             unsigned == d.unsigned_manifest
             s == i.session
         IN  /\ BoundToManifest(d)
             /\ d.preregistration_envelope \in plans
             /\ \E p \in processes : i.process = p.record
             /\ d.signature.signature.material = DatasetMaterial(unsigned)
             /\ unsigned.scope_binding_digest = ScopeBindingDigest(Build(s).project_ref, s)
             /\ unsigned.process_unsigned_manifest_digest = ProcessManifestDigest(i.process)
             /\ unsigned.dataset_commitment_ref = Build(s).commitment
             /\ unsigned.identity = Identity(s)
<1> DEFINE s == i.session
           account == i.account
           process == i.process
<1>1. PICK e \in plans, p \in processes :
         process = p.record /\ i.bundle = Bundle(s, process, e, account)
  BY DEF DatasetInv
<1>2. PICK design \in world.designs, tick \in 0..clock : e = PlanEnvelope(design, tick)
  BY <1>1 DEF DatasetInv
<1>3. e = PreregEnvelopeOf(e) /\ Carries("prereg", e.preregistration, "prereg_digest")
  BY <1>2, PlanFacts
<1>4. OpenAttestationDigest(Build(s), account.attested) # ABSENT
  BY DigestAssumption DEF DatasetInv, Build, Sessions
<1> HIDE DEF s, account, process
<1> DEFINE d == Bundle(s, process, e, account)
<1>5. /\ BoundToManifest(d) /\ d.preregistration_envelope = e
      /\ d.signature.signature.material = DatasetMaterial(d.unsigned_manifest)
      /\ d.unsigned_manifest.scope_binding_digest = ScopeBindingDigest(Build(s).project_ref, s)
      /\ d.unsigned_manifest.process_unsigned_manifest_digest = ProcessManifestDigest(process)
      /\ d.unsigned_manifest.dataset_commitment_ref = Build(s).commitment
      /\ d.unsigned_manifest.identity = Identity(s)
  BY <1>3, <1>4, BundleFacts
<1>6. i.bundle = d
  BY <1>1
<1> HIDE DEF d
<1>7. \E q \in processes : process = q.record
  BY <1>1
<1> QED  BY <1>1, <1>5, <1>6, <1>7 DEF s, process

\* What a caller pins of a session.
LEMMA ContextFacts ==
  ASSUME NEW s, NEW ctx \in Contexts(s)
  PROVE  /\ ctx.expected_project_ref = Build(s).project_ref
         /\ ctx.expected_build_session_ref = s
         /\ ctx.expected_dataset_commitment_ref = Build(s).commitment
  BY DEF Contexts

\* Whatever arrives and whatever the caller has: what verifies was issued, and
\* under what the caller pins.
LEMMA AcceptedWasIssued ==
  ASSUME DatasetInv, NEW b \in ArrivedBundles, NEW p \in processes, NEW s \in Sessions,
         NEW ctx \in Contexts(s), NEW lists,
         VerifyDatasetRecord(b, ctx, p.record, lists, processes) = OK
  PROVE  \E i \in issued :
            /\ b = i.bundle /\ i.session = s /\ i.process = p.record
            /\ Pins(ctx, p.record, b.unsigned_manifest.prereg_digest) = FiledUnder(i)
<1>1. PICK i \in issued : b.signature.signature = i.bundle.signature.signature
  BY DEF ArrivedBundles
<1> DEFINE d == i.bundle
           process == p.record
<1>2. /\ BoundToManifest(d)
      /\ \E q \in processes : i.process = q.record
      /\ d.signature.signature.material = DatasetMaterial(d.unsigned_manifest)
      /\ d.unsigned_manifest.scope_binding_digest
             = ScopeBindingDigest(Build(i.session).project_ref, i.session)
      /\ d.unsigned_manifest.process_unsigned_manifest_digest = ProcessManifestDigest(i.process)
      /\ d.unsigned_manifest.dataset_commitment_ref = Build(i.session).commitment
  BY IssuedFacts
<1>3. BoundToManifest(b) /\ b.signature.signature.material = DatasetMaterial(b.unsigned_manifest)
  BY VerifiedBound
<1>4. b.unsigned_manifest = d.unsigned_manifest
  BY <1>1, <1>2, <1>3 DEF DatasetMaterial
<1>5. b = d
  <2> HIDE DEF d
  <2> QED  BY <1>1, <1>2, <1>3, <1>4, ManifestDeterminesBundle DEF d
<1>6. CheckBindings(b, ctx, process, lists) = OK /\ CheckPlan(b, ctx, process) = OK
  BY VerifiedStages
<1>7. /\ b.unsigned_manifest.scope_binding_digest = ScopeBindingDigest(Build(s).project_ref, s)
      /\ b.unsigned_manifest.process_unsigned_manifest_digest = ProcessManifestDigest(process)
      /\ b.unsigned_manifest.dataset_commitment_ref = Build(s).commitment
  BY <1>6, BindingFacts, ContextFacts
<1>8. i.session = s
  BY <1>2, <1>4, <1>7 DEF ScopeBindingDigest, RoleDigest
<1>9. i.process = process
  <2>1. PICK q \in processes : i.process = q.record
    BY <1>2
  <2> DEFINE x == p.record.receipts
             y == q.record.receipts
             sx == p.pins.build_session_ref
             sy == q.pins.build_session_ref
  <2>2. p = FiledProcess(sx, x) /\ q = FiledProcess(sy, y)
    BY DEF DatasetInv
  <2>3. ProcessManifestDigest(p.record) = ProcessManifestDigest(q.record)
    BY <1>2, <1>4, <1>7, <2>1
  <2> HIDE DEF x, y, sx, sy
  <2>4. p.record = q.record
    BY <2>2, <2>3, ProcessOfDigest
  <2> QED  BY <2>1, <2>4
<1>10. /\ ctx.expected_prereg_digest \in {ABSENT, b.preregistration_envelope.preregistration.prereg_digest}
       /\ b.unsigned_manifest.prereg_digest = b.preregistration_envelope.preregistration.prereg_digest
  BY <1>3, <1>6, PlanChecked DEF BoundToManifest
<1>11. Pins(ctx, process, b.unsigned_manifest.prereg_digest) = FiledUnder(i)
  BY <1>5, <1>8, <1>9, <1>10, ContextFacts DEF Pins, FiledUnder
<1> QED  BY <1>5, <1>8, <1>9, <1>11
-----------------------------------------------------------------------------
(* The invariant *)

\* Steps that leave the worlds alone keep what was issued.
LEMMA BundleKept ==
  ASSUME world' = world
  PROVE  /\ Sessions' = Sessions
         /\ \A s, process, e, account :
               Bundle(s, process, e, account)' = Bundle(s, process, e, account)
         /\ \A s, receipts : FiledProcess(s, receipts)' = FiledProcess(s, receipts)
<1>1. Sessions' = Sessions /\ \A s : Build(s)' = Build(s)
  BY DEF Sessions, Build
<1>2. \A s, receipts : FiledProcess(s, receipts)' = FiledProcess(s, receipts)
  BY <1>1 DEF FiledProcess
<1>3. ASSUME NEW s, NEW process, NEW e, NEW account
      PROVE  Bundle(s, process, e, account)' = Bundle(s, process, e, account)
  BY DEF Bundle, Identity, Composition, Attestation, LeakageReport, Efficiency, Scope, CorpusRef, Build
<1> QED  BY <1>1, <1>2, <1>3

\* Init, and every step, keeps the invariant.
THEOREM DatasetInvariance == Spec => []DatasetInv
<1>1. Init => DatasetInv
  BY TimeAssumption DEF Init, DatasetInv
<1>2. DatasetInv /\ [Next]_vars => DatasetInv'
  <2> SUFFICES ASSUME DatasetInv, [Next]_vars
               PROVE  DatasetInv'
    OBVIOUS
  <2>0. world' = world /\ world.max_time \in Nat
    BY TimeAssumption DEF DatasetInv, Next, vars, Tick, Register, Verify, Observe, FileProcess, Issue
  <2>1. CASE Tick
    BY <2>0, <2>1, BundleKept DEF Tick, DatasetInv
  <2>2. CASE Register
    BY <2>0, <2>2, BundleKept DEF Register, DatasetInv
  <2>3. CASE Verify
    BY <2>0, <2>3, BundleKept DEF Verify, DatasetInv
  <2>4. ASSUME NEW s \in Sessions, Observe(s)
        PROVE  DatasetInv'
    BY <2>0, <2>4, BundleKept DEF Observe, DatasetInv
  <2>5. ASSUME NEW s \in Sessions, FileProcess(s)
        PROVE  DatasetInv'
    <3> DEFINE new == ProcessEntry(s)
    <3>1. /\ new = FiledProcess(s, ledger[s])
          /\ new.pins.build_session_ref = s /\ new.record.receipts = ledger[s]
      BY DEF ProcessEntry, FiledProcess
    <3>2. processes' = processes \cup {new} /\ UNCHANGED <<world, clock, plans, issued>>
      BY <2>5 DEF FileProcess
    <3> HIDE DEF new
    <3>3. \A p \in processes' : p = FiledProcess(p.pins.build_session_ref, p.record.receipts)
      BY <3>1, <3>2 DEF DatasetInv
    <3> QED  BY <2>0, <3>2, <3>3, BundleKept DEF DatasetInv
  <2>6. ASSUME NEW s \in Sessions, Issue(s)
        PROVE  DatasetInv'
    BY <2>0, <2>6, BundleKept DEF Issue, DatasetInv
  <2>7. CASE UNCHANGED vars
    BY <2>0, <2>7, BundleKept DEF vars, DatasetInv
  <2> QED  BY <2>1, <2>2, <2>3, <2>4, <2>5, <2>6, <2>7 DEF Next
<1> QED  BY <1>1, <1>2, PTL DEF Spec
-----------------------------------------------------------------------------
(* The register *)

Filed == {[pins |-> FiledUnder(i), record |-> i.bundle] : i \in issued}
Accepted ==
    IF accepted.bundle = ABSENT THEN ABSENT
    ELSE [pins |-> Pins(accepted.context, accepted.process,
                        accepted.bundle.unsigned_manifest.prereg_digest),
          record |-> accepted.bundle]

\* The steps of the register, in the terms above.
LEMMA RegisterSteps ==
  /\ Contract!Init <=> Filed = {} /\ Accepted = ABSENT
  /\ (Filed' = Filed /\ Accepted' = ABSENT) => Contract!Next
  /\ (Filed' = Filed /\ Accepted' # ABSENT /\ Accepted' \in Filed) => Contract!Next
  /\ (\E entry : Filed' = Filed \cup {entry} /\ Accepted' = ABSENT) => Contract!Next
  /\ (Filed' = Filed /\ Accepted' = Accepted) => UNCHANGED Contract!vars
  BY DEF Contract!Init, Contract!Next, Contract!File, Contract!Accept, Contract!Forget,
         Contract!vars, Filed, Accepted

\* Steps that sign nothing file nothing.
LEMMA FiledKept ==
  ASSUME world' = world, issued' = issued
  PROVE  Filed' = Filed
  BY DEF Filed, FiledUnder, Build

\* A step that forgets what was accepted, and files nothing.
LEMMA ForgetStep ==
  ASSUME world' = world, issued' = issued, accepted' = NothingVerified
  PROVE  Contract!Next
<1>1. Accepted' = ABSENT
  BY DEF Accepted, NothingVerified
<1> QED  BY <1>1, FiledKept, RegisterSteps

\* A verification returns what was filed under the caller's pins.
LEMMA AcceptStep ==
  ASSUME DatasetInv, Verify
  PROVE  Contract!Next
<1>1. PICK b \in ArrivedBundles, p \in processes, s \in Sessions :
      \E ctx \in Contexts(s), lists \in ArrivedLists(s) :
         /\ VerifyDatasetRecord(b, ctx, p.record, lists, processes) = OK
         /\ accepted' = [bundle |-> b, context |-> ctx, process |-> p.record, lists |-> lists]
  BY DEF Verify
<1>2. PICK ctx \in Contexts(s), lists \in ArrivedLists(s) :
         /\ VerifyDatasetRecord(b, ctx, p.record, lists, processes) = OK
         /\ accepted' = [bundle |-> b, context |-> ctx, process |-> p.record, lists |-> lists]
  BY <1>1
<1>3. PICK i \in issued : /\ b = i.bundle
                          /\ Pins(ctx, p.record, b.unsigned_manifest.prereg_digest) = FiledUnder(i)
  BY <1>2, AcceptedWasIssued
<1>4. Filed' = Filed
  BY FiledKept DEF Verify
<1> DEFINE entry == [pins |-> FiledUnder(i), record |-> i.bundle]
<1>5. entry \in Filed
  BY DEF Filed
<1>6. accepted'.bundle = b /\ accepted'.context = ctx /\ accepted'.process = p.record
  BY <1>2
<1>7. Accepted' = IF b = ABSENT THEN ABSENT ELSE entry
  BY <1>3, <1>6 DEF Accepted, Pins
<1> HIDE DEF entry
<1> QED  BY <1>4, <1>5, <1>7, RegisterSteps

\* A bundle that the issuer signs is filed.
LEMMA FileStep ==
  ASSUME NEW s \in Sessions, Issue(s)
  PROVE  Contract!Next
<1>1. world' = world /\ accepted' = NothingVerified
  BY DEF Issue
<1>2. PICK new : issued' = issued \cup {new}
  BY DEF Issue
<1>3. \A i : FiledUnder(i)' = FiledUnder(i)
  BY <1>1 DEF FiledUnder, Build
<1>4. Filed' = Filed \cup {[pins |-> FiledUnder(new), record |-> new.bundle]}
  BY <1>2, <1>3 DEF Filed
<1>5. Accepted' = ABSENT
  BY <1>1 DEF Accepted, NothingVerified
<1> QED  BY <1>4, <1>5, RegisterSteps

\* verify_dataset_record_certificate implements the register, for every build
\* and account and whatever bundles, process records and lists arrive: it
\* returns only bundles that the issuer signed, member for member, and only
\* with the process record, scope, commitment and pinned plan of each.
THEOREM RegisterImplemented == Spec => ImplementsRegister
<1>1. Init => Contract!Init
  <2> SUFFICES ASSUME Init PROVE Contract!Init
    OBVIOUS
  <2>1. Filed = {} /\ Accepted = ABSENT
    BY DEF Init, Filed, Accepted, NothingVerified
  <2> QED  BY <2>1, RegisterSteps
<1>2. DatasetInv /\ [Next]_vars => [Contract!Next]_Contract!vars
  <2> SUFFICES ASSUME DatasetInv, [Next]_vars
               PROVE  Contract!Next \/ UNCHANGED Contract!vars
    OBVIOUS
  <2>1. CASE Tick
    BY <2>1, ForgetStep DEF Tick
  <2>2. CASE Register
    BY <2>2, ForgetStep DEF Register
  <2>3. CASE Verify
    BY <2>3, AcceptStep
  <2>4. ASSUME NEW s \in Sessions, Observe(s)
        PROVE  Contract!Next
    BY <2>4, ForgetStep DEF Observe
  <2>5. ASSUME NEW s \in Sessions, FileProcess(s)
        PROVE  Contract!Next
    BY <2>5, ForgetStep DEF FileProcess
  <2>6. ASSUME NEW s \in Sessions, Issue(s)
        PROVE  Contract!Next
    BY <2>6, FileStep
  <2>7. CASE UNCHANGED vars
    <3>1. world' = world /\ issued' = issued /\ accepted' = accepted
      BY <2>7 DEF vars
    <3>2. Accepted' = Accepted
      BY <3>1 DEF Accepted, Pins
    <3> QED  BY <3>1, <3>2, FiledKept, RegisterSteps
  <2> QED  BY <2>1, <2>2, <2>3, <2>4, <2>5, <2>6, <2>7 DEF Next
<1>3. Contract!Init /\ [][Contract!Next]_Contract!vars => ImplementsRegister
  BY DEF ImplementsRegister, Contract!Spec
<1> QED  BY <1>1, <1>2, <1>3, DatasetInvariance, PTL DEF Spec
-----------------------------------------------------------------------------
(* The plan and the results *)

\* A verification only with a plan that came first.
LEMMA VerifiedInOrder ==
  ASSUME DatasetInv, Verify
  PROVE  PlanBeforeResults'
<1>1. PICK b \in ArrivedBundles, p \in processes, s \in Sessions :
      \E ctx \in Contexts(s), lists \in ArrivedLists(s) :
         /\ VerifyDatasetRecord(b, ctx, p.record, lists, processes) = OK
         /\ accepted' = [bundle |-> b, context |-> ctx, process |-> p.record, lists |-> lists]
  BY DEF Verify
<1>2. PICK ctx \in Contexts(s), lists \in ArrivedLists(s) :
         /\ VerifyDatasetRecord(b, ctx, p.record, lists, processes) = OK
         /\ accepted' = [bundle |-> b, context |-> ctx, process |-> p.record, lists |-> lists]
  BY <1>1
<1> DEFINE process == p.record
           plan == b.preregistration_envelope.preregistration
<1>3. \A t \in ResultTimes(process.receipts) : UtcMicroseconds(plan.registered_at) < t
  <2>1. CheckPlan(b, ctx, process) = OK
    BY <1>2, VerifiedStages
  <2> QED  BY <2>1, PlanChecked
<1>4. PICK tick \in DOMAIN Rendered : plan.registered_at = Rendered[tick]
  <2>1. PICK i \in issued : b = i.bundle
    BY <1>2, AcceptedWasIssued
  <2>2. b.preregistration_envelope \in plans
    BY <2>1, IssuedFacts
  <2>3. PICK design \in world.designs, tick \in 0..clock :
           b.preregistration_envelope = PlanEnvelope(design, tick)
    BY <2>2 DEF DatasetInv
  <2>4. plan.registered_at = Rendered[tick]
    BY <2>3, PlanFacts
  <2>5. tick \in DOMAIN Rendered
    BY TimeAssumption DEF DatasetInv
  <2> QED  BY <2>4, <2>5
<1>5. accepted'.bundle = b /\ accepted'.process = process
  BY <1>2
<1> HIDE DEF process, plan
<1>6. PlanTick(b) \in DOMAIN Rendered /\ Rendered[PlanTick(b)] = plan.registered_at
  BY <1>4 DEF PlanTick, plan
<1>7. ASSUME NEW t \in ResultTicks(process)
      PROVE  PlanTick(b) < t
  <2>1. t \in DOMAIN Rendered /\ UtcMicroseconds(Rendered[t]) \in ResultTimes(process.receipts)
    BY DEF ResultTicks, ResultTimes
  <2>2. UtcMicroseconds(Rendered[PlanTick(b)]) < UtcMicroseconds(Rendered[t])
    BY <1>3, <1>6, <2>1
  <2> QED  BY <1>6, <2>1, <2>2, TimeAssumption
<1> QED  BY <1>5, <1>7 DEF PlanBeforeResults, PlanTick, ResultTicks

\* The plan of every record that verifies was registered before the first
\* result of its process record, in every stream, for every clock whose written
\* times _utc_microseconds reads in order.
THEOREM PlanComesFirst == Spec => []PlanBeforeResults
<1>1. ASSUME accepted' = NothingVerified
      PROVE  PlanBeforeResults'
  BY <1>1 DEF PlanBeforeResults, NothingVerified
<1>2. Init => PlanBeforeResults
  BY DEF Init, PlanBeforeResults, NothingVerified
<1>3. DatasetInv /\ PlanBeforeResults /\ [Next]_vars => PlanBeforeResults'
  <2> SUFFICES ASSUME DatasetInv, PlanBeforeResults, [Next]_vars
               PROVE  PlanBeforeResults'
    OBVIOUS
  <2>1. CASE Tick \/ Register
    BY <1>1, <2>1 DEF Tick, Register
  <2>2. CASE Verify
    BY <2>2, VerifiedInOrder
  <2>3. ASSUME NEW s \in Sessions, Observe(s) \/ FileProcess(s) \/ Issue(s)
        PROVE  PlanBeforeResults'
    BY <1>1, <2>3 DEF Observe, FileProcess, Issue
  <2>4. CASE UNCHANGED vars
    BY <2>4 DEF vars, PlanBeforeResults, ResultTicks, PlanTick
  <2> QED  BY <2>1, <2>2, <2>3, <2>4 DEF Next
<1> QED  BY <1>2, <1>3, DatasetInvariance, PTL DEF Spec
-----------------------------------------------------------------------------
(* What a sorted list of leaves has *)

\* Of leaves that are numbers, each place is that of exactly one of them.
LEMMA PlacesFilled ==
  ASSUME NEW leaves, NEW at, IsFiniteSet(at), \A i \in at : i \in Int /\ leaves[i] \in Int
  PROVE  /\ Cardinality(at) \in Nat
         /\ \A k \in 1..Cardinality(at) : \E i \in at : Place(leaves, at, i) = k
         /\ \A i \in at : Place(leaves, at, i) \in 1..Cardinality(at)
         /\ \A i, j \in at : Place(leaves, at, i) = Place(leaves, at, j) => i = j
<1> DEFINE N == Cardinality(at)
           UpTo(i) == {j \in at : leaves[j] < leaves[i] \/ (leaves[j] = leaves[i] /\ j <= i)}
           f == [i \in at |-> Place(leaves, at, i)]
<1>1. N \in Nat
  BY FS_CardinalityType
<1>2. ASSUME NEW i \in at
      PROVE  /\ UpTo(i) \in SUBSET at /\ i \in UpTo(i)
             /\ IsFiniteSet(UpTo(i)) /\ Place(leaves, at, i) = Cardinality(UpTo(i))
             /\ Place(leaves, at, i) \in 1..N
  <2>1. UpTo(i) \in SUBSET at /\ i \in UpTo(i)
    OBVIOUS
  <2>2. Place(leaves, at, i) = Cardinality(UpTo(i))
    BY DEF Place
  <2> HIDE DEF UpTo
  <2>3. IsFiniteSet(UpTo(i)) /\ Cardinality(UpTo(i)) \in Nat /\ Cardinality(UpTo(i)) <= N
    BY <2>1, FS_Subset, FS_CardinalityType
  <2>4. Cardinality(UpTo(i)) # 0
    BY <2>1, <2>3, FS_EmptySet
  <2> QED  BY <1>1, <2>1, <2>2, <2>3, <2>4
<1>3. ASSUME NEW i \in at, NEW j \in at, leaves[i] < leaves[j] \/ (leaves[i] = leaves[j] /\ i < j)
      PROVE  Place(leaves, at, i) < Place(leaves, at, j)
  <2>1. UpTo(i) \in SUBSET UpTo(j)
    BY <1>3
  <2>2. j \notin UpTo(i)
    BY <1>3
  <2> HIDE DEF UpTo
  <2>3. /\ Cardinality(UpTo(i)) <= Cardinality(UpTo(j))
        /\ Cardinality(UpTo(j)) = Cardinality(UpTo(i)) => UpTo(j) = UpTo(i)
    BY <1>2, <2>1, FS_Subset
  <2> QED  BY <1>1, <1>2, <2>2, <2>3
<1>4. ASSUME NEW i \in at, NEW j \in at, i # j
      PROVE  Place(leaves, at, i) # Place(leaves, at, j)
  <2>1. \/ leaves[i] < leaves[j] \/ (leaves[i] = leaves[j] /\ i < j)
        \/ leaves[j] < leaves[i] \/ (leaves[j] = leaves[i] /\ j < i)
    BY <1>4
  <2>2. Place(leaves, at, i) < Place(leaves, at, j) \/ Place(leaves, at, j) < Place(leaves, at, i)
    BY <1>3, <2>1
  <2>3. Place(leaves, at, i) \in 1..N /\ Place(leaves, at, j) \in 1..N
    BY <1>2
  <2> QED  BY <1>1, <2>2, <2>3
<1>5. f \in Injection(at, 1..N)
  <2>1. f \in [at -> 1..N] /\ \A i, j \in at : f[i] = f[j] => i = j
    BY <1>2, <1>4
  <2> HIDE DEF f
  <2> QED  BY <2>1 DEF Injection, IsInjective
<1>6. IsFiniteSet(1..N) /\ Cardinality(1..N) = N
  BY <1>1, FS_Interval
<1>7. f \in Surjection(at, 1..N)
  <2> HIDE DEF f, N
  <2>1. Cardinality(at) = Cardinality(1..N)
    BY <1>6 DEF N
  <2> QED  BY <1>5, <1>6, <2>1, FS_Injection
<1>8. \A k \in 1..N : \E i \in at : f[i] = k
  BY <1>7 DEF Surjection
<1>9. \A i \in at : Place(leaves, at, i) \in 1..N
  BY <1>2
<1>10. \A i, j \in at : Place(leaves, at, i) = Place(leaves, at, j) => i = j
  BY <1>4
<1> QED  BY <1>1, <1>8, <1>9, <1>10

\* sorted returns the leaves it is given, each of them.
LEMMA SortedHas ==
  ASSUME NEW leaves, IsFiniteSet(DOMAIN leaves),
         \A i \in DOMAIN leaves : i \in Int /\ leaves[i] \in Int
  PROVE  /\ DOMAIN Sorted(leaves) = 1..Cardinality(DOMAIN leaves)
         /\ Range(Sorted(leaves)) = Range(leaves)
<1> DEFINE at == DOMAIN leaves
           Chosen(k) == CHOOSE i \in at : Place(leaves, at, i) = k
<1>1. Sorted(leaves) = [k \in 1..Cardinality(at) |-> leaves[Chosen(k)]]
  BY DEF Sorted, SortedAt
<1>2. \A k \in 1..Cardinality(at) : Chosen(k) \in at
  BY PlacesFilled
<1>3. \A i \in at : Place(leaves, at, i) \in 1..Cardinality(at) /\ Chosen(Place(leaves, at, i)) = i
  BY PlacesFilled
<1> HIDE DEF Chosen, at
<1>4. \A k \in 1..Cardinality(at) : leaves[Chosen(k)] \in Range(leaves)
  BY <1>2 DEF at, Range
<1>5. \A i \in at : leaves[i] \in Range(Sorted(leaves))
  <2> SUFFICES ASSUME NEW i \in at PROVE leaves[i] \in Range(Sorted(leaves))
    OBVIOUS
  <2>1. PICK k \in 1..Cardinality(at) : Chosen(k) = i
    BY <1>3
  <2> QED  BY <1>1, <2>1 DEF Range
<1>6. Range(Sorted(leaves)) \subseteq Range(leaves)
  BY <1>1, <1>4 DEF Range
<1>7. Range(leaves) \subseteq Range(Sorted(leaves))
  BY <1>5 DEF Range, at
<1> QED  BY <1>1, <1>6, <1>7 DEF at
-----------------------------------------------------------------------------
(* What the caller has *)

\* The items of a build.
LEMMA BuildFacts ==
  ASSUME DatasetInv, NEW s \in Sessions
  PROVE  Build(s).items \in Seq(ItemRecord)
  BY BuildsAssumption DEF DatasetInv, Sessions, Build, ItemRecord

\* Whatever the caller passes, each list is of rows that have a leaf.
LEMMA ListsAreRows ==
  ASSUME NEW s, NEW lists \in ArrivedLists(s), lists # ABSENT, NEW ref \in DOMAIN lists
  PROVE  /\ lists[ref] \in Seq(ItemRecord \cup Leaf)
         /\ \A x \in ItemRecord \cup Leaf : x.leaf \in Int
<1>1. lists[ref] \in Seq(ItemRecord \cup Leaf)
  BY DEF ArrivedLists
<1>2. \A x \in ItemRecord \cup Leaf : x.leaf \in Int
  BY DEF ItemRecord, Leaf
<1> QED  BY <1>1, <1>2

\* Leaves of a list of records.
LEMMA LeavesOf ==
  ASSUME NEW S, NEW entries \in Seq(S), \A x \in S : x.leaf \in Int
  PROVE  LET leaves == Leaves(entries)
         IN  /\ IsFiniteSet(DOMAIN leaves) /\ DOMAIN leaves = 1..Len(entries)
             /\ Cardinality(DOMAIN leaves) = Len(entries)
             /\ \A i \in DOMAIN leaves : i \in Int /\ leaves[i] \in Int
<1>1. DOMAIN Leaves(entries) = 1..Len(entries) /\ Len(entries) \in Nat
  BY DEF Leaves
<1>2. IsFiniteSet(1..Len(entries)) /\ Cardinality(1..Len(entries)) = Len(entries)
  BY <1>1, FS_Interval
<1>3. \A i \in 1..Len(entries) : Leaves(entries)[i] \in Int
  BY DEF Leaves
<1> QED  BY <1>1, <1>2, <1>3

\* Each item of the build is one entry of the list.
Matches(entries, items, n, place) ==
    /\ DOMAIN entries = 1..n /\ DOMAIN items = 1..n
    /\ place \in Bijection(1..n, 1..n)
    /\ \A i, j \in 1..n : entries[j].leaf = items[i].leaf <=> j = place[i]

\* A list that has no leaf twice, under the root of the items, has the leaves
\* of the items and no others.
LEMMA ItemsMatched ==
  ASSUME NEW S, NEW entries \in Seq(S), \A x \in S : x.leaf \in Int,
         NEW T, NEW items \in Seq(T), \A x \in T : x.leaf \in Int,
         IsInjective(Leaves(entries)), ItemSetRoot(Leaves(entries)) = ItemSetRoot(Leaves(items))
  PROVE  \E n \in Nat : \E place : Matches(entries, items, n, place)
<1>1. PICK f, g : f = Leaves(entries) /\ g = Leaves(items)
  OBVIOUS
<1>2. PICK n \in Nat : n = Len(entries)
  OBVIOUS
<1>3. Sorted(f) = Sorted(g)
  BY <1>1 DEF ItemSetRoot, RoleDigest
<1>4. /\ DOMAIN Sorted(f) = 1..Len(entries) /\ DOMAIN Sorted(g) = 1..Len(items)
      /\ Range(Sorted(f)) = Range(f) /\ Range(Sorted(g)) = Range(g)
      /\ DOMAIN f = 1..Len(entries) /\ DOMAIN g = 1..Len(items)
  BY <1>1, LeavesOf, SortedHas
<1>5. Len(items) = n
  BY <1>2, <1>3, <1>4
<1>6. PICK L : L = Range(f) /\ L = Range(g)
  BY <1>3, <1>4
<1>7. DOMAIN f = 1..n /\ DOMAIN g = 1..n /\ f = [i \in 1..n |-> f[i]] /\ g = [i \in 1..n |-> g[i]]
  BY <1>1, <1>2, <1>4, <1>5 DEF Leaves
<1>8. f \in Bijection(1..n, L)
  <2>1. f \in [1..n -> L] /\ (\A i, j \in 1..n : f[i] = f[j] => i = j)
        /\ \A y \in L : \E i \in 1..n : f[i] = y
    BY <1>1, <1>6, <1>7 DEF Range, IsInjective
  <2> QED  BY <2>1, <1>7 DEF Bijection, Injection, Surjection, IsInjective
<1>9. g \in Surjection(1..n, L)
  BY <1>6, <1>7 DEF Range, Surjection
<1>10. g \in Injection(1..n, L)
  <2>1. IsFiniteSet(1..n)
    BY FS_Interval
  <2>2. Cardinality(L) = Cardinality(1..n)
    BY <1>8, <2>1, FS_Bijection DEF ExistsBijection
  <2> QED  BY <1>9, <2>1, <2>2, FS_SurjSameCardinalityImpliesInj
<1>11. /\ \A i, j \in 1..n : f[i] = f[j] => i = j
       /\ \A i, j \in 1..n : g[i] = g[j] => i = j
       /\ \A i \in 1..n : \E j \in 1..n : f[j] = g[i]
       /\ \A j \in 1..n : \E i \in 1..n : g[i] = f[j]
  BY <1>7, <1>8, <1>9, <1>10 DEF Bijection, Injection, Surjection, IsInjective
<1>12. PICK place : place = [i \in 1..n |-> CHOOSE j \in 1..n : f[j] = g[i]]
  OBVIOUS
<1>13. \A i \in 1..n : place[i] \in 1..n /\ f[place[i]] = g[i]
  BY <1>11, <1>12
<1>14. \A i, j \in 1..n : f[j] = g[i] <=> j = place[i]
  <2> SUFFICES ASSUME NEW i \in 1..n, NEW j \in 1..n
               PROVE  f[j] = g[i] <=> j = place[i]
    OBVIOUS
  <2>1. place[i] \in 1..n /\ f[place[i]] = g[i]
    BY <1>13
  <2>2. f[j] = f[place[i]] => j = place[i]
    BY <1>11, <2>1, Zenon
  <2> QED  BY <2>1, <2>2, Zenon
<1>15. place \in Bijection(1..n, 1..n)
  <2>1. place \in [1..n -> 1..n] /\ (\A i, j \in 1..n : place[i] = place[j] => i = j)
        /\ \A j \in 1..n : \E i \in 1..n : place[i] = j
    <3>1. place \in [1..n -> 1..n]
      BY <1>12, <1>13
    <3>2. ASSUME NEW i \in 1..n, NEW j \in 1..n, place[i] = place[j]  PROVE i = j
      <4>1. f[place[i]] = g[i] /\ f[place[j]] = g[j]
        BY <1>13, Zenon
      <4>2. g[i] = g[j]
        BY <3>2, <4>1
      <4> QED  BY <1>11, <4>2, Zenon
    <3>3. ASSUME NEW j \in 1..n  PROVE \E i \in 1..n : place[i] = j
      <4>1. PICK i \in 1..n : g[i] = f[j]
        BY <1>11, Zenon
      <4> QED  BY <1>14, <4>1, Zenon
    <3> QED  BY <3>1, <3>2, <3>3, Zenon
  <2>2. DOMAIN place = 1..n
    BY <1>12
  <2> QED  BY <2>1, <2>2 DEF Bijection, Injection, Surjection, IsInjective
<1>16. DOMAIN entries = 1..n /\ DOMAIN items = 1..n
  BY <1>2, <1>5
<1>17. \A i \in 1..n : f[i] = entries[i].leaf /\ g[i] = items[i].leaf
  BY <1>1, <1>16 DEF Leaves
<1> QED  BY <1>14, <1>15, <1>16, <1>17 DEF Matches

\* The cells in which a list has the leaf of an item.
CellsIn(entries, x) == {CellKey(e) : e \in {y \in Range(entries) : y.leaf = x.leaf}}

\* Each item is then in one cell, that of its entry, and each cell has as many
\* items as entries.
LEMMA CellsMatched ==
  ASSUME NEW entries, NEW items, NEW n \in Nat, NEW place, Matches(entries, items, n, place)
  PROVE  /\ \A x \in Range(items) : \E e \in Range(entries) : CellsIn(entries, x) = {CellKey(e)}
         /\ \A key : Cardinality({i \in DOMAIN items : CellsIn(entries, items[i]) = {key}})
                        = Cardinality(InCell(entries, key))
<1>1. /\ DOMAIN entries = 1..n /\ DOMAIN items = 1..n
      /\ \A i, j \in 1..n : entries[j].leaf = items[i].leaf <=> j = place[i]
      /\ \A i \in 1..n : place[i] \in 1..n
      /\ \A i, j \in 1..n : place[i] = place[j] => i = j
      /\ \A j \in 1..n : \E i \in 1..n : place[i] = j
  BY DEF Matches, Bijection, Injection, Surjection, IsInjective
<1>2. ASSUME NEW i \in 1..n
      PROVE  CellsIn(entries, items[i]) = {CellKey(entries[place[i]])}
  <2>1. {y \in Range(entries) : y.leaf = items[i].leaf} = {entries[place[i]]}
    <3>1. place[i] \in 1..n /\ Range(entries) = {entries[j] : j \in 1..n}
      BY <1>1 DEF Range
    <3>2. ASSUME NEW j \in 1..n  PROVE entries[j].leaf = items[i].leaf <=> j = place[i]
      BY <1>1, Zenon
    <3> QED  BY <3>1, <3>2
  <2> QED  BY <2>1 DEF CellsIn
<1>3. ASSUME NEW x \in Range(items)
      PROVE  \E e \in Range(entries) : CellsIn(entries, x) = {CellKey(e)}
  <2>1. PICK i \in 1..n : x = items[i]
    BY <1>1 DEF Range
  <2>2. entries[place[i]] \in Range(entries)
    BY <1>1 DEF Range
  <2> QED  BY <1>2, <2>1, <2>2
<1>4. ASSUME NEW key
      PROVE  Cardinality({i \in DOMAIN items : CellsIn(entries, items[i]) = {key}})
                = Cardinality(InCell(entries, key))
  <2>0. PICK A, B : /\ A = {i \in 1..n : CellKey(entries[place[i]]) = key}
                    /\ B = {j \in 1..n : CellKey(entries[j]) = key}
    OBVIOUS
  <2>1. PICK h : h = [i \in A |-> place[i]]
    OBVIOUS
  <2>2. {i \in DOMAIN items : CellsIn(entries, items[i]) = {key}} = A
    <3>1. ASSUME NEW i \in 1..n
          PROVE  CellsIn(entries, items[i]) = {key} <=> CellKey(entries[place[i]]) = key
      <4>1. CellsIn(entries, items[i]) = {CellKey(entries[place[i]])}
        BY <1>2
      <4> QED  BY ONLY <4>1
    <3> QED  BY <1>1, <2>0, <3>1, Zenon
  <2>3. InCell(entries, key) = B
    BY <1>1, <2>0 DEF InCell
  <2>4. /\ h \in [A -> B] /\ DOMAIN h = A /\ (\A i, j \in A : h[i] = h[j] => i = j)
        /\ \A j \in B : \E i \in A : h[i] = j
    BY <1>1, <2>0, <2>1
  <2>5. h \in Bijection(A, B)
    BY <2>4 DEF Bijection, Injection, Surjection, IsInjective
  <2>6. IsFiniteSet(A)
    BY <2>0, FS_Interval, FS_Subset
  <2>7. Cardinality(B) = Cardinality(A)
    BY <2>5, <2>6, FS_Bijection DEF ExistsBijection
  <2> QED  BY <2>2, <2>3, <2>7
<1> QED  BY <1>3, <1>4
-----------------------------------------------------------------------------
(* The claims that are reported verified *)

\* DS1 is verified only against the pinned identity.
LEMMA Ds1Holds ==
  ASSUME NEW identity, NEW ctx, CheckIdentity(identity, ctx) = OK,
         Ds1Basis(identity, ctx) = "issuer_verified"
  PROVE  /\ identity.dataset_identity_root = ctx.expected_dataset_identity_root
         /\ identity.identity_blind_epoch = ctx.expected_identity_blind_epoch
<1> DEFINE same_root == identity.dataset_identity_root = ctx.expected_dataset_identity_root
           same_epoch == identity.identity_blind_epoch = ctx.expected_identity_blind_epoch
<1>1. Ds1Basis(identity, ctx) # "abstained"
  OBVIOUS
<1>2. (Require(same_root = same_epoch, "IDENTITY_EPOCH_INCONSISTENT")
       && Require(same_root, "DATASET_IDENTITY_MISMATCH")) = OK
  BY <1>1 DEF CheckIdentity
<1>3. /\ Require(same_root = same_epoch, "IDENTITY_EPOCH_INCONSISTENT") = OK
      /\ Require(same_root, "DATASET_IDENTITY_MISMATCH") = OK
  BY <1>2, BothPass
<1> QED  BY <1>3 DEF Require, OK

\* A loop passes only when every round does.
LEMMA EachPassed ==
  ASSUME NEW n \in Nat, NEW outcomes, DOMAIN outcomes = 1..n, ForEach(outcomes) = OK
  PROVE  \A i \in 1..n : outcomes[i] = OK
<1> DEFINE failed == {i \in 1..n : outcomes[i] # OK}
<1> SUFFICES ASSUME failed # {} PROVE FALSE
  OBVIOUS
<1>1. PICK i \in failed : \A j \in failed : <<j, i>> \notin OpToRel(<, Nat)
  <2>1. failed \subseteq Nat
    OBVIOUS
  <2> HIDE DEF failed
  <2> QED  BY <2>1, NatLessThanWellFounded, WFMin
<1>2. ASSUME NEW j \in failed, j < i PROVE FALSE
  <2>1. j \in Nat /\ i \in Nat
    OBVIOUS
  <2> QED  BY <1>1, <1>2, <2>1 DEF OpToRel
<1>3. i \in 1..n /\ outcomes[i] # OK /\ \A j \in 1..n : j < i => outcomes[j] = OK
  BY <1>2
<1> HIDE DEF failed
<1> DEFINE first == CHOOSE x \in 1..n : outcomes[x] # OK /\ \A j \in 1..n : j < x => outcomes[j] = OK
<1>4. outcomes[first] # OK
  BY <1>3
<1>5. ForEach(outcomes) = outcomes[first]
  BY <1>3 DEF ForEach
<1> QED  BY <1>4, <1>5

\* The cells of a composition are a list, whatever the account.
LEMMA CellsListed ==
  ASSUME NEW s, NEW account, account.items \in Seq(ItemRecord)
  PROVE  \E n \in Nat : DOMAIN Composition(s, account).cells = 1..n
<1> DEFINE K == {CellKey(x) : x \in Range(account.items)}
           Cell(key) == [category_id |-> key[1], difficulty_stratum |-> key[2],
                         item_count |-> Cardinality(InCell(account.items, key)),
                         cell_leaf_root |-> CellRoot(account.items, key)]
           cells == [i \in DOMAIN SetToSeq(K) |-> Cell(SetToSeq(K)[i])]
<1>1. IsFiniteSet(K)
  <2> DEFINE f == [i \in 1..Len(account.items) |-> CellKey(account.items[i])]
  <2>1. DOMAIN account.items = 1..Len(account.items) /\ Len(account.items) \in Nat
    OBVIOUS
  <2>2. IsFiniteSet(1..Len(account.items))
    BY <2>1, FS_Interval
  <2>3. f \in Surjection(1..Len(account.items), K)
    BY <2>1 DEF Surjection, Range
  <2> HIDE DEF f, K
  <2> QED  BY <2>2, <2>3, FS_Surjection
<1>2. Cardinality(K) \in Nat /\ SetToSeq(K) \in [1..Cardinality(K) -> K]
  <2> HIDE DEF K
  <2>1. Cardinality(K) \in Nat /\ ExistsBijection(1..Cardinality(K), K)
    BY <1>1, FS_CardinalityType
  <2>2. \E f \in [1..Cardinality(K) -> K] : IsInjective(f)
    BY <2>1 DEF ExistsBijection, Bijection, Injection
  <2> QED  BY <2>1, <2>2 DEF SetToSeq
<1>3. Composition(s, account).cells = cells
  BY DEF Composition, Closed
<1> HIDE DEF K, Cell
<1> QED  BY <1>2, <1>3

\* DS2 is verified only against an item list under the root of the items, cell
\* by cell.
LEMMA Ds2Holds ==
  ASSUME NEW identity, NEW composition, NEW lists, CheckDs2(identity, composition, lists) = OK,
         NEW n \in Nat, DOMAIN composition.cells = 1..n,
         Ds2Basis(identity, lists) = "issuer_verified"
  PROVE  LET entries == lists[identity.dataset_ref]
         IN  /\ lists # ABSENT /\ identity.dataset_ref \in DOMAIN lists
             /\ ItemSetRoot(Leaves(entries)) = identity.item_set_root
             /\ \A c \in Range(composition.cells) :
                   Cardinality(InCell(entries, CellKey(c))) = c.item_count
             /\ \A e \in Range(entries) : \E c \in Range(composition.cells) : CellKey(c) = CellKey(e)
<1> DEFINE entries == lists[identity.dataset_ref]
           cells == composition.cells
           checked == [i \in DOMAIN cells |-> CheckCell(cells[i], entries)]
<1>1. Recomputable(ItemSet(identity, lists))
  BY DEF Ds2Basis
<1>2. Supplied(lists) /\ identity.dataset_ref \in DOMAIN lists
  <2>1. ~Recomputable(<<>>)
    BY DEF Recomputable
  <2> QED  BY <1>1, <2>1 DEF ItemSet
<1>3. CheckCellRoots(identity, composition, entries) = OK
  BY <1>1, <1>2 DEF CheckDs2, ItemSet
<1>4. /\ ForEach(checked) = OK
      /\ Require(\A e \in Range(entries) : \E c \in Range(cells) : CellKey(c) = CellKey(e),
                 "COMPOSITION_CELL_ROOT_MISMATCH") = OK
      /\ Require(ItemSetRoot(Leaves(entries)) = identity.item_set_root,
                 "COMPOSITION_CELL_ROOT_MISMATCH") = OK
  <2> DEFINE covers == Require(\A e \in Range(entries) : \E c \in Range(cells) : CellKey(c) = CellKey(e),
                               "COMPOSITION_CELL_ROOT_MISMATCH")
             root == Require(ItemSetRoot(Leaves(entries)) = identity.item_set_root,
                             "COMPOSITION_CELL_ROOT_MISMATCH")
  <2>1. ((ForEach(checked) && covers) && root) = OK
    BY <1>3 DEF CheckCellRoots
  <2> HIDE DEF covers, root, checked
  <2>2. ForEach(checked) = OK /\ covers = OK /\ root = OK
    BY <2>1, BothPass
  <2> QED  BY <2>2 DEF covers, root
<1>5. \A i \in DOMAIN cells : CheckCell(cells[i], entries) = OK
  <2>1. DOMAIN checked = 1..n
    OBVIOUS
  <2>2. \A i \in 1..n : checked[i] = OK
    <3> HIDE DEF checked
    <3> QED  BY <1>4, <2>1, EachPassed
  <2> QED  BY <2>1, <2>2
<1> HIDE DEF entries, cells
<1>6. ASSUME NEW c \in Range(cells)
      PROVE  Cardinality(InCell(entries, CellKey(c))) = c.item_count
  <2>1. PICK i \in DOMAIN cells : c = cells[i]
    BY DEF Range
  <2>2. Require(Cardinality(InCell(entries, CellKey(c))) = c.item_count,
                "COMPOSITION_CELL_COUNT_MISMATCH") = OK
    BY <1>5, <2>1, BothPass DEF CheckCell
  <2> QED  BY <2>2 DEF Require, OK
<1>7. /\ \A e \in Range(entries) : \E c \in Range(cells) : CellKey(c) = CellKey(e)
      /\ ItemSetRoot(Leaves(entries)) = identity.item_set_root
  BY <1>4 DEF Require, OK
<1> QED  BY <1>2, <1>6, <1>7 DEF Supplied, entries, cells

\* A list is under its derived reference.
LEMMA ListCommitted ==
  ASSUME NEW identity, NEW lists, CheckLeafListDerivedRefs(identity, lists) = OK,
         NEW ref \in CorpusRefs(identity, lists)
  PROVE  Committed(ref) = Range(Sorted(Leaves(lists[ref])))
<1>1. ref = DeriveCorpusRef(LeafListDigest(Leaves(lists[ref])), identity.leakage_scope_ref)
  BY DEF CheckLeafListDerivedRefs, Require, OK
<1> DEFINE leaves == Leaves(lists[ref])
           digest == LeafListDigest(leaves)
<1>2. ref.cpr[1] = digest
  BY <1>1 DEF DeriveCorpusRef
<1>3. digest.projection = Sorted(leaves)
  BY DEF LeafListDigest, RoleDigest
<1> HIDE DEF digest
<1> QED  BY <1>2, <1>3 DEF Committed

\* DS3 is verified only when the lists of every corpus that a finding names
\* are there, attested, and no two that are compared have a leaf in common.
LEMMA Ds3Holds ==
  ASSUME NEW identity, NEW report, NEW attestation, NEW lists,
         Ds3Basis(identity, report, attestation, lists) = "issuer_verified"
  PROVE  /\ Ds3Findings(report) # {}
         /\ \A f \in Ds3Findings(report) :
               /\ PairOf(f) \subseteq CorpusRefs(identity, lists) \cap AttestedRefs(attestation)
               /\ Overlap(f, lists) = {}
<1>1. Ds3Covered(identity, report, attestation, lists) /\ DisjointnessEstablished(report, lists)
  BY DEF Ds3Basis
<1>2. \A f \in Ds3Findings(report) : PairOf(f) \subseteq Ds3RelevantRefs(report)
  BY DEF Ds3RelevantRefs
<1> QED  BY <1>1, <1>2 DEF Ds3Covered, DisjointnessEstablished

\* What is committed to under a reference of the caller's lists is in the list.
LEMMA CommittedInList ==
  ASSUME NEW s, NEW lists \in ArrivedLists(s),
         CheckLeafListDerivedRefs(Identity(s), lists) = OK,
         NEW ref \in CorpusRefs(Identity(s), lists)
  PROVE  Committed(ref) \subseteq Range(Leaves(lists[ref]))
<1>1. lists # ABSENT /\ ref \in DOMAIN lists /\ ref # Identity(s).dataset_ref
  BY DEF CorpusRefs, Supplied
<1>2. lists[ref] \in Seq(ItemRecord \cup Leaf) /\ \A x \in ItemRecord \cup Leaf : x.leaf \in Int
  BY <1>1, ListsAreRows
<1> DEFINE entries == lists[ref]
<1>3. Committed(ref) = Range(Sorted(Leaves(entries)))
  BY ListCommitted
<1> HIDE DEF entries
<1>4. /\ IsFiniteSet(DOMAIN Leaves(entries))
      /\ \A i \in DOMAIN Leaves(entries) : i \in Int /\ Leaves(entries)[i] \in Int
  BY <1>2, LeavesOf DEF entries
<1> QED  BY <1>3, <1>4, SortedHas DEF entries

\* What the claims say of a build.
ClaimsHold(b, ctx, lists, build) ==
    LET verified == ClaimsVerified(b, ctx, lists)
        findings == Ds3Findings(b.leakage_report)
    IN  /\ "DS1" \in verified =>
              /\ build.identity_root = ctx.expected_dataset_identity_root
              /\ build.epoch = ctx.expected_identity_blind_epoch
        /\ "DS2" \in verified =>
              /\ \A x \in Range(build.items) :
                    \E c \in Range(b.composition.cells) : CellsHeld(b, lists, x) = {CellKey(c)}
              /\ \A c \in Range(b.composition.cells) :
                    Cardinality({i \in DOMAIN build.items :
                                    CellsHeld(b, lists, build.items[i]) = {CellKey(c)}}) = c.item_count
        /\ "DS3" \in verified =>
              /\ findings # {}
              /\ \A f \in findings :
                    /\ Committed(f.corpus_a_ref) \cap Committed(f.corpus_b_ref) = {}
                    /\ PairOf(f) \subseteq AttestedRefs(b.leaf_generation_attestation)

\* What the checks of a record, under the manifest of a session, establish.
LEMMA ClaimsFollow ==
  ASSUME DatasetInv, NEW s \in Sessions, NEW b, NEW ctx, NEW lists \in ArrivedLists(s),
         b.unsigned_manifest.identity = Identity(s),
         NEW n \in Nat, DOMAIN b.composition.cells = 1..n,
         CheckIdentity(Identity(s), ctx) = OK, CheckLeafListInput(Identity(s), lists) = OK,
         CheckLeafListDerivedRefs(Identity(s), lists) = OK,
         CheckDs2(Identity(s), b.composition, lists) = OK
  PROVE  ClaimsHold(b, ctx, lists, Build(s))
<1> DEFINE identity == Identity(s)
           verified == ClaimsVerified(b, ctx, lists)
           composition == b.composition
           report == b.leakage_report
           attestation == b.leaf_generation_attestation
           items == Build(s).items
<1>1. /\ "DS1" \in verified => Ds1Basis(identity, ctx) = "issuer_verified"
      /\ "DS2" \in verified => Ds2Basis(identity, lists) = "issuer_verified"
      /\ "DS3" \in verified => Ds3Basis(identity, report, attestation, lists) = "issuer_verified"
  BY DEF ClaimsVerified, ClaimBases
<1>2. /\ identity.dataset_identity_root = Build(s).identity_root
      /\ identity.identity_blind_epoch = Build(s).epoch
  BY DEF Identity
<1> HIDE DEF verified, composition, report, attestation, items
<1>3. ASSUME "DS1" \in verified
      PROVE  /\ Build(s).identity_root = ctx.expected_dataset_identity_root
             /\ Build(s).epoch = ctx.expected_identity_blind_epoch
  <2> HIDE DEF identity
  <2> QED  BY <1>1, <1>2, <1>3, Ds1Holds DEF identity
<1>4. ASSUME "DS2" \in verified
      PROVE  /\ \A x \in Range(items) :
                   \E c \in Range(composition.cells) : CellsHeld(b, lists, x) = {CellKey(c)}
             /\ \A c \in Range(composition.cells) :
                   Cardinality({i \in DOMAIN items : CellsHeld(b, lists, items[i]) = {CellKey(c)}})
                      = c.item_count
  <2>1. PICK entries : entries = lists[identity.dataset_ref]
    OBVIOUS
  <2>2. /\ lists # ABSENT /\ identity.dataset_ref \in DOMAIN lists
        /\ ItemSetRoot(Leaves(entries)) = identity.item_set_root
        /\ \A c \in Range(composition.cells) : Cardinality(InCell(entries, CellKey(c))) = c.item_count
        /\ \A e \in Range(entries) : \E c \in Range(composition.cells) : CellKey(c) = CellKey(e)
    <3> HIDE DEF identity
    <3> QED  BY <1>1, <1>4, <2>1, Ds2Holds DEF identity, composition
  <2>3. IsInjective(Leaves(entries))
    <3> HIDE DEF identity
    <3> QED  BY <2>1, <2>2 DEF CheckLeafListInput, LeafListEntryOk, Require, OK, identity
  <2>4. identity.item_set_root = ItemSetRoot(Leaves(items))
    BY DEF Identity, items
  <2>5. entries \in Seq(ItemRecord \cup Leaf) /\ \A x \in ItemRecord \cup Leaf : x.leaf \in Int
    <3> HIDE DEF identity
    <3> QED  BY <2>1, <2>2, ListsAreRows
  <2>6. items \in Seq(ItemRecord) /\ \A x \in ItemRecord : x.leaf \in Int
    BY BuildFacts DEF items, ItemRecord
  <2>7. PICK m \in Nat : \E place : Matches(entries, items, m, place)
    BY <2>2, <2>3, <2>4, <2>5, <2>6, ItemsMatched
  <2>8. /\ \A x \in Range(items) : \E e \in Range(entries) : CellsIn(entries, x) = {CellKey(e)}
        /\ \A key : Cardinality({i \in DOMAIN items : CellsIn(entries, items[i]) = {key}})
                       = Cardinality(InCell(entries, key))
    BY <2>7, CellsMatched
  <2>9. \A x : CellsHeld(b, lists, x) = CellsIn(entries, x)
    <3>1. ItemSet(identity, lists) = entries
      <4> HIDE DEF identity
      <4> QED  BY <2>1, <2>2 DEF ItemSet, Supplied
    <3>2. b.unsigned_manifest.identity = identity
      OBVIOUS
    <3> HIDE DEF identity
    <3> QED  BY <3>1, <3>2 DEF CellsHeld, CellsIn
  <2>10. \A x \in Range(items) :
            \E c \in Range(composition.cells) : CellsHeld(b, lists, x) = {CellKey(c)}
    BY <2>2, <2>8, <2>9
  <2>11. \A c \in Range(composition.cells) :
            Cardinality({i \in DOMAIN items : CellsHeld(b, lists, items[i]) = {CellKey(c)}})
               = c.item_count
    BY <2>2, <2>8, <2>9
  <2> QED  BY <2>10, <2>11
<1>5. ASSUME "DS3" \in verified
      PROVE  /\ Ds3Findings(report) # {}
             /\ \A f \in Ds3Findings(report) :
                   /\ Committed(f.corpus_a_ref) \cap Committed(f.corpus_b_ref) = {}
                   /\ PairOf(f) \subseteq AttestedRefs(attestation)
  <2>1. /\ Ds3Findings(report) # {}
        /\ \A f \in Ds3Findings(report) :
              /\ PairOf(f) \subseteq CorpusRefs(identity, lists) \cap AttestedRefs(attestation)
              /\ Overlap(f, lists) = {}
    BY <1>1, <1>5, Ds3Holds
  <2>2. ASSUME NEW f \in Ds3Findings(report)
        PROVE  Committed(f.corpus_a_ref) \cap Committed(f.corpus_b_ref) = {}
    <3>1. f.corpus_a_ref \in CorpusRefs(identity, lists) /\ f.corpus_b_ref \in CorpusRefs(identity, lists)
      BY <2>1 DEF PairOf
    <3>2. /\ Committed(f.corpus_a_ref) \subseteq Range(Leaves(lists[f.corpus_a_ref]))
          /\ Committed(f.corpus_b_ref) \subseteq Range(Leaves(lists[f.corpus_b_ref]))
      BY <3>1, CommittedInList
    <3>3. Range(Leaves(lists[f.corpus_a_ref])) \cap Range(Leaves(lists[f.corpus_b_ref])) = {}
      BY <2>1 DEF Overlap
    <3> QED  BY <3>2, <3>3
  <2> QED  BY <2>1, <2>2
<1> QED  BY <1>3, <1>4, <1>5 DEF ClaimsHold, verified, composition, report, attestation, items

\* A verification of claims that hold.
LEMMA VerifiedClaims ==
  ASSUME DatasetInv, Verify
  PROVE  VerifiedClaimsHold'
<1>1. PICK b \in ArrivedBundles, p \in processes, s \in Sessions :
      \E ctx \in Contexts(s), lists \in ArrivedLists(s) :
         /\ VerifyDatasetRecord(b, ctx, p.record, lists, processes) = OK
         /\ accepted' = [bundle |-> b, context |-> ctx, process |-> p.record, lists |-> lists]
  BY DEF Verify
<1>2. PICK ctx \in Contexts(s), lists \in ArrivedLists(s) :
         /\ VerifyDatasetRecord(b, ctx, p.record, lists, processes) = OK
         /\ accepted' = [bundle |-> b, context |-> ctx, process |-> p.record, lists |-> lists]
  BY <1>1
<1> DEFINE process == p.record
           identity == Identity(s)
<1>3. PICK i \in issued : b = i.bundle /\ i.session = s
  BY <1>2, AcceptedWasIssued
<1>4. b.unsigned_manifest.identity = identity
  BY <1>3, IssuedFacts
<1>5. PICK n \in Nat : DOMAIN b.composition.cells = 1..n
  <2>1. PICK e \in plans, q \in processes : b = Bundle(s, q.record, e, i.account)
    BY <1>3 DEF DatasetInv
  <2>2. b.composition = Composition(s, i.account)
    BY <2>1, Zenon DEF Bundle
  <2>3. i.account.items \in Seq(ItemRecord)
    BY <1>3, BuildsAssumption DEF DatasetInv, Sessions
  <2> QED  BY <2>2, <2>3, CellsListed
<1>6. CheckBindings(b, ctx, process, lists) = OK /\ CheckClaims(b, ctx, lists) = OK
  BY <1>2, VerifiedStages
<1>7. CheckIdentity(identity, ctx) = OK /\ CheckDerivedRefs(identity, lists, b.leaf_generation_attestation) = OK
  BY <1>4, <1>6, BothPass DEF CheckBindings
<1>14. CheckLeafListInput(identity, lists) = OK
  BY <1>4, <1>6, BothPass DEF CheckBindings
<1>8. CheckLeafListDerivedRefs(identity, lists) = OK
  BY <1>7, BothPass DEF CheckDerivedRefs
<1>9. CheckDs2(identity, b.composition, lists) = OK
  BY <1>4, <1>6, BothPass DEF CheckClaims, CheckComposition
<1>10. ClaimsHold(b, ctx, lists, Build(s))
  BY <1>4, <1>5, <1>7, <1>8, <1>9, <1>14, ClaimsFollow
<1>11. ctx.expected_build_session_ref = s /\ world'.builds[s] = Build(s)
  BY ContextFacts DEF Verify, Build
<1>12. /\ accepted'.bundle = b /\ accepted'.context = ctx /\ accepted'.lists = lists
  BY <1>2
<1>13. VerifiedClaimsHold' <=>
          (accepted'.bundle # ABSENT =>
              ClaimsHold(accepted'.bundle, accepted'.context, accepted'.lists,
                         world'.builds[accepted'.context.expected_build_session_ref]))
  BY DEF VerifiedClaimsHold, ClaimsHold, Build
<1> QED  BY <1>10, <1>11, <1>12, <1>13

\* Every claim that verify_dataset_record_certificate reports as verified holds,
\* for builds of any size, whatever account of it was signed and whatever lists
\* of leaves and tagged items the caller passes: DS1, the identity is the pinned
\* one; DS2, the cells part the items of the build, each with as many as it
\* says of those that the caller's own list has in it; DS3, the corpora compared
\* are disjoint as committed to, and attested.
THEOREM ClaimsAreTrue == Spec => []VerifiedClaimsHold
<1>1. ASSUME accepted' = NothingVerified
      PROVE  VerifiedClaimsHold'
  BY <1>1 DEF VerifiedClaimsHold, NothingVerified
<1>2. Init => VerifiedClaimsHold
  BY DEF Init, VerifiedClaimsHold, NothingVerified
<1>3. DatasetInv /\ VerifiedClaimsHold /\ [Next]_vars => VerifiedClaimsHold'
  <2> SUFFICES ASSUME DatasetInv, VerifiedClaimsHold, [Next]_vars
               PROVE  VerifiedClaimsHold'
    OBVIOUS
  <2>1. CASE Tick \/ Register
    BY <1>1, <2>1 DEF Tick, Register
  <2>2. CASE Verify
    BY <2>2, VerifiedClaims
  <2>3. ASSUME NEW s \in Sessions, Observe(s) \/ FileProcess(s) \/ Issue(s)
        PROVE  VerifiedClaimsHold'
    BY <1>1, <2>3 DEF Observe, FileProcess, Issue
  <2>4. CASE UNCHANGED vars
    BY <2>4 DEF vars, VerifiedClaimsHold, Build
  <2> QED  BY <2>1, <2>2, <2>3, <2>4 DEF Next
<1> QED  BY <1>2, <1>3, DatasetInvariance, PTL DEF Spec
=============================================================================
