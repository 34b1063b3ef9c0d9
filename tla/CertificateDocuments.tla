------------------------ MODULE CertificateDocuments ------------------------
(***************************************************************************)
(* The documents around an Agent Certificate v0: what the issuer signs for *)
(* a build session, what the client pins and signs, and what the relying   *)
(* party expects. The issuer is not part of the repository; its documents  *)
(* are what the checks of the repository accept.                           *)
(***************************************************************************)
EXTENDS CertificateV0

CONSTANTS Sessions,   \* build_session_ref
          Plan,       \* per session: project_ref, seal_ref, evidence, client_key,
                      \* trust_ring_ref, privacy_mode, printable claim lists
          IssuerKey,  \* the issuer's public key
          Registers,  \* the pinned compiler register versions
          Versions    \* claim id -> <<verifier_id, verifier_version>>

\* A session names its project, and the policy a verifier for each claim.
ASSUME PlanAssumption == \A s \in Sessions : Plan[s].project_ref # ABSENT
ASSUME VersionsAssumption ==
    \A id \in {"B1", "G1"} : id \in DOMAIN Versions /\ Versions[id] = <<Versions[id][1], Versions[id][2]>>

KeyRef(s) == DeriveClientKeyRef(Plan[s].project_ref, Plan[s].client_key.algorithm,
                                Plan[s].client_key)
Verifier(id) == [verifier_id |-> Versions[id][1], verifier_version |-> Versions[id][2],
                 result |-> "PASS"]
Policy == [compiler_register_versions |-> Registers, verifier_bindings |-> Versions]
-----------------------------------------------------------------------------
(* What the issuer signs *)

Subject(s) == [project_ref |-> Plan[s].project_ref, build_session_ref |-> s,
               session_commitment_digest |-> [session_commitment |-> s]]

Seal(s) ==
    LET open == [seal_ref |-> Plan[s].seal_ref, chain_schema_version |-> ChainSchemaVersion,
                 build_session_ref |-> s, expected_stream_projection |-> [sealed |-> TRUE],
                 seal_statement_digest |-> ABSENT]
    IN  [open EXCEPT !.seal_statement_digest = SealDigest(open)]

ClientRoot(s) == [client_evidence_root |-> Plan[s].evidence]

ClaimParams(s, id) ==
    IF id = "G1"
    THEN [manifest_root_digest |-> ClientRoot(s), commitment_scheme |-> "blinded",
          client_attestor_version |-> "attestor", build_session_ref |-> s,
          client_key_ref |-> KeyRef(s)]
    ELSE [seal_ref |-> Plan[s].seal_ref, seal_statement_digest |-> Seal(s).seal_statement_digest]

\* A claim as it is before the audit report that it refers to exists.
DraftClaim(s, id) ==
    LET params == ClaimParams(s, id)
    IN  [claim_id |-> id, tier |-> IF id = "G1" THEN 1 ELSE 3, params |-> params,
         verifier |-> Verifier(id),
         evidence_refs |->
            IF id = "G1" THEN <<[evidence_kind |-> "client_commitment_digest",
                                 evidence_digest |-> params.manifest_root_digest]>>
            ELSE <<[evidence_kind |-> "seal_statement",
                    evidence_digest |-> params.seal_statement_digest]>>,
         rendered_text |-> IF id = "G1" THEN RenderG1(params) ELSE RenderB1(params)]

AuditReport(s, printed) ==
    LET Row(id) ==
            IF \E i \in DOMAIN printed : printed[i] = id
            THEN [claim_id |-> id, abstention_code |-> ABSENT, verifier |-> Verifier(id),
                  evidence_basis |-> IF id = "B1" THEN "issuer_verified" ELSE "client_declared",
                  claim_material_digest |-> ClaimMaterialDigest(ClaimMaterial(DraftClaim(s, id)))]
            ELSE [claim_id |-> id, abstention_code |-> AbstentionCode(id), verifier |-> ABSENT,
                  evidence_basis |-> "abstained", claim_material_digest |-> ABSENT]
    IN  [build_session_ref |-> s,
         ledger_seal_statement_digest |-> Seal(s).seal_statement_digest,
         compiler_register_versions |-> Registers,
         client_evidence_manifest_root |->
            IF \E i \in DOMAIN printed : printed[i] = "G1" THEN ClientRoot(s) ELSE ABSENT,
         claim_support_rows |-> [i \in DOMAIN AuditRows |-> Row(AuditRows[i])]]

\* The prepare response for a nonce, printing the claims whose verifiers
\* passed. The ring names the client only when its signature is asked for.
PrepareResponse(s, nonce, printed) ==
    LET audit == AuditReport(s, printed)
        claims == [i \in DOMAIN printed |->
                     LET draft == DraftClaim(s, printed[i])
                     IN  [draft EXCEPT !.evidence_refs = <<AuditRef(AuditDigest(audit))>> \o @]]
        client == RequiresClient(claims)
        ring == [issuer_key_ref |-> "ikr", issuer_signature_algorithm |-> IssuerKey.algorithm,
                 trust_ring_ref |-> Plan[s].trust_ring_ref,
                 client_key_ref |-> IF client THEN KeyRef(s) ELSE ABSENT,
                 client_signature_algorithm |->
                    IF client THEN Plan[s].client_key.algorithm ELSE ABSENT]
        manifest == [subject |-> Subject(s), seal |-> Seal(s), claims |-> claims,
                     tiers |-> Tiers(claims),
                     evidence_digests |-> ExpectedEvidence(claims, AuditDigest(audit)),
                     non_claims |-> NonClaims, privacy_mode |-> Plan[s].privacy_mode,
                     sdk_identity |-> "sdk", compiler_register_versions |-> Registers,
                     key_ring_identifiers |-> ring, freshness_nonce |-> nonce,
                     disclosure_profile |-> "b_v0"]
    IN  [subject |-> Subject(s), semantics |-> Registers.semantics, disclosure_profile |-> "b_v0",
         ledger_seal_projection |-> Seal(s), claims |-> claims, non_claims |-> NonClaims,
         manifest_digest |-> ManifestDigest(manifest), coverage |-> Coverage,
         manifest |-> manifest,
         issuer_signature |->
            [issuer_key_ref |-> "ikr", algorithm |-> IssuerKey.algorithm,
             trust_ring_ref |-> Plan[s].trust_ring_ref, signed_payload |-> "unsigned_manifest",
             signature |-> Signature(IssuerKey, IssuerMaterial(manifest), "canonical")],
         co_attestation |-> ABSENT, audit_report |-> audit]
-----------------------------------------------------------------------------
(* What the client pins and signs *)

Pins(s, nonce) ==
    [project_ref |-> Plan[s].project_ref, build_session_ref |-> s,
     session_commitment_digest |-> [session_commitment |-> s], nonce |-> nonce,
     privacy_mode |-> Plan[s].privacy_mode, sdk_identity |-> "sdk",
     disclosure_profile |-> "b_v0", issuer_key_ref |-> "ikr",
     trust_ring_ref |-> Plan[s].trust_ring_ref, issuer_algorithm |-> IssuerKey.algorithm,
     compiler_register_versions |-> Registers, g1_verifier |-> Versions["G1"],
     manifest_root_digest |-> ClientRoot(s), commitment_scheme |-> "blinded",
     client_attestor_version |-> "attestor",
     client_algorithm |-> Plan[s].client_key.algorithm, client_key_ref |-> ABSENT]

ClientContext(s, nonce) ==
    [pins |-> Pins(s, nonce), client_public_key |-> Plan[s].client_key,
     issuer_public_key |-> IssuerKey]

\* ClientCertificateProjection, signed: the co-attestation the client returns.
CoAttestation(s, nonce, projection) ==
    [client_key_ref |-> KeyRef(s), algorithm |-> Plan[s].client_key.algorithm, nonce |-> nonce,
     signed_manifest_digest |-> ProjectionDigest(projection),
     signature |-> Signature(Plan[s].client_key, ClientMaterial(projection), "canonical")]

\* The certificate that the issuer finalizes, with the client's co-attestation
\* when a claim asks for one.
Finalized(s, nonce, printed) ==
    LET response == PrepareResponse(s, nonce, printed)
    IN  IF RequiresClient(response.claims)
        THEN [response EXCEPT !.co_attestation = CoAttestation(s, nonce, response)]
        ELSE response

\* The claims a certificate may print, each of them once.
ClaimLists == {<<"B1">>, <<"G1">>, <<"B1", "G1">>, <<"G1", "B1">>}
-----------------------------------------------------------------------------
(* What the relying party expects *)

\* VerificationContext for a session and nonce, with or without a client.
Context(s, nonce, client) ==
    [nonce |-> nonce, build_session_ref |-> s, project_ref |-> Plan[s].project_ref,
     issuer_key_ref |-> "ikr", issuer_algorithm |-> IssuerKey.algorithm,
     trust_ring_ref |-> Plan[s].trust_ring_ref,
     client_key_ref |-> IF client THEN KeyRef(s) ELSE ABSENT,
     client_algorithm |-> IF client THEN Plan[s].client_key.algorithm ELSE ABSENT,
     client_public_key |-> IF client THEN Plan[s].client_key ELSE ABSENT]

KeyMaterial(key_ref, key) ==
    [key_ref |-> key_ref, algorithm |-> key.algorithm, public_key |-> key,
     public_key_digest |-> [spki |-> key]]

\* The issuer and the clients have keys of the supported algorithms, and what
\* is derived from them or digested is there and is not zero.
ASSUME KeysAssumption ==
    /\ IssuerKey.algorithm \in Algorithms /\ ABSENT \notin Algorithms
    /\ \A s \in Sessions :
          /\ Plan[s].client_key # ABSENT /\ Plan[s].client_key.algorithm \in Algorithms
          /\ KeyRef(s) # ABSENT /\ KeyMaterial(KeyRef(s), Plan[s].client_key) # ABSENT
          /\ ClientRoot(s) # ZERO_DIGEST

\* The discovery bundle published for a certificate reference.
Materials(ref, s, client) ==
    LET open == [certificate_ref |-> ref,
                 issuer |-> [key_ref |-> "ikr", algorithm |-> IssuerKey.algorithm,
                             trust_ring_ref |-> Plan[s].trust_ring_ref, public_key |-> IssuerKey,
                             public_key_digest |-> [spki |-> IssuerKey]],
                 client |-> IF client THEN KeyMaterial(KeyRef(s), Plan[s].client_key) ELSE ABSENT,
                 policy |-> Policy, materials_digest |-> ABSENT]
    IN  [open EXCEPT !.materials_digest = MaterialsDigest(open)]
=============================================================================
