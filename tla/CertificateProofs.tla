-------------------------- MODULE CertificateProofs --------------------------
(***************************************************************************)
(* For every set of sessions, every plan and whatever arrives: only what   *)
(* the issuer signed and the client approved verifies, and the client      *)
(* approves only its own session; the status that is accepted is that of   *)
(* the certificate; and what the client approved does verify. The          *)
(* invariant behind it says what the documents the issuer and the client   *)
(* signed look like; the rest follows from what the two sequences of       *)
(* checks establish about any document.                                    *)
(***************************************************************************)
EXTENDS CertificateProtocol, CertificateLemmas
-----------------------------------------------------------------------------
(* Signatures *)

\* A signature that verifies is one of those that were made, with this key,
\* on this material, in its one canonical encoding.
LEMMA VerifiedSignatureWasMade ==
  ASSUME NEW key, NEW algorithm, NEW material, NEW sig,
         VerifySignature(key, algorithm, material, sig) = OK, Made(sig)
  PROVE  /\ sig.key = key /\ sig.material = material
         /\ \/ \E d \in prepared : sig = d.issuer_signature.signature
            \/ \E c \in cosigned : sig = c.certificate.co_attestation.signature
  BY SignatureFacts DEF Made
-----------------------------------------------------------------------------
(* The inductive invariant *)

\* The issuer signs nothing but its prepare responses.
PreparedByIssuer ==
    \A d \in prepared :
        \E s \in Sessions : \E printed \in Plan[s].printable :
            d = PrepareResponse(s, d.manifest.freshness_nonce, printed)

\* The client signs nothing but prepare responses for its session and nonce
\* whose ring names the key it signs with.
SignedByClient ==
    \A c \in cosigned :
        /\ ClosedMembers(c.certificate)
        /\ RequiresClient(c.certificate.claims)
        /\ Projection(c.certificate) \in prepared
        /\ c.certificate.co_attestation
              = CoAttestation(c.session, c.nonce, Projection(c.certificate))
        /\ c.certificate.manifest.freshness_nonce = c.nonce
        /\ c.certificate.subject.build_session_ref = c.session
        /\ c.certificate.manifest.key_ring_identifiers.client_key_ref = KeyRef(c.session)
        /\ c.certificate.manifest.key_ring_identifiers.client_signature_algorithm
              = Plan[c.session].client_key.algorithm

CertificateInv ==
    PreparedByIssuer /\ SignedByClient /\ AcceptedIsGenuine /\ AcceptedAsApproved

\* The same of every response the issuer has signed.
LEMMA PreparedFacts ==
  ASSUME PreparedByIssuer, NEW d \in prepared
  PROVE  /\ ClosedMembers(d) /\ BoundToManifest(d) /\ d.co_attestation = ABSENT
         /\ d.issuer_signature.signature
               = Signature(IssuerKey, IssuerMaterial(d.manifest), "canonical")
  BY ResponseFacts DEF PreparedByIssuer

\* What the client signs is the projection of what it approved.
LEMMA CoSignedMaterial ==
  ASSUME SignedByClient, NEW c \in cosigned
  PROVE  c.certificate.co_attestation.signature.material = ClientMaterial(Projection(c.certificate))
<1>1. c.certificate.co_attestation = CoAttestation(c.session, c.nonce, Projection(c.certificate))
  BY DEF SignedByClient
<1>2. c.certificate.co_attestation.signature
         = Signature(Plan[c.session].client_key, ClientMaterial(Projection(c.certificate)), "canonical")
  BY <1>1 DEF CoAttestation
<1> QED  BY <1>2, MaterialOfSignature

\* An issuer signature that verifies on a bound document makes it one of the
\* issuer's responses: the material of a co-attestation is another.
LEMMA IssuerSigned ==
  ASSUME PreparedByIssuer, SignedByClient, NEW c, NEW algorithm,
         ClosedMembers(c), BoundToManifest(c), Made(c.issuer_signature.signature),
         VerifySignature(IssuerKey, algorithm, IssuerMaterial(c.manifest),
                         c.issuer_signature.signature) = OK
  PROVE  Projection(c) \in prepared
<1> DEFINE sig == c.issuer_signature.signature
<1>1. /\ sig.material = IssuerMaterial(c.manifest)
      /\ \/ \E d \in prepared : sig = d.issuer_signature.signature
         \/ \E x \in cosigned : sig = x.certificate.co_attestation.signature
  BY VerifiedSignatureWasMade
<1>2. ASSUME NEW x \in cosigned, sig = x.certificate.co_attestation.signature
      PROVE  FALSE
  <2>1. sig.material = ClientMaterial(Projection(x.certificate))
    BY <1>2, CoSignedMaterial
  <2> QED  BY <1>1, <2>1 DEF IssuerMaterial, ClientMaterial
<1>3. PICK d \in prepared : sig = d.issuer_signature.signature
  BY <1>1, <1>2
<1>4. sig.material = IssuerMaterial(d.manifest)
  BY <1>3, PreparedFacts, MaterialOfSignature
<1>5. c.manifest = d.manifest
  BY <1>1, <1>4 DEF IssuerMaterial
<1>6. Projection(c) = d
  BY <1>3, <1>5, PreparedFacts, ManifestDeterminesDocument
<1> QED  BY <1>3, <1>6

\* Whatever verifies has the issuer's response under it, and the client's
\* approval for the same session and nonce when it prints a client claim.
LEMMA Accepting ==
  ASSUME PreparedByIssuer, SignedByClient, NEW d \in Arrived, NEW ctx, NEW policy,
         VerifyCertificate(d, IssuerKey, ctx, policy) = OK
  PROVE  /\ Projection(d) \in prepared
         /\ RequiresClient(d.claims) =>
               \E c \in cosigned : /\ c.certificate = d
                                   /\ c.session = ctx.build_session_ref
                                   /\ c.nonce = ctx.nonce
         /\ ~RequiresClient(d.claims) => d.co_attestation = ABSENT
<1>1. /\ SchemaValid(d) /\ BoundToManifest(d)
      /\ ContextPinned(d.manifest, d.issuer_signature, ctx)
      /\ VerifySignature(IssuerKey, d.issuer_signature.algorithm, IssuerMaterial(d.manifest),
                         d.issuer_signature.signature) = OK
      /\ VerifyCoAttestation(d, ctx) = OK
  BY VerifiedFacts
<1>2. ClosedMembers(d) /\ (~RequiresClient(d.claims) => d.co_attestation = ABSENT)
  BY <1>1 DEF SchemaValid
<1>3. /\ Made(d.issuer_signature.signature)
      /\ d.co_attestation # ABSENT => Made(d.co_attestation.signature)
  BY DEF Arrived
<1>4. Projection(d) \in prepared
  BY <1>1, <1>2, <1>3, IssuerSigned
<1>5. ASSUME RequiresClient(d.claims)
      PROVE  \E c \in cosigned : /\ c.certificate = d
                                 /\ c.session = ctx.build_session_ref
                                 /\ c.nonce = ctx.nonce
  <2> DEFINE co == d.co_attestation
  <2>1. /\ co # ABSENT
        /\ co.client_key_ref = d.manifest.key_ring_identifiers.client_key_ref
        /\ co.algorithm = d.manifest.key_ring_identifiers.client_signature_algorithm
        /\ co.nonce = d.manifest.freshness_nonce
        /\ co.signed_manifest_digest = ProjectionDigest(Projection(d))
        /\ VerifySignature(ctx.client_public_key, co.algorithm, ClientMaterial(Projection(d)),
                           co.signature) = OK
    BY <1>1, <1>5, CoAttestationFacts
  <2>2. /\ co.signature.material = ClientMaterial(Projection(d))
        /\ \/ \E x \in prepared : co.signature = x.issuer_signature.signature
           \/ \E c \in cosigned : co.signature = c.certificate.co_attestation.signature
    BY <1>3, <2>1, VerifiedSignatureWasMade
  <2>3. ASSUME NEW x \in prepared, co.signature = x.issuer_signature.signature
        PROVE  FALSE
    <3>1. co.signature.material = IssuerMaterial(x.manifest)
      BY <2>3, PreparedFacts, MaterialOfSignature
    <3> QED  BY <2>2, <3>1 DEF IssuerMaterial, ClientMaterial
  <2>4. PICK c \in cosigned : co.signature = c.certificate.co_attestation.signature
    BY <2>2, <2>3
  <2>5. c.certificate.co_attestation = CoAttestation(c.session, c.nonce, Projection(c.certificate))
    BY DEF SignedByClient
  <2>6. ClientMaterial(Projection(d)) = ClientMaterial(Projection(c.certificate))
    BY <2>2, <2>4, CoSignedMaterial
  <2>7. Projection(d) = Projection(c.certificate)
    BY <2>6 DEF ClientMaterial
  <2>8. d.manifest = c.certificate.manifest /\ d.subject = c.certificate.subject
    BY <1>2, <2>7, ProjectionKeeps DEF SignedByClient
  <2>9. /\ co.client_key_ref = KeyRef(c.session)
        /\ co.algorithm = Plan[c.session].client_key.algorithm
        /\ co.nonce = c.nonce
    BY <2>1, <2>8 DEF SignedByClient
  <2>10. co = CoAttestationOf(co)
    BY <1>2, <2>1 DEF ClosedMembers
  <2>11. co = c.certificate.co_attestation
    BY <2>1, <2>4, <2>5, <2>7, <2>9, <2>10 DEF CoAttestation, CoAttestationOf
  <2>12. c.certificate = d
    BY <1>2, <2>7, <2>11, ProjectionAndCoAttestation DEF SignedByClient
  <2>13. c.nonce = ctx.nonce /\ c.session = ctx.build_session_ref
    <3>1. /\ ctx.nonce = d.manifest.freshness_nonce
          /\ ctx.build_session_ref = d.manifest.subject.build_session_ref
      BY <1>1 DEF ContextPinned
    <3>2. d.manifest.subject = d.subject
      BY <1>1 DEF BoundToManifest
    <3> QED  BY <3>1, <3>2, <2>8 DEF SignedByClient
  <2> QED  BY <2>12, <2>13
<1> QED  BY <1>2, <1>4, <1>5

-----------------------------------------------------------------------------
(* The steps *)

\* Nothing is signed or accepted yet.
LEMMA InitCertificate == Init => CertificateInv
  BY DEF Init, CertificateInv, PreparedByIssuer, SignedByClient, AcceptedIsGenuine,
         AcceptedAsApproved, NothingAccepted

\* A new response is one of the issuer's, and disturbs nothing.
LEMMA PrepareStep ==
  ASSUME CertificateInv, NEW s \in Sessions, Prepare(s)
  PROVE  CertificateInv'
<1>1. PICK n \in 1..attempt[s], printed \in Plan[s].printable :
         prepared' = prepared \cup {PrepareResponse(s, n, printed)}
  BY DEF Prepare
<1>2. cosigned' = cosigned /\ accepted' = accepted
  BY DEF Prepare
<1>3. PreparedByIssuer'
  <2>1. PrepareResponse(s, n, printed).manifest.freshness_nonce = n
    BY ResponseFacts
  <2> QED  BY <1>1, <2>1 DEF CertificateInv, PreparedByIssuer
<1>4. SignedByClient'
  BY <1>1, <1>2 DEF CertificateInv, SignedByClient
<1>5. AcceptedIsGenuine' /\ AcceptedAsApproved'
  BY <1>1, <1>2 DEF CertificateInv, AcceptedIsGenuine, AcceptedAsApproved
<1> QED  BY <1>3, <1>4, <1>5 DEF CertificateInv

\* A response that passes the client's checks is the issuer's, for this
\* session and nonce.
LEMMA CoSignStep ==
  ASSUME CertificateInv, NEW s \in Sessions, CoSign(s)
  PROVE  CertificateInv'
<1> DEFINE nonce == attempt[s]
           Signed(d) == [d EXCEPT !.co_attestation = CoAttestation(s, nonce, d)]
<1>1. PICK d \in Arrived :
         /\ PrepareClientCoAttestation(d, ClientContext(s, nonce)) = OK
         /\ cosigned' = cosigned \cup
               {[session |-> s, nonce |-> nonce, certificate |-> Signed(d)]}
  BY DEF CoSign
<1>2. prepared' = prepared /\ accepted' = accepted
  BY DEF CoSign
<1>3. /\ ClosedMembers(d) /\ d.co_attestation = ABSENT /\ HasClaim(d.claims, "G1")
      /\ BoundToManifest(d)
      /\ \E g1 : ClientPins(d, g1) = ExpectedPins(ClientContext(s, nonce))
      /\ VerifySignature(ClientContext(s, nonce).issuer_public_key, d.issuer_signature.algorithm,
                         IssuerMaterial(d.manifest), d.issuer_signature.signature) = OK
  BY <1>1, ApprovedFacts
<1>4. Made(d.issuer_signature.signature)
  BY <1>1 DEF Arrived
<1>5. ClientContext(s, nonce).issuer_public_key = IssuerKey
  BY DEF ClientContext
<1>6. d \in prepared
  <2>1. Projection(d) \in prepared
    BY <1>3, <1>4, <1>5, IssuerSigned DEF CertificateInv
  <2> QED  BY <1>3, <2>1, ProjectionKeeps
<1>7. /\ d.subject.build_session_ref = s /\ d.manifest.freshness_nonce = nonce
      /\ d.manifest.key_ring_identifiers.client_key_ref = KeyRef(s)
      /\ d.manifest.key_ring_identifiers.client_signature_algorithm
            = Plan[s].client_key.algorithm
  BY <1>3, PinnedFacts
<1>8. RequiresClient(d.claims)
  BY <1>3 DEF HasClaim, RequiresClient
<1>9. /\ ClosedMembers(Signed(d)) /\ Projection(Signed(d)) = d
      /\ Signed(d).co_attestation = CoAttestation(s, nonce, d)
      /\ Signed(d).manifest = d.manifest /\ Signed(d).subject = d.subject
      /\ Signed(d).claims = d.claims
  BY <1>3, CoSignedDocument
<1> HIDE DEF Signed, nonce
<1>10. SignedByClient'
  <2> SUFFICES ASSUME NEW c \in cosigned'
               PROVE  /\ ClosedMembers(c.certificate)
                      /\ RequiresClient(c.certificate.claims)
                      /\ Projection(c.certificate) \in prepared
                      /\ c.certificate.co_attestation
                            = CoAttestation(c.session, c.nonce, Projection(c.certificate))
                      /\ c.certificate.manifest.freshness_nonce = c.nonce
                      /\ c.certificate.subject.build_session_ref = c.session
                      /\ c.certificate.manifest.key_ring_identifiers.client_key_ref
                            = KeyRef(c.session)
                      /\ c.certificate.manifest.key_ring_identifiers.client_signature_algorithm
                            = Plan[c.session].client_key.algorithm
    BY <1>2 DEF SignedByClient
  <2>1. CASE c \in cosigned
    BY <2>1 DEF CertificateInv, SignedByClient
  <2>2. CASE c = [session |-> s, nonce |-> nonce, certificate |-> Signed(d)]
    <3>1. c.session = s /\ c.nonce = nonce /\ c.certificate = Signed(d)
      BY <2>2
    <3> QED  BY <3>1, <1>6, <1>7, <1>8, <1>9
  <2> QED  BY <1>1, <2>1, <2>2
<1>11. PreparedByIssuer'
  BY <1>2 DEF CertificateInv, PreparedByIssuer
<1>12. AcceptedIsGenuine' /\ AcceptedAsApproved'
  BY <1>1, <1>2 DEF CertificateInv, AcceptedIsGenuine, AcceptedAsApproved
<1> QED  BY <1>10, <1>11, <1>12 DEF CertificateInv

\* Accepting needs what the lemma of that name shows.
LEMMA AcceptStep ==
  ASSUME CertificateInv, NEW d \in Arrived, NEW ctx, NEW policy, NEW ref, NEW base,
         VerifyCertificate(d, IssuerKey, ctx, policy) = OK,
         ctx.build_session_ref = base.build_session_ref, ctx.nonce = base.nonce,
         accepted' = [certificate |-> d, context |-> base, ref |-> ref],
         prepared' = prepared, cosigned' = cosigned
  PROVE  CertificateInv'
<1>1. /\ Projection(d) \in prepared
      /\ RequiresClient(d.claims) =>
            \E c \in cosigned : /\ c.certificate = d
                                /\ c.session = base.build_session_ref
                                /\ c.nonce = base.nonce
      /\ ~RequiresClient(d.claims) => d.co_attestation = ABSENT
  BY Accepting DEF CertificateInv
<1>2. accepted'.certificate = d /\ accepted'.context = base
  OBVIOUS
<1>3. PreparedByIssuer' /\ SignedByClient'
  BY DEF CertificateInv, PreparedByIssuer, SignedByClient
<1>4. AcceptedIsGenuine'
  BY <1>1, <1>2 DEF AcceptedIsGenuine
<1>5. AcceptedAsApproved'
  BY <1>1, <1>2 DEF AcceptedAsApproved
<1> QED  BY <1>3, <1>4, <1>5 DEF CertificateInv

\* verify_certificate.
LEMMA VerifyStep ==
  ASSUME CertificateInv, NEW s \in Sessions, Verify(s)
  PROVE  CertificateInv'
<1>1. PICK n \in 1..attempt[s], client \in BOOLEAN, d \in Arrived :
         /\ VerifyCertificate(d, IssuerKey, Context(s, n, client), Policy) = OK
         /\ accepted' = [certificate |-> d, context |-> Context(s, n, client), ref |-> 0]
  BY DEF Verify
<1>2. prepared' = prepared /\ cosigned' = cosigned
  BY DEF Verify
<1> QED  BY <1>1, <1>2, AcceptStep

\* verify_certificate_with_materials, with the bundle of its reference.
LEMMA VerifyDiscoveredStep ==
  ASSUME CertificateInv, NEW s \in Sessions, VerifyDiscovered(s)
  PROVE  CertificateInv'
<1> DEFINE Expected(n, client) ==
             [Context(s, n, client) EXCEPT !.client_public_key = ABSENT]
<1>1. PICK n \in 1..attempt[s], client \in BOOLEAN, ref \in DOMAIN certificates, d \in Arrived,
           response \in {retrieved, NothingRetrieved}, require_status \in BOOLEAN :
         /\ VerifyWithMaterials(Carrying(response, d),
                                Materials(ref, s, client),
                                Materials(ref, s, client).materials_digest, ref,
                                Expected(n, client), require_status) = OK
         /\ accepted' = [certificate |-> d, context |-> Expected(n, client),
                         ref |-> IF response.wrapped THEN ref ELSE 0]
  BY DEF VerifyDiscovered
<1>2. prepared' = prepared /\ cosigned' = cosigned
  BY DEF VerifyDiscovered
<1>3. PICK key :
         VerifyCertificate(Carrying(response, d).signed_certificate,
                           Materials(ref, s, client).issuer.public_key,
                           [Expected(n, client) EXCEPT !.client_public_key = key],
                           Materials(ref, s, client).policy) = OK
  BY <1>1, MaterialsVerify
<1>4. Materials(ref, s, client).issuer.public_key = IssuerKey
  BY DEF Materials
<1>5. /\ [Expected(n, client) EXCEPT !.client_public_key = key].build_session_ref
            = Expected(n, client).build_session_ref
      /\ [Expected(n, client) EXCEPT !.client_public_key = key].nonce = Expected(n, client).nonce
  BY DEF Context
<1>6. Carrying(response, d).signed_certificate = d
  BY DEF Carrying
<1> HIDE DEF Expected
<1> QED  BY <1>1, <1>2, <1>3, <1>4, <1>5, <1>6, AcceptStep

\* The other steps leave what was signed and accepted as it is.
LEMMA OtherStep ==
  ASSUME CertificateInv, prepared' = prepared, cosigned' = cosigned, accepted' = accepted
  PROVE  CertificateInv'
  BY DEF CertificateInv, PreparedByIssuer, SignedByClient, AcceptedIsGenuine, AcceptedAsApproved

\* The invariant holds in every reachable state.
THEOREM CertificateInvariance == Spec => []CertificateInv
<1>1. CertificateInv /\ [Next]_vars => CertificateInv'
  <2> SUFFICES ASSUME CertificateInv, [Next]_vars
               PROVE  CertificateInv'
    OBVIOUS
  <2>1. ASSUME NEW s \in Sessions, Retry(s)
        PROVE  CertificateInv'
    BY <2>1, OtherStep DEF Retry
  <2>2. ASSUME NEW s \in Sessions, Prepare(s)
        PROVE  CertificateInv'
    BY <2>2, PrepareStep
  <2>3. ASSUME NEW s \in Sessions, CoSign(s)
        PROVE  CertificateInv'
    BY <2>3, CoSignStep
  <2>4. ASSUME NEW s \in Sessions, Verify(s)
        PROVE  CertificateInv'
    BY <2>4, VerifyStep
  <2>5. ASSUME NEW s \in Sessions, VerifyDiscovered(s)
        PROVE  CertificateInv'
    BY <2>5, VerifyDiscoveredStep
  <2>6. CASE Finalize
    BY <2>6, OtherStep DEF Finalize
  <2>7. CASE Revoke
    BY <2>7, OtherStep DEF Revoke
  <2>8. CASE Retrieve
    BY <2>8, OtherStep DEF Retrieve
  <2>9. CASE UNCHANGED vars
    BY <2>9, OtherStep DEF vars
  <2> QED  BY <2>1, <2>2, <2>3, <2>4, <2>5, <2>6, <2>7, <2>8, <2>9 DEF Next
<1> QED  BY <1>1, InitCertificate, PTL DEF Spec

\* Only what the issuer signed and the client approved is accepted, member for
\* member, by verify_certificate and verify_certificate_with_materials.
THEOREM OnlyGenuineAccepted == Spec => []AcceptedIsGenuine
<1>1. CertificateInv => AcceptedIsGenuine
  BY DEF CertificateInv
<1> QED  BY <1>1, CertificateInvariance, PTL

\* A client claim is accepted only for the session and the nonce under which
\* the client approved it.
THEOREM OnlyApprovedAccepted == Spec => []AcceptedAsApproved
<1>1. CertificateInv => AcceptedAsApproved
  BY DEF CertificateInv
<1> QED  BY <1>1, CertificateInvariance, PTL

\* prepare_client_co_attestation lets the client sign nothing but the issuer's
\* responses to its own session and nonce.
THEOREM OnlyOwnSessionApproved == Spec => []ApprovedIsOwnSession
<1>1. CertificateInv => ApprovedIsOwnSession
  <2> SUFFICES ASSUME CertificateInv, NEW c \in cosigned
               PROVE  \E printed \in Plan[c.session].printable :
                         /\ Projection(c.certificate) = PrepareResponse(c.session, c.nonce, printed)
                         /\ Projection(c.certificate) \in prepared
    BY DEF ApprovedIsOwnSession
  <2> DEFINE d == Projection(c.certificate)
  <2>1. /\ ClosedMembers(c.certificate) /\ d \in prepared
        /\ c.certificate.manifest.freshness_nonce = c.nonce
        /\ c.certificate.subject.build_session_ref = c.session
    BY DEF CertificateInv, SignedByClient
  <2>2. d.manifest.freshness_nonce = c.nonce /\ d.subject.build_session_ref = c.session
    BY <2>1, ProjectionKeeps
  <2>a. PICK s \in Sessions : \E printed \in Plan[s].printable :
           d = PrepareResponse(s, d.manifest.freshness_nonce, printed)
    BY <2>1 DEF CertificateInv, PreparedByIssuer
  <2>3. PICK printed \in Plan[s].printable :
           d = PrepareResponse(s, d.manifest.freshness_nonce, printed)
    BY <2>a
  <2>4. s = c.session
    BY <2>2, <2>3, ResponseFacts
  <2> HIDE DEF d
  <2> QED  BY <2>1, <2>2, <2>3, <2>4 DEF d
<1> QED  BY <1>1, CertificateInvariance, PTL
-----------------------------------------------------------------------------
(* The status of a retrieval response *)

\* A certificate keeps its reference and its manifest for good; a response the
\* relying party holds describes the certificate of its reference.
RetrievedInv ==
    /\ \E entries : certificates \in Seq(entries)
    /\ \A i \in DOMAIN certificates :
          certificates[i].certificate.manifest_digest
             = ManifestDigest(certificates[i].certificate.manifest)
    /\ retrieved.wrapped =>
          /\ retrieved.certificate_ref \in DOMAIN certificates
          /\ retrieved.manifest_digest
                = certificates[retrieved.certificate_ref].certificate.manifest_digest

\* What the issuer finalizes has the digest of its own manifest.
LEMMA FinalizedDocument ==
  ASSUME PreparedByIssuer, NEW d \in prepared, NEW co
  PROVE  /\ d.manifest_digest = ManifestDigest(d.manifest)
         /\ [d EXCEPT !.co_attestation = co].manifest_digest
               = ManifestDigest([d EXCEPT !.co_attestation = co].manifest)
<1>1. d = EnvelopeOf(d) /\ d.manifest_digest = ManifestDigest(d.manifest)
  BY PreparedFacts DEF ClosedMembers, BoundToManifest
<1> QED  BY <1>1 DEF EnvelopeOf

\* One more certificate leaves the references of the others alone.
LEMMA FinalizeKeeps ==
  ASSUME RetrievedInv, NEW c, c.manifest_digest = ManifestDigest(c.manifest),
         certificates' = Append(certificates, [certificate |-> c, status |-> "active"]),
         retrieved' = retrieved
  PROVE  RetrievedInv'
<1> DEFINE entry == [certificate |-> c, status |-> "active"]
<1>1. PICK entries : certificates \in Seq(entries)
  BY DEF RetrievedInv
<1>2. entry.certificate = c
  OBVIOUS
<1> HIDE DEF entry
<1>3. /\ certificates' \in Seq(entries \cup {entry})
      /\ DOMAIN certificates' = DOMAIN certificates \cup {Len(certificates) + 1}
      /\ \A i \in DOMAIN certificates : certificates'[i] = certificates[i]
      /\ certificates'[Len(certificates) + 1] = entry
  <2>1. certificates \in Seq(entries \cup {entry}) /\ certificates' = Append(certificates, entry)
    BY <1>1 DEF entry
  <2> QED  BY <2>1
<1> QED  BY <1>2, <1>3 DEF RetrievedInv

\* Revoking changes no certificate's document.
LEMMA RevokeKeeps ==
  ASSUME RetrievedInv, Revoke
  PROVE  RetrievedInv'
<1>1. PICK k \in DOMAIN certificates : certificates' = [certificates EXCEPT ![k].status = "revoked"]
  BY DEF Revoke
<1>2. PICK entries : certificates \in Seq(entries)
  BY DEF RetrievedInv
<1> DEFINE entry == [certificates[k] EXCEPT !.status = "revoked"]
<1>3. entry.certificate = certificates[k].certificate
  OBVIOUS
<1>4. certificates' = [certificates EXCEPT ![k] = entry]
  BY <1>1
<1> HIDE DEF entry
<1>5. /\ certificates' \in Seq(entries \cup {entry})
      /\ DOMAIN certificates' = DOMAIN certificates
      /\ \A i \in DOMAIN certificates : certificates'[i].certificate = certificates[i].certificate
  BY <1>2, <1>3, <1>4
<1>6. retrieved' = retrieved
  BY DEF Revoke
<1> QED  BY <1>5, <1>6 DEF RetrievedInv

\* The response held always describes the certificate it refers to.
LEMMA RetrievedInvariance == Spec => []RetrievedInv
<1>1. Init => RetrievedInv
  BY DEF Init, RetrievedInv, NothingRetrieved
<1>2. RetrievedInv /\ PreparedByIssuer /\ [Next]_vars => RetrievedInv'
  <2> SUFFICES ASSUME RetrievedInv, PreparedByIssuer, [Next]_vars
               PROVE  RetrievedInv'
    OBVIOUS
  <2>1. CASE certificates' = certificates /\ retrieved' = retrieved
    BY <2>1 DEF RetrievedInv
  <2>2. CASE Finalize
    <3>1. retrieved' = retrieved
      BY <2>2 DEF Finalize
    <3>2. PICK d, co :
             /\ d \in prepared
             /\ certificates' \in {Append(certificates, [certificate |-> d, status |-> "active"]),
                                   Append(certificates,
                                          [certificate |-> [d EXCEPT !.co_attestation = co],
                                           status |-> "active"])}
      BY <2>2 DEF Finalize
    <3> QED  BY <3>1, <3>2, FinalizedDocument, FinalizeKeeps
  <2>3. CASE Revoke
    BY <2>3, RevokeKeeps
  <2>4. CASE Retrieve
    BY <2>4 DEF Retrieve, RetrievedInv
  <2> QED  BY <2>1, <2>2, <2>3, <2>4 DEF Next, vars, Retry, Prepare, CoSign, Verify, VerifyDiscovered
<1>3. CertificateInv => PreparedByIssuer
  BY DEF CertificateInv
<1> QED  BY <1>1, <1>2, <1>3, CertificateInvariance, PTL DEF Spec

\* A retrieval response is accepted only while it says "active", and with the
\* certificate whose status it reports: verify_certificate_with_materials
\* takes no other certificate in its place, whatever was revoked since.
THEOREM StatusOfAccepted == Spec => StatusIsOfAccepted
<1> DEFINE HoldsItsStatus ==
             accepted' # accepted /\ accepted'.ref # 0 =>
                /\ retrieved.certificate_status = "active"
                /\ retrieved.certificate_ref = accepted'.ref
                /\ accepted'.certificate.manifest
                      = certificates[accepted'.ref].certificate.manifest
<1>1. RetrievedInv /\ [Next]_vars => [HoldsItsStatus]_vars
  <2> SUFFICES ASSUME RetrievedInv, Next, accepted' # accepted, accepted'.ref # 0
               PROVE  /\ retrieved.certificate_status = "active"
                      /\ retrieved.certificate_ref = accepted'.ref
                      /\ accepted'.certificate.manifest
                            = certificates[accepted'.ref].certificate.manifest
    OBVIOUS
  <2>1. PICK s \in Sessions : VerifyDiscovered(s)
    <3>1. ASSUME NEW s \in Sessions, Verify(s)
          PROVE  FALSE
      BY <3>1 DEF Verify
    <3> QED  BY <3>1 DEF Next, Retry, Prepare, CoSign, Finalize, Revoke, Retrieve
  <2> DEFINE Expected(n, client) == [Context(s, n, client) EXCEPT !.client_public_key = ABSENT]
  <2>2. PICK n \in 1..attempt[s], client \in BOOLEAN, ref \in DOMAIN certificates, d \in Arrived,
             response \in {retrieved, NothingRetrieved}, require_status \in BOOLEAN :
           /\ VerifyWithMaterials(Carrying(response, d), Materials(ref, s, client),
                                  Materials(ref, s, client).materials_digest, ref,
                                  Expected(n, client), require_status) = OK
           /\ accepted' = [certificate |-> d, context |-> Expected(n, client),
                           ref |-> IF response.wrapped THEN ref ELSE 0]
    BY <2>1 DEF VerifyDiscovered
  <2> HIDE DEF Expected
  <2>3. response.wrapped /\ accepted'.ref = ref /\ accepted'.certificate = d
    BY <2>2
  <2>4. response = retrieved
    BY <2>3 DEF NothingRetrieved
  <2>5. /\ Carrying(response, d).wrapped = retrieved.wrapped
        /\ Carrying(response, d).certificate_status = retrieved.certificate_status
        /\ Carrying(response, d).certificate_ref = retrieved.certificate_ref
        /\ Carrying(response, d).manifest_digest = retrieved.manifest_digest
        /\ Carrying(response, d).signed_certificate = d
    BY <2>4 DEF Carrying
  <2>6. /\ retrieved.certificate_status = "active" /\ retrieved.certificate_ref = ref
        /\ retrieved.manifest_digest = d.manifest_digest
        /\ d.manifest_digest = ManifestDigest(d.manifest)
    BY <2>2, <2>3, <2>4, <2>5, WrappedFacts
  <2>7. ManifestDigest(d.manifest) = ManifestDigest(certificates[ref].certificate.manifest)
    BY <2>3, <2>4, <2>6 DEF RetrievedInv
  <2> QED  BY <2>3, <2>6, <2>7 DEF ManifestDigest
<1> QED  BY <1>1, RetrievedInvariance, PTL DEF Spec, StatusIsOfAccepted
-----------------------------------------------------------------------------
(* What the client approves verifies *)

\* The document the client signs, and what it knows of it.
Approved(c, d, s, nonce) ==
    /\ s \in Sessions
    /\ \E printed : d = PrepareResponse(s, nonce, printed)
    /\ PrepareClientCoAttestation(d, ClientContext(s, nonce)) = OK
    /\ CoAttestation(s, nonce, d) # ABSENT
    /\ c = [d EXCEPT !.co_attestation = CoAttestation(s, nonce, d)]

LEMMA ApprovedMembers ==
  ASSUME NEW c, NEW d, NEW s, NEW nonce, Approved(c, d, s, nonce)
  PROVE  /\ ClosedMembers(c) /\ Projection(c) = d /\ BoundToManifest(c)
         /\ RequiresClient(c.claims)
         /\ c.co_attestation = CoAttestation(s, nonce, d)
         /\ c.subject = d.subject /\ c.claims = d.claims /\ c.manifest = d.manifest
         /\ c.ledger_seal_projection = d.ledger_seal_projection
         /\ c.non_claims = d.non_claims /\ c.disclosure_profile = d.disclosure_profile
         /\ c.audit_report = d.audit_report /\ c.issuer_signature = d.issuer_signature
<1>1. /\ ClosedMembers(d) /\ d.co_attestation = ABSENT /\ HasClaim(d.claims, "G1")
      /\ BoundToManifest(d)
  BY ApprovedFacts DEF Approved
<1>2. c = [d EXCEPT !.co_attestation = CoAttestation(s, nonce, d)]
  BY DEF Approved
<1>3. /\ ClosedMembers(c) /\ Projection(c) = d /\ c.co_attestation = CoAttestation(s, nonce, d)
  BY <1>1, <1>2, CoSignedDocument
<1>4. d = EnvelopeOf(d)
  BY <1>1 DEF ClosedMembers
<1>5. /\ c.subject = d.subject /\ c.claims = d.claims /\ c.manifest = d.manifest
      /\ c.ledger_seal_projection = d.ledger_seal_projection
      /\ c.non_claims = d.non_claims /\ c.disclosure_profile = d.disclosure_profile
      /\ c.audit_report = d.audit_report /\ c.issuer_signature = d.issuer_signature
      /\ c.semantics = d.semantics /\ c.manifest_digest = d.manifest_digest
      /\ c.coverage = d.coverage
  BY <1>2, <1>4 DEF EnvelopeOf
<1>6. BoundToManifest(c)
  BY <1>1, <1>5 DEF BoundToManifest
<1>7. RequiresClient(c.claims)
  BY <1>1, <1>5 DEF HasClaim, RequiresClient
<1> QED  BY <1>3, <1>5, <1>6, <1>7

\* _validated_document asks for nothing the client did not check, but for the
\* policy.
LEMMA ApprovedIsValid ==
  ASSUME NEW c, NEW d, NEW s, NEW nonce, Approved(c, d, s, nonce)
  PROVE  ValidatedDocument(c, Policy) = OK
<1>1. /\ ClosedMembers(c) /\ BoundToManifest(c) /\ RequiresClient(c.claims)
      /\ c.co_attestation = CoAttestation(s, nonce, d)
      /\ c.subject = d.subject /\ c.claims = d.claims /\ c.manifest = d.manifest
      /\ c.ledger_seal_projection = d.ledger_seal_projection
      /\ c.non_claims = d.non_claims /\ c.disclosure_profile = d.disclosure_profile
      /\ c.audit_report = d.audit_report
  BY ApprovedMembers
<1>2. /\ CheckStreams(d.ledger_seal_projection) = OK
      /\ CheckProjections(d, AuditDigest(d.audit_report)) = OK
      /\ CheckClaimsAndAudit(d, AuditDigest(d.audit_report)) = OK
  BY ApprovedContent DEF Approved
<1>3. SchemaValid(c)
  BY <1>1 DEF SchemaValid, Approved
<1>4. CheckPolicy(c, Policy) = OK
  <2>1. \E g1 : ClientPins(d, g1) = ExpectedPins(ClientContext(s, nonce))
    BY ApprovedFacts DEF Approved
  <2>2. d.manifest.compiler_register_versions = Registers
    BY <2>1, PinnedRing
  <2>3. PICK printed : d = PrepareResponse(s, nonce, printed)
    BY DEF Approved
  <2> QED  BY <1>1, <1>2, <2>2, <2>3, ResponseMeetsPolicy
<1>5. /\ CheckStreams(c.ledger_seal_projection) = OK
      /\ CheckProjections(c, AuditDigest(c.audit_report)) = OK
      /\ CheckClaimsAndAudit(c, AuditDigest(c.audit_report)) = OK
  BY <1>1, <1>2, ContentChecksKept
<1>6. /\ Require(c.audit_report.build_session_ref = c.subject.build_session_ref,
                 "SESSION_REF") = OK
      /\ Require(c.audit_report.ledger_seal_statement_digest
                    = c.ledger_seal_projection.seal_statement_digest, "SEAL_DIGEST") = OK
  <2>1. CheckAuditBindings(c) = OK
    BY <1>5, BothPass DEF CheckClaimsAndAudit
  <2> QED  BY <2>1, BothPass DEF CheckAuditBindings
<1>7. /\ Require(SchemaValid(c), "SCHEMA") = OK
      /\ Require(c.manifest_digest = ManifestDigest(c.manifest), "MANIFEST_DIGEST") = OK
      /\ Require(c.coverage = Coverage, "COVERAGE") = OK
      /\ Require(c.semantics = c.manifest.compiler_register_versions.semantics, "SEMANTICS") = OK
      /\ Require(c.disclosure_profile = c.manifest.disclosure_profile, "DISCLOSURE_PROFILE") = OK
  BY <1>1, <1>3 DEF BoundToManifest, Require
<1> QED  BY <1>4, <1>5, <1>6, <1>7, BothPass DEF ValidatedDocument

\* The relying party that pins the session, the nonce and the client finds
\* them in the document.
LEMMA ApprovedInContext ==
  ASSUME NEW c, NEW d, NEW s, NEW nonce, Approved(c, d, s, nonce)
  PROVE  CheckContext(c, Context(s, nonce, TRUE)) = OK
<1>1. /\ BoundToManifest(c) /\ c.subject = d.subject /\ c.manifest = d.manifest
      /\ c.claims = d.claims /\ c.issuer_signature = d.issuer_signature
  BY ApprovedMembers
<1>2. PICK g1 : ClientPins(d, g1) = ExpectedPins(ClientContext(s, nonce))
  BY ApprovedFacts DEF Approved
<1>3. PICK ctx : ctx = Context(s, nonce, TRUE)
  OBVIOUS
<1>4. PICK ring : ring = c.manifest.key_ring_identifiers
  OBVIOUS
<1>5. /\ c.subject.build_session_ref = s /\ c.subject.project_ref = Plan[s].project_ref
      /\ c.manifest.freshness_nonce = nonce
      /\ ring.issuer_key_ref = "ikr" /\ ring.trust_ring_ref = Plan[s].trust_ring_ref
      /\ ring.issuer_signature_algorithm = IssuerKey.algorithm
      /\ ring.client_key_ref = KeyRef(s)
      /\ ring.client_signature_algorithm = Plan[s].client_key.algorithm
  BY <1>1, <1>2, <1>4, PinnedFacts, PinnedRing
<1>6. /\ ctx.nonce = nonce /\ ctx.build_session_ref = s /\ ctx.project_ref = Plan[s].project_ref
      /\ ctx.issuer_key_ref = "ikr" /\ ctx.issuer_algorithm = IssuerKey.algorithm
      /\ ctx.trust_ring_ref = Plan[s].trust_ring_ref
      /\ ctx.client_key_ref = KeyRef(s) /\ ctx.client_algorithm = Plan[s].client_key.algorithm
      /\ ctx.client_public_key = Plan[s].client_key
  BY <1>3 DEF Context
<1>7. /\ ring.client_key_ref # ABSENT /\ ring.client_signature_algorithm # ABSENT
      /\ CanDerive(Plan[s].client_key.algorithm, Plan[s].client_key)
  <2>1. /\ ClientContext(s, nonce).pins.client_algorithm = Plan[s].client_key.algorithm
        /\ ClientContext(s, nonce).client_public_key = Plan[s].client_key
    BY DEF ClientContext, Pins
  <2> QED  BY <1>1, <1>4, <2>1, ApprovedContent DEF Approved
<1>8. c.manifest.subject = c.subject /\ c.manifest.claims = c.claims
  BY <1>1 DEF BoundToManifest
<1>9. ContextPinned(c.manifest, c.issuer_signature, ctx)
  BY <1>1, <1>4, <1>5, <1>6, <1>8 DEF ContextPinned, RingPinned, BoundToManifest
<1>10. \A i \in DOMAIN c.manifest.claims :
          c.manifest.claims[i].claim_id = "G1" =>
             /\ c.manifest.claims[i].params.build_session_ref = c.manifest.subject.build_session_ref
             /\ c.manifest.claims[i].params.client_key_ref = ring.client_key_ref
  <2>1. PICK printed : d = PrepareResponse(s, nonce, printed)
    BY DEF Approved
  <2> QED  BY <1>1, <1>5, <1>8, <2>1, ResponseClaims
<1>11. ctx.project_ref # ABSENT /\ ctx.client_public_key # ABSENT
  BY <1>6, <1>7, PlanAssumption DEF Approved, CanDerive
<1>12. DeriveClientKeyRef(ctx.project_ref, ring.client_signature_algorithm, ctx.client_public_key)
          = ring.client_key_ref
  BY <1>5, <1>6 DEF KeyRef
<1>13. CheckClientRingContext(c.manifest, ctx) = OK
  BY <1>4, <1>5, <1>6, <1>7, <1>10, <1>11, <1>12 DEF CheckClientRingContext, &&, Require
<1>14. CheckContext(c, ctx) = OK
  BY <1>4, <1>7, <1>9, <1>11, <1>13 DEF CheckContext, &&, Require
<1> QED  BY <1>3, <1>14

\* The client's own signature verifies on the document it was made for.
LEMMA ApprovedIsCoAttested ==
  ASSUME NEW c, NEW d, NEW s, NEW nonce, Approved(c, d, s, nonce)
  PROVE  VerifyCoAttestation(c, Context(s, nonce, TRUE)) = OK
<1>1. /\ Projection(c) = d /\ RequiresClient(c.claims) /\ c.manifest = d.manifest
      /\ c.co_attestation = CoAttestation(s, nonce, d) /\ c.co_attestation # ABSENT
  BY ApprovedMembers DEF Approved
<1>2. PICK g1 : ClientPins(d, g1) = ExpectedPins(ClientContext(s, nonce))
  BY ApprovedFacts DEF Approved
<1>3. /\ c.manifest.freshness_nonce = nonce
      /\ c.manifest.key_ring_identifiers.client_key_ref = KeyRef(s)
      /\ c.manifest.key_ring_identifiers.client_signature_algorithm
            = Plan[s].client_key.algorithm
  BY <1>1, <1>2, PinnedFacts
<1>4. PICK ctx : ctx = Context(s, nonce, TRUE)
  OBVIOUS
<1>5. /\ ctx.nonce = nonce /\ ctx.client_algorithm = Plan[s].client_key.algorithm
      /\ ctx.client_public_key = Plan[s].client_key
  BY <1>4 DEF Context
<1>6. PICK co : co = c.co_attestation
  OBVIOUS
<1>7. /\ co.client_key_ref = KeyRef(s) /\ co.algorithm = Plan[s].client_key.algorithm
      /\ co.nonce = nonce /\ co.signed_manifest_digest = ProjectionDigest(d)
      /\ co.signature = Signature(Plan[s].client_key, ClientMaterial(d), "canonical")
  BY <1>1, <1>6 DEF CoAttestation
<1>8. /\ co.signature.form = "canonical" /\ co.signature.key = Plan[s].client_key
      /\ co.signature.material = ClientMaterial(d)
  BY <1>7 DEF Signature
<1>9. /\ Plan[s].client_key # ABSENT /\ co.algorithm \in Algorithms
      /\ Plan[s].client_key.algorithm = co.algorithm
  <2>1. /\ ClientContext(s, nonce).pins.client_algorithm = Plan[s].client_key.algorithm
        /\ ClientContext(s, nonce).client_public_key = Plan[s].client_key
    BY DEF ClientContext, Pins
  <2> QED  BY <1>7, <2>1, ApprovedContent DEF Approved, CanDerive
<1>10. VerifySignature(ctx.client_public_key, co.algorithm, ClientMaterial(Projection(c)),
                       co.signature) = OK
  BY <1>1, <1>5, <1>8, <1>9 DEF VerifySignature, &&, Require
<1>11. VerifyCoAttestation(c, ctx) = OK
  BY <1>1, <1>3, <1>5, <1>6, <1>7, <1>8, <1>9, <1>10 DEF VerifyCoAttestation, &&, Require
<1> QED  BY <1>4, <1>11

\* What passes prepare_client_co_attestation passes verify_certificate.
LEMMA ApprovedDocumentVerifies ==
  ASSUME NEW c, NEW d, NEW s, NEW nonce, Approved(c, d, s, nonce)
  PROVE  VerifyCertificate(c, IssuerKey, Context(s, nonce, TRUE), Policy) = OK
<1>1. /\ BoundToManifest(c) /\ c.issuer_signature = d.issuer_signature /\ c.manifest = d.manifest
  BY ApprovedMembers
<1>2. VerifySignature(IssuerKey, c.issuer_signature.algorithm, IssuerMaterial(c.manifest),
                      c.issuer_signature.signature) = OK
  <2>1. ClientContext(s, nonce).issuer_public_key = IssuerKey
    BY DEF ClientContext
  <2> QED  BY <1>1, <2>1, ApprovedFacts DEF Approved
<1>3. Require(c.issuer_signature.signed_payload = "unsigned_manifest", "SIGNED_PAYLOAD") = OK
  BY <1>1 DEF BoundToManifest, Require
<1>4. /\ ValidatedDocument(c, Policy) = OK
      /\ CheckContext(c, Context(s, nonce, TRUE)) = OK
      /\ VerifyCoAttestation(c, Context(s, nonce, TRUE)) = OK
  BY ApprovedIsValid, ApprovedInContext, ApprovedIsCoAttested
<1> QED  BY <1>2, <1>3, <1>4 DEF VerifyCertificate, &&

\* The nonces in use are within the bound.
AttemptInv == attempt \in [Sessions -> Nat \ {0}] /\ \A s \in Sessions : attempt[s] <= MaxAttempts[s]

LEMMA CoSignVerifies ==
  ASSUME CertificateInv, AttemptInv, ApprovedVerifies, NEW s \in Sessions, CoSign(s)
  PROVE  ApprovedVerifies'
<1>1. PICK nonce : nonce = attempt[s]
  OBVIOUS
<1>2. PICK d \in Arrived :
         /\ PrepareClientCoAttestation(d, ClientContext(s, nonce)) = OK
         /\ cosigned' = cosigned \cup
               {[session |-> s, nonce |-> nonce,
                 certificate |-> [d EXCEPT !.co_attestation = CoAttestation(s, nonce, d)]]}
  BY <1>1 DEF CoSign
<1>3. /\ ClosedMembers(d) /\ d.co_attestation = ABSENT /\ BoundToManifest(d)
      /\ d.subject.build_session_ref = s /\ d.manifest.freshness_nonce = nonce
      /\ VerifySignature(IssuerKey, d.issuer_signature.algorithm,
                         IssuerMaterial(d.manifest), d.issuer_signature.signature) = OK
  <2>1. ClientContext(s, nonce).issuer_public_key = IssuerKey
    BY DEF ClientContext
  <2>2. /\ ClosedMembers(d) /\ d.co_attestation = ABSENT /\ BoundToManifest(d)
        /\ \E g1 : ClientPins(d, g1) = ExpectedPins(ClientContext(s, nonce))
        /\ VerifySignature(ClientContext(s, nonce).issuer_public_key, d.issuer_signature.algorithm,
                           IssuerMaterial(d.manifest), d.issuer_signature.signature) = OK
    BY <1>2, ApprovedFacts
  <2>3. d.subject.build_session_ref = s /\ d.manifest.freshness_nonce = nonce
    BY <2>2, PinnedFacts
  <2> QED  BY <2>1, <2>2, <2>3
<1>4. d \in prepared
  <2>1. Made(d.issuer_signature.signature)
    BY DEF Arrived
  <2>2. Projection(d) \in prepared
    BY <1>3, <2>1, IssuerSigned DEF CertificateInv
  <2> QED  BY <1>3, <2>2, ProjectionKeeps
<1>5. PICK s2 \in Sessions : \E printed \in Plan[s2].printable :
         d = PrepareResponse(s2, d.manifest.freshness_nonce, printed)
  BY <1>4 DEF CertificateInv, PreparedByIssuer
<1>6. PICK printed \in Plan[s2].printable : d = PrepareResponse(s2, nonce, printed)
  BY <1>3, <1>5
<1>7. s2 = s
  BY <1>3, <1>6, ResponseFacts
<1>8. nonce \in 1..MaxAttempts[s]
  BY <1>1, AttemptsAssumption DEF AttemptInv
<1>9. PICK c : c = [d EXCEPT !.co_attestation = CoAttestation(s, nonce, d)]
  OBVIOUS
<1>10. Approved(c, d, s, nonce)
  BY <1>2, <1>6, <1>7, <1>8, <1>9, CoAttestationAssumption DEF Approved
<1>11. VerifyCertificate(c, IssuerKey, Context(s, nonce, TRUE), Policy) = OK
  BY <1>10, ApprovedDocumentVerifies
<1>12. cosigned' = cosigned \cup {[session |-> s, nonce |-> nonce, certificate |-> c]}
  BY <1>2, <1>9
<1> SUFFICES ASSUME NEW x \in cosigned'
             PROVE  VerifyCertificate(x.certificate, IssuerKey, Context(x.session, x.nonce, TRUE), Policy) = OK
  BY DEF ApprovedVerifies
<1>13. CASE x \in cosigned
  BY <1>13 DEF ApprovedVerifies
<1>14. CASE x = [session |-> s, nonce |-> nonce, certificate |-> c]
  <2>1. x.session = s /\ x.nonce = nonce /\ x.certificate = c
    BY <1>14
  <2> QED  BY <1>11, <2>1
<1> QED  BY <1>12, <1>13, <1>14

\* The two sides do not disagree: what prepare_client_co_attestation lets the
\* client sign, verify_certificate accepts from then on, for the session and
\* the nonce of the client.
THEOREM ApprovedVerify == Spec => []ApprovedVerifies
<1>1. Init => AttemptInv /\ ApprovedVerifies
  BY AttemptsAssumption DEF Init, AttemptInv, ApprovedVerifies
<1>2. CertificateInv /\ AttemptInv /\ ApprovedVerifies /\ [Next]_vars => (AttemptInv /\ ApprovedVerifies)'
  <2> SUFFICES ASSUME CertificateInv, AttemptInv, ApprovedVerifies, [Next]_vars
               PROVE  AttemptInv' /\ ApprovedVerifies'
    OBVIOUS
  <2>1. ASSUME NEW s \in Sessions, CoSign(s)
        PROVE  AttemptInv' /\ ApprovedVerifies'
    BY <2>1, CoSignVerifies DEF CoSign, AttemptInv
  <2>2. ASSUME NEW s \in Sessions, Retry(s)
        PROVE  AttemptInv' /\ ApprovedVerifies'
    <3>1. attempt[s] \in Nat \ {0} /\ MaxAttempts[s] \in Nat /\ attempt[s] < MaxAttempts[s]
      BY <2>2, AttemptsAssumption DEF Retry, AttemptInv
    <3>2. attempt' = [attempt EXCEPT ![s] = attempt[s] + 1]
      BY <2>2 DEF Retry
    <3>3. AttemptInv'
      BY <3>1, <3>2 DEF AttemptInv
    <3> QED  BY <2>2, <3>3 DEF Retry, ApprovedVerifies
  <2>3. CASE UNCHANGED <<attempt, cosigned>>
    BY <2>3 DEF AttemptInv, ApprovedVerifies
  <2> QED
    BY <2>1, <2>2, <2>3
    DEF Next, vars, Prepare, Verify, VerifyDiscovered, Finalize, Revoke, Retrieve
<1> QED  BY <1>1, <1>2, CertificateInvariance, PTL DEF Spec
=============================================================================
