------------------------ MODULE CertificateProtocol ------------------------
(***************************************************************************)
(* The life of an Agent Certificate v0 around the checks of CertificateV0: *)
(* a client opens a build session under a freshness nonce, the issuer      *)
(* signs a prepare response, the client approves and co-signs it, the      *)
(* issuer finalizes and may revoke, and a relying party retrieves and      *)
(* verifies. Messages are lost, duplicated and delayed: what was sent once *)
(* may be read at any later time, or never. What arrives need not be what  *)
(* was sent: Arrives(wire) is any set of documents, as long as their       *)
(* signatures are ones that were made.                                     *)
(*                                                                         *)
(* The issuer is not part of the repository.                               *)
(***************************************************************************)
EXTENDS CertificateDocuments, FiniteSets

CONSTANTS MaxAttempts,      \* bound, per session: nonces its client uses
          MaxPrepared,      \* bound: prepare responses of the issuer
          MaxCertificates,  \* bound: finalized certificates
          Arrives(_)        \* documents that may arrive when a set was sent

\* A client makes at least one attempt.
ASSUME AttemptsAssumption == MaxAttempts \in [Sessions -> Nat \ {0}]

\* A co-attestation is a document, not the absence of one.
ASSUME CoAttestationAssumption ==
    \A s \in Sessions : \A n \in 1..MaxAttempts[s], printed \in Plan[s].printable :
        CoAttestation(s, n, PrepareResponse(s, n, printed)) # ABSENT

VARIABLES attempt,       \* client: the nonce it pins for a session, counted from 1
          prepared,      \* issuer: the prepare responses it signed
          cosigned,      \* client: [session, nonce, certificate] it approved
          certificates,  \* issuer: ref -> [certificate, status]
          retrieved,     \* relying party: the retrieval response it holds
          accepted       \* relying party: the last certificate that verified
vars == <<attempt, prepared, cosigned, certificates, retrieved, accepted>>

NothingRetrieved == [wrapped |-> FALSE, certificate_ref |-> 0, certificate_status |-> ABSENT,
                     build_session_ref |-> ABSENT, manifest_digest |-> ABSENT,
                     signed_certificate |-> ABSENT]

\* A response that carries d in the place of the certificate it describes.
Carrying(response, d) ==
    [wrapped |-> response.wrapped, certificate_ref |-> response.certificate_ref,
     certificate_status |-> response.certificate_status,
     build_session_ref |-> response.build_session_ref,
     manifest_digest |-> response.manifest_digest, signed_certificate |-> d]

NothingAccepted == [certificate |-> ABSENT, context |-> ABSENT, ref |-> 0]
-----------------------------------------------------------------------------
(* Delivery *)

Wire == prepared \cup {c.certificate : c \in cosigned}
            \cup {certificates[i].certificate : i \in DOMAIN certificates}

\* A signature that verifies was made by its key: it is the issuer's on a
\* prepare response or a client's on a projection it approved. Anyone can
\* damage the encoding of one, or turn an ECDSA signature into its high-S twin.
Made(sig) ==
    \/ sig.form = "malformed"
    \/ sig.form = "high_s" /\ sig.key.algorithm = "ecdsa_p256_sha256"
    \/ \E d \in prepared : sig = d.issuer_signature.signature
    \/ \E c \in cosigned : sig = c.certificate.co_attestation.signature

Arrived == {d \in Arrives(Wire) :
                /\ Made(d.issuer_signature.signature)
                /\ d.co_attestation # ABSENT => Made(d.co_attestation.signature)}
-----------------------------------------------------------------------------
Init ==
    /\ attempt = [s \in Sessions |-> 1]
    /\ prepared = {}
    /\ cosigned = {}
    /\ certificates = <<>>
    /\ retrieved = NothingRetrieved
    /\ accepted = NothingAccepted

\* The client gives up on an answer and starts over under a new nonce. The
\* answers to its earlier requests may still arrive.
Retry(s) ==
    /\ attempt[s] < MaxAttempts[s]
    /\ attempt' = [attempt EXCEPT ![s] = @ + 1]
    /\ UNCHANGED <<prepared, cosigned, certificates, retrieved, accepted>>

\* The issuer answers a request, an old one too, with the claims that pass.
Prepare(s) ==
    /\ Cardinality(prepared) < MaxPrepared
    /\ \E n \in 1..attempt[s], printed \in Plan[s].printable :
          prepared' = prepared \cup {PrepareResponse(s, n, printed)}
    /\ UNCHANGED <<attempt, cosigned, certificates, retrieved, accepted>>

\* prepare_client_co_attestation, then the client's signature.
CoSign(s) ==
    /\ \E d \in Arrived :
          /\ PrepareClientCoAttestation(d, ClientContext(s, attempt[s])) = OK
          /\ cosigned' = cosigned \cup
                {[session |-> s, nonce |-> attempt[s],
                  certificate |->
                     [d EXCEPT !.co_attestation = CoAttestation(s, attempt[s], d)]]}
    /\ UNCHANGED <<attempt, prepared, certificates, retrieved, accepted>>

\* The issuer finalizes: a response that needs no client as it is, another
\* with a co-attestation it received for that session and nonce.
Finalize ==
    /\ Len(certificates) < MaxCertificates
    /\ \E d \in prepared :
          \/ /\ ~RequiresClient(d.claims)
             /\ certificates' = Append(certificates, [certificate |-> d, status |-> "active"])
          \/ \E c \in cosigned :
                /\ RequiresClient(d.claims)
                /\ c.session = d.subject.build_session_ref
                /\ c.nonce = d.manifest.freshness_nonce
                /\ certificates' = Append(certificates,
                      [certificate |-> [d EXCEPT !.co_attestation = c.certificate.co_attestation],
                       status |-> "active"])
    /\ UNCHANGED <<attempt, prepared, cosigned, retrieved, accepted>>

Revoke ==
    /\ \E i \in DOMAIN certificates :
          /\ certificates[i].status = "active"
          /\ certificates' = [certificates EXCEPT ![i].status = "revoked"]
    /\ UNCHANGED <<attempt, prepared, cosigned, retrieved, accepted>>

\* The relying party fetches a certificate with its status of the moment.
Retrieve ==
    /\ \E i \in DOMAIN certificates :
          LET cert == certificates[i].certificate
          IN  retrieved' = [wrapped |-> TRUE, certificate_ref |-> i,
                            certificate_status |-> certificates[i].status,
                            build_session_ref |-> cert.subject.build_session_ref,
                            manifest_digest |-> cert.manifest_digest,
                            signed_certificate |-> cert]
    /\ UNCHANGED <<attempt, prepared, cosigned, certificates, accepted>>

\* verify_certificate on a certificate that arrived by any other way.
Verify(s) ==
    /\ \E n \in 1..attempt[s], client \in BOOLEAN, d \in Arrived :
          LET context == Context(s, n, client)
          IN  /\ VerifyCertificate(d, IssuerKey, context, Policy) = OK
              /\ accepted' = [certificate |-> d, context |-> context, ref |-> 0]
    /\ UNCHANGED <<attempt, prepared, cosigned, certificates, retrieved>>

\* verify_certificate_with_materials, for the reference and the bundle digest
\* the relying party has pinned: on the response it holds, which may carry
\* another certificate than the one it describes, or on a bare certificate.
VerifyDiscovered(s) ==
    /\ \E n \in 1..attempt[s], client \in BOOLEAN, ref \in DOMAIN certificates, d \in Arrived,
          response \in {retrieved, NothingRetrieved}, require_status \in BOOLEAN :
          LET context == [Context(s, n, client) EXCEPT !.client_public_key = ABSENT]
              materials == Materials(ref, s, client)
          IN  /\ VerifyWithMaterials(Carrying(response, d), materials,
                                     materials.materials_digest, ref, context, require_status) = OK
              /\ accepted' = [certificate |-> d, context |-> context,
                              ref |-> IF response.wrapped THEN ref ELSE 0]
    /\ UNCHANGED <<attempt, prepared, cosigned, certificates, retrieved>>

Next ==
    \/ \E s \in Sessions : \/ Retry(s) \/ Prepare(s) \/ CoSign(s)
                           \/ Verify(s) \/ VerifyDiscovered(s)
    \/ Finalize \/ Revoke \/ Retrieve

Spec == Init /\ [][Next]_vars
-----------------------------------------------------------------------------
(* Properties *)

\* Only what the issuer signed and the client approved verifies, member for
\* member: verify_certificate accepts no certificate that is not a prepare
\* response of the issuer, as it is when it prints no client claim, and with
\* the client's own co-attestation of that very response when it does.
AcceptedIsGenuine ==
    accepted.certificate # ABSENT =>
        /\ Projection(accepted.certificate) \in prepared
        /\ IF RequiresClient(accepted.certificate.claims)
           THEN accepted.certificate \in {c.certificate : c \in cosigned}
           ELSE accepted.certificate.co_attestation = ABSENT

\* A relying party that accepts a client claim accepts it for the session and
\* the nonce under which the client approved it, not for another session or an
\* attempt the client gave up: the pins of prepare_client_co_attestation and
\* the context of verify_certificate meet in the same certificate.
AcceptedAsApproved ==
    accepted.certificate # ABSENT /\ RequiresClient(accepted.certificate.claims) =>
        \E c \in cosigned : /\ c.certificate = accepted.certificate
                            /\ c.session = accepted.context.build_session_ref
                            /\ c.nonce = accepted.context.nonce

\* prepare_client_co_attestation returns bytes to sign only for a response the
\* issuer made for this session and this nonce, whatever arrives instead.
ApprovedIsOwnSession ==
    \A c \in cosigned :
        \E printed \in Plan[c.session].printable :
            /\ Projection(c.certificate) = PrepareResponse(c.session, c.nonce, printed)
            /\ Projection(c.certificate) \in prepared

\* The two sides do not disagree: what the client was told it may sign, the
\* relying party that pins the same session and nonce accepts.
ApprovedVerifies ==
    \A c \in cosigned :
        VerifyCertificate(c.certificate, IssuerKey, Context(c.session, c.nonce, TRUE), Policy) = OK

\* A retrieval response is accepted only while it says "active", and its status
\* is that of the certificate it is accepted with: one that was revoked when it
\* was retrieved is not accepted in the place of another.
StatusIsOfAccepted ==
    [][accepted' # accepted /\ accepted'.ref # 0 =>
          /\ retrieved.certificate_status = "active"
          /\ retrieved.certificate_ref = accepted'.ref
          /\ accepted'.certificate.manifest
                = certificates[accepted'.ref].certificate.manifest]_vars
=============================================================================
