----------------------- MODULE ProcessRecordProtocol -----------------------
(***************************************************************************)
(* The life of a Process Record v1 around the checks of ProcessRecord: the *)
(* backend records receipts while a build runs and signs what it has, with *)
(* a report that it may have compiled before the last receipts came in; a  *)
(* trust anchor publishes signed snapshots of what has been revoked; a     *)
(* relying party verifies, as of a time of its choice, whatever bundle and *)
(* snapshot reach it. Backend and trust anchor are not part of the         *)
(* repository.                                                             *)
(*                                                                         *)
(* BundlesArrive and StatusesArrive are any sets of documents whose        *)
(* signatures were made by their keys.                                     *)
(***************************************************************************)
EXTENDS ProcessRecord

CONSTANTS Bases,              \* sequence of finalized v0 certificates, each of them
                              \* [certificate, session, nonce, commitments]
          Worlds,             \* what a behaviour may start with: bases, the indexes of the
                              \* certificates that there are, by certificate_ref, and the bounds
                              \* max_receipts (per session), max_issued, max_time, max_snapshots
          Observations,       \* per session: what the backend may record
          Revocable,          \* bound: the trust rings and references that may be revoked
          Coverings,          \* what a snapshot may cover: <<rings, references>>
          AnchorKey,          \* the trust anchor's public key
          BundlesArrive(_),   \* bundles that may arrive when a set was sent
          StatusesArrive(_)   \* snapshots that may arrive when a set was sent

\* The base certificates are ones that the issuer finalizes, with the client's
\* co-attestation where a claim asks for it.
ASSUME BasesAssumption ==
    \A i \in DOMAIN Bases :
        /\ Bases[i].session \in Sessions
        /\ \E printed \in ClaimLists :
              Bases[i].certificate = Finalized(Bases[i].session, Bases[i].nonce, printed)
        /\ RequiresClient(Bases[i].certificate.claims) =>
              Bases[i].certificate.co_attestation # ABSENT

\* A freshness nonce is used once: it tells the certificates of a session apart.
ASSUME NonceAssumption ==
    \A w \in Worlds : \A p, q \in DOMAIN w.bases :
        LET x == Bases[w.bases[p]]
            y == Bases[w.bases[q]]
        IN  x.session = y.session /\ x.nonce = y.nonce => p = q

ASSUME WorldsAssumption ==
    \A w \in Worlds : \A ref \in DOMAIN w.bases : w.bases[ref] \in DOMAIN Bases

ASSUME StatusAssumption ==
    /\ TRUST_MAX_AGE \in Nat
    /\ \A c \in Coverings : IsFiniteSet(c[1]) /\ IsFiniteSet(c[2])

VARIABLES world,
          certificates, \* backend: the v0 certificates it may base a record on
          ledger,    \* backend: the receipts of each session, stream by stream
          issued,    \* backend: [bundle, compiled]: what it signed, what the report is of
          clock,
          revoked,   \* anchor: trust ring or certificate_ref -> when it was revoked
          snapshots, \* anchor: the envelopes it signed
          accepted   \* relying party: the bundle that has just verified, and how
record == <<world, certificates, ledger, issued>>
status == <<clock, revoked, snapshots>>
vars == <<record, status, accepted>>

Refs == DOMAIN certificates
SessionOf(ref) == certificates[ref].session
RingOf(ref) == Plan[SessionOf(ref)].trust_ring_ref
Rings == {RingOf(ref) : ref \in Refs}
-----------------------------------------------------------------------------
(* What the backend signs *)

\* The discovery materials of each reference.
HasClient(ref) == RequiresClient(certificates[ref].certificate.claims)
BaseMaterials == [ref \in Refs |-> Materials(ref, SessionOf(ref), HasClient(ref))]

NoReceipts == [decision_stream |-> <<>>, receipt_event_stream |-> <<>>, transition_stream |-> <<>>,
               receipt_bundle_digest |-> ABSENT]
Sealed(rs) == [rs EXCEPT !.receipt_bundle_digest = ReceiptBundleDigest(rs)]

Receipt(s, o, seq) ==
    LET open == [receipt_ref |-> <<s, o.stream, seq>>, project_ref |-> Plan[s].project_ref,
                 build_session_ref |-> s, stream_id |-> o.stream, seq |-> seq, step_id |-> o.step,
                 observation_basis |-> o.basis, registered_values |-> o.values,
                 receipt_digest |-> ABSENT]
    IN  [open EXCEPT !.receipt_digest = ReceiptDigest(open)]

Assertion ==
    LET open == [capture_policy |-> CapturePolicy, rendered_text |-> "process_record_correctness_v1",
                 assertion_digest |-> ABSENT]
    IN  [open EXCEPT !.assertion_digest = AssertionDigest(open)]

Bundle(ref, rs, report, commitments) ==
    LET s == SessionOf(ref)
        open == [base_certificate_v0 |-> certificates[ref].certificate,
                 verification_materials_v0 |-> BaseMaterials[ref], receipts |-> Sealed(rs),
                 report |-> report, assertion |-> Assertion,
                 claim_support_rows |-> <<SupportRow(Sealed(rs), report, Assertion)>>,
                 unsigned_manifest |-> ABSENT, signature |-> ABSENT,
                 integers |-> [member \in IntegerMembers |-> "int"]]
        unsigned == ExpectedUnsigned(open, report, Plan[s].project_ref, s, commitments)
    IN  [open EXCEPT !.unsigned_manifest = unsigned,
                     !.signature = [issuer_key_ref |-> "ikr", trust_ring_ref |-> RingOf(ref),
                                    algorithm |-> IssuerKey.algorithm,
                                    unsigned_manifest_digest |-> UnsignedDigest(unsigned),
                                    signature |-> Signature(IssuerKey, ProcessMaterial(unsigned),
                                                            "canonical")]]
-----------------------------------------------------------------------------
(* What the trust anchor signs *)

StatusOf(x) == IF revoked[x] = ABSENT THEN "active" ELSE "revoked_after_issuance"

Envelope(snapshot) ==
    [snapshot |-> snapshot,
     signature |-> [snapshot_digest |-> SnapshotDigest(snapshot), trust_anchor_ref |-> "tar",
                    algorithm |-> AnchorKey.algorithm,
                    signature |-> Signature(AnchorKey, SnapshotMaterial(snapshot), "canonical")]]

Snapshot(rings, refs) ==
    LET KeyEntry(r) == [key_ref |-> "ikr", trust_ring_ref |-> r, status |-> StatusOf(r)]
        CertificateEntry(c) == [certificate_ref |-> c, status |-> StatusOf(c)]
    IN  [trust_anchor_ref |-> "tar", max_age_seconds |-> TRUST_MAX_AGE, effective_time |-> clock,
         key_status |-> SetToSeq({KeyEntry(r) : r \in rings}),
         certificate_status |-> SetToSeq({CertificateEntry(c) : c \in refs})]
-----------------------------------------------------------------------------
(* What the relying party pins *)

TrustAnchor == [key_ref |-> "tar", algorithm |-> AnchorKey.algorithm, public_key |-> AnchorKey,
                public_key_digest |-> [anchor_spki |-> AnchorKey]]

\* ProcessRecordVerificationContext.
RecordContext(ref, commitments, checked, time) ==
    LET s == SessionOf(ref)
    IN  [expected_materials_digest |-> BaseMaterials[ref].materials_digest, certificate_ref |-> ref,
         base_context |-> [Context(s, certificates[ref].nonce, HasClient(ref))
                              EXCEPT !.client_public_key = ABSENT],
         expected_project_ref |-> Plan[s].project_ref, expected_build_session_ref |-> s,
         expected_commitments |-> commitments, allow_unchecked_base_status |-> ~checked,
         verification_time |-> time, trust_anchor |-> IF checked THEN TrustAnchor ELSE ABSENT]

NothingVerified == [bundle |-> ABSENT, context |-> ABSENT, envelope |-> ABSENT]
-----------------------------------------------------------------------------
(* Delivery *)

Sent == {i.bundle : i \in issued}

\* The signatures that exist: on certificates, on process records, on
\* snapshots. Anyone can damage an encoding or take the high-S twin.
RecordMade(sig) ==
    \/ sig.form = "malformed"
    \/ sig.form = "high_s" /\ sig.key.algorithm = "ecdsa_p256_sha256"
    \/ \E ref \in Refs : LET c == certificates[ref].certificate
                         IN  \/ sig = c.issuer_signature.signature
                             \/ c.co_attestation # ABSENT /\ sig = c.co_attestation.signature
    \/ \E b \in Sent : sig = b.signature.signature
    \/ \E e \in snapshots : sig = e.signature.signature

CertificateMade(c) ==
    /\ RecordMade(c.issuer_signature.signature)
    /\ c.co_attestation # ABSENT => RecordMade(c.co_attestation.signature)

ArrivedBundles == {b \in BundlesArrive(Sent) : /\ RecordMade(b.signature.signature)
                                               /\ CertificateMade(b.base_certificate_v0)}
ArrivedStatuses == {e \in StatusesArrive(snapshots) : RecordMade(e.signature.signature)}
-----------------------------------------------------------------------------
Init ==
    /\ world \in Worlds
    /\ certificates = [ref \in DOMAIN world.bases |-> Bases[world.bases[ref]]]
    /\ ledger = [s \in Sessions |-> NoReceipts]
    /\ issued = {}
    /\ clock = 0
    /\ revoked = [x \in Rings \cup Refs |-> ABSENT]
    /\ snapshots = {}
    /\ accepted = NothingVerified

\* The backend records a step it observed or the client attested.
Record(s) ==
    /\ Len(Flattened(ledger[s])) < world.max_receipts[s]
    /\ \E o \in Observations[s] :
          ledger' = [ledger EXCEPT ![s][o.stream] = Append(@, Receipt(s, o, Len(@) + 1))]
    /\ accepted' = NothingVerified
    /\ UNCHANGED <<world, certificates, issued, status>>

\* What the session had recorded at some earlier time.
ReceiptsIn(d, e, t) == [NoReceipts EXCEPT !.decision_stream = d, !.receipt_event_stream = e,
                                          !.transition_stream = t]
Earlier(rs) == {ReceiptsIn(d, e, t) : d \in Prefixes(rs.decision_stream),
                                      e \in Prefixes(rs.receipt_event_stream),
                                      t \in Prefixes(rs.transition_stream)}

\* The backend signs the receipts it has with a report that it compiled now or
\* before the last receipts came in.
Issue(ref) ==
    LET s == SessionOf(ref)
    IN  /\ Cardinality(issued) < world.max_issued
        /\ \E compiled \in Earlier(ledger[s]) :
              LET report == DeriveReport(compiled, Plan[s].project_ref, s)
              IN  issued' = issued \cup
                     {[bundle |-> Bundle(ref, ledger[s], report, certificates[ref].commitments),
                       compiled |-> compiled]}
        /\ accepted' = NothingVerified
        /\ UNCHANGED <<world, certificates, ledger, status>>

Tick ==
    /\ clock < world.max_time
    /\ clock' = clock + 1
    /\ accepted' = NothingVerified
    /\ UNCHANGED <<record, revoked, snapshots>>

\* A key is retired from a trust ring, or a certificate is revoked.
RevokeStatus ==
    /\ clock < world.max_time
    /\ \E x \in Revocable : /\ revoked[x] = ABSENT
                            /\ revoked' = [revoked EXCEPT ![x] = clock]
    /\ accepted' = NothingVerified
    /\ UNCHANGED <<record, clock, snapshots>>

Publish ==
    /\ Cardinality(snapshots) < world.max_snapshots
    /\ \E c \in Coverings : snapshots' = snapshots \cup {Envelope(Snapshot(c[1], c[2]))}
    /\ accepted' = NothingVerified
    /\ UNCHANGED <<record, clock, revoked>>

\* verify_process_record_certificate without a status.
VerifyUnchecked ==
    /\ accepted = NothingVerified
    /\ \E b \in ArrivedBundles, ref \in Refs : \E commitments \in Plan[SessionOf(ref)].commitments :
          LET context == RecordContext(ref, commitments, FALSE, clock)
          IN  /\ VerifyProcessRecord(b, context, ABSENT) = OK
              /\ accepted' = [bundle |-> b, context |-> context, envelope |-> ABSENT]
    /\ UNCHANGED <<record, status>>

\* verify_process_record_certificate with a snapshot, as of a time that the
\* caller takes from its own clock or from an event in the past.
VerifyChecked ==
    /\ accepted = NothingVerified
    /\ \E envelope \in ArrivedStatuses : \E b \in ArrivedBundles, ref \in Refs, time \in 0..clock :
       \E commitments \in Plan[SessionOf(ref)].commitments :
          LET context == RecordContext(ref, commitments, TRUE, time)
          IN  /\ VerifyProcessRecord(b, context, envelope) = OK
              /\ accepted' = [bundle |-> b, context |-> context, envelope |-> envelope]
    /\ UNCHANGED <<record, status>>

Next ==
    \/ \E s \in Sessions : Record(s)
    \/ \E ref \in Refs : Issue(ref)
    \/ Tick \/ RevokeStatus \/ Publish
    \/ VerifyUnchecked \/ VerifyChecked

Spec == Init /\ [][Next]_vars
-----------------------------------------------------------------------------
(* Properties *)

\* A record without the discovery materials, which come from elsewhere, and
\* without the decoding of the base certificate's integers, which the v0
\* verifier accepts as the floats they are equal to.
Content(b) == [b EXCEPT !.verification_materials_v0 = ABSENT,
                        !.integers = [member \in WalkedMembers |-> @[member]]]
FiledUnder(b) ==
    LET ref == b.verification_materials_v0.certificate_ref
    IN  [certificate_ref |-> ref, project_ref |-> Plan[SessionOf(ref)].project_ref,
         build_session_ref |-> SessionOf(ref), commitments |-> b.unsigned_manifest.commitments]
PinnedBy(c) == [certificate_ref |-> c.certificate_ref, project_ref |-> c.expected_project_ref,
                build_session_ref |-> c.expected_build_session_ref,
                commitments |-> c.expected_commitments]
Contract == INSTANCE RecordRegister WITH
    NONE <- ABSENT,
    filed <- {[pins |-> FiledUnder(i.bundle), record |-> Content(i.bundle)] : i \in issued},
    accepted <- IF accepted.bundle = ABSENT THEN ABSENT
                ELSE [pins |-> PinnedBy(accepted.context), record |-> Content(accepted.bundle)]

\* verify_process_record_certificate implements the register: it accepts only
\* what the backend signed, member for member, and only for the session, the
\* commitments and the base certificate that the caller pins. The integers of
\* the V1 members are those that were signed down to the type they were
\* decoded with; those of the base certificate are equal to what was signed,
\* 3.0 passing for 3 as it does for the v0 verifier. Only the discovery
\* materials come from elsewhere: the caller pins them.
ImplementsRegister == Contract!Spec

\* The receipts of a step in the last stream that has one, up to the last seq.
LastReceipts(rs, step) ==
    LET Of(k) == {r \in Range(rs[Streams[k]]) : r.step_id = step}
    IN  {r \in UNION {Of(k) : k \in DOMAIN Streams} :
            \E k \in DOMAIN Streams :
                /\ r \in Of(k) /\ \A x \in Of(k) : x.seq <= r.seq
                /\ \A j \in DOMAIN Streams : j > k => Of(j) = {}}

\* An accepted report is what was really recorded: its receipts are those the
\* backend recorded for that session, in order and from the first one on, and
\* each step shows the values of its last receipt, or is missing when there is
\* none. A report compiled before a later receipt of the same step is refused.
ReportIsOfLastReceipts ==
    accepted.bundle # ABSENT =>
        LET rs == accepted.bundle.receipts
            recorded == ledger[accepted.context.expected_build_session_ref]
        IN  /\ \A k \in DOMAIN Streams : IsPrefix(rs[Streams[k]], recorded[Streams[k]])
            /\ \A i \in DOMAIN ExpectedSteps :
                  LET row == accepted.bundle.report.rows[i]
                      last == LastReceipts(rs, ExpectedSteps[i])
                  IN  IF last = {} THEN row.status = "missing"
                      ELSE \E r \in last :
                              <<row.status, row.receipt_digest, row.observation_kind,
                                row.registered_values>>
                              = <<"present", r.receipt_digest, r.observation_basis,
                                  r.registered_values>>

\* A record is good exactly when the receipts are within the limits and none
\* that arrived while the report waited to be signed is the last of its step.
IssuedRecordVerifies ==
    \A i \in issued :
        LET b == i.bundle
            ref == b.verification_materials_v0.certificate_ref
            context == RecordContext(ref, b.unsigned_manifest.commitments, FALSE, clock)
        IN  VerifyProcessRecord(b, context, ABSENT) = OK
            <=> /\ \A k \in DOMAIN Streams : Len(b.receipts[Streams[k]]) <= MAX_STREAM_ITEMS
                /\ Len(Flattened(b.receipts)) <= MAX_TOTAL_RECEIPTS
                /\ \A step \in Range(ExpectedSteps) :
                      LastReceipts(i.compiled, step) = LastReceipts(b.receipts, step)

\* A revocation takes effect within the age limit of a snapshot, whatever
\* snapshots are replayed: PROCESS_RECORD_VERIFIED as of a time is never given
\* when the certificate, or the issuer's key in its own trust ring, had been
\* revoked more than the limit before that time.
RevocationTakesEffect ==
    accepted.envelope # ABSENT =>
        \A x \in {accepted.context.certificate_ref, RingOf(accepted.context.certificate_ref)} :
            revoked[x] # ABSENT =>
                revoked[x] + TRUST_MAX_AGE >= accepted.context.verification_time
=============================================================================
