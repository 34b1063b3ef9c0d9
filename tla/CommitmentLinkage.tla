------------------------- MODULE CommitmentLinkage -------------------------
(***************************************************************************)
(* certification/commitment_linkage.py: the sidecar that commits to the    *)
(* fingerprints a client declared when a session started, bound to one     *)
(* process record, and the reader that verifies it and opens a commitment. *)
(*                                                                         *)
(* The client declares, once per session; the issuer signs a sidecar for a *)
(* record of the session, more than once if asked, each time over fresh    *)
(* openings; the reader pins a record and its scope, and is handed a       *)
(* sidecar, a fingerprint and an opening that need not belong together.    *)
(* A commitment is the record of its preimage: the length-prefixed framing *)
(* is injective. The opening new_opening returns for a role in the k-th    *)
(* issuance is <<k, role>>: no two are equal.                              *)
(***************************************************************************)
EXTENDS CertificateV0

CONSTANTS Records,         \* process-record certificates, by unsigned_manifest_digest
          ScopeOf,         \* per record: [project_ref, build_session_ref]
          Declarations,    \* per session: what its client may declare, role -> [basis, fp]
          EntryOrders,     \* sequences of roles in which a sidecar may list its entries
          Fingerprints,    \* fp1 digests; a caller may pass another string too
          IssuerKey,       \* [algorithm, owner] of the issuer
          MaxIssued,       \* bound: sidecars issued
          Asks,            \* what readers ask for: [role, fp], of any shape
          Presented(_)     \* the sidecars that may be presented when a set was issued

VARIABLES declared,        \* session -> its declaration, or ABSENT
          issued,          \* the sidecars the issuer signed, in order
          opened           \* the last call of verify_and_open_commitment
vars == <<declared, issued, opened>>

Roles == {"agent", "dataset", "config_space", "evaluator:primary"}
           \cup {"evaluator:r0", "evaluator:r1", "evaluator:r2", "evaluator:r3",
                 "evaluator:r4", "evaluator:r5", "evaluator:r6", "evaluator:r7"}
BasesOf(role) ==
    CASE role = "agent" -> {"source_text", "name_only", "unavailable"}
      [] role = "dataset" -> {"order_free_multiset", "unavailable"}
      [] role = "config_space" -> {"config_space", "unavailable"}
      [] OTHER -> {"source_text", "endpoint_only", "name_only", "unavailable"}
Sessions == {ScopeOf[r].build_session_ref : r \in Records}
-----------------------------------------------------------------------------
(* The commitment and its reader *)

\* The bytes hashed by compute_commitment, after its checks of their shape.
Commitment(role, basis, fp, opening) ==
    [role |-> role, basis |-> basis, fp |-> fp, opening |-> opening]

LinkageDigest(unsigned) == [unsigned_linkage |-> unsigned]
LinkageMaterial(unsigned) == [linkage_issuer_signature |-> unsigned]

\* LinkageIssuerKeyV1, and the context of a reader that pinned record r.
PinnedKey == [key_ref |-> "ikr", trust_ring_ref |-> "ring", algorithm |-> IssuerKey.algorithm,
              public_key |-> IssuerKey, public_key_digest |-> [spki |-> IssuerKey]]
ReaderContext(r) ==
    [expected_process_record_digest |-> r, expected_project_ref |-> ScopeOf[r].project_ref,
     expected_build_session_ref |-> ScopeOf[r].build_session_ref, issuer_key |-> PinnedKey]

\* What the schema says of an entry: a commitment unless it is unavailable,
\* and a basis its role may have.
EntryValid(e) ==
    e.role \in Roles /\ e.basis \in BasesOf(e.role) /\ (e.basis = "unavailable" <=> e.commitment = ABSENT)

SkipLinkageSignature(unsigned, signature, key) ==
    Require(/\ signature.issuer_key_ref = key.key_ref
            /\ signature.trust_ring_ref = key.trust_ring_ref
            /\ signature.algorithm = key.algorithm, "KEY_MISMATCH")
    && Translate(MaterialKey(key), "KEY_MATERIAL")
CheckLinkageSignature(unsigned, signature, key) ==
    Require(/\ signature.issuer_key_ref = key.key_ref
            /\ signature.trust_ring_ref = key.trust_ring_ref
            /\ signature.algorithm = key.algorithm, "KEY_MISMATCH")
    && Translate(MaterialKey(key), "KEY_MATERIAL")
    && Translate(VerifySignature(key.public_key, signature.algorithm, LinkageMaterial(unsigned),
                                 signature.signature), "SIGNATURE_INVALID")

CheckBindingsScopeOnly(unsigned, ctx) ==
    Require(/\ unsigned.project_ref = ctx.expected_project_ref
            /\ unsigned.build_session_ref = ctx.expected_build_session_ref, "SCOPE_MISMATCH")
CheckBindings(unsigned, ctx) ==
    Require(unsigned.process_record_digest = ctx.expected_process_record_digest,
            "RECORD_BINDING_MISMATCH")
    && Require(/\ unsigned.project_ref = ctx.expected_project_ref
               /\ unsigned.build_session_ref = ctx.expected_build_session_ref, "SCOPE_MISMATCH")

DistinctRoles(entries) ==
    \A i, j \in DOMAIN entries : entries[i].role = entries[j].role => i = j

CheckLinkage(unsigned, signature, ctx) ==
    Require(unsigned.entries # <<>> /\ \A i \in DOMAIN unsigned.entries : EntryValid(unsigned.entries[i]),
            "SCHEMA")
    && Require(DistinctRoles(unsigned.entries), "DUPLICATE_ROLE")
    && Require(signature.unsigned_linkage_digest = LinkageDigest(unsigned),
               "UNSIGNED_LINKAGE_DIGEST_MISMATCH")
    && CheckLinkageSignature(unsigned, signature, ctx.issuer_key)
    && CheckBindings(unsigned, ctx)

\* verify_commitment_linkage. ABSENT stands for an envelope that is no dict.
VerifyCommitmentLinkage(envelope, ctx) ==
    IF envelope = ABSENT THEN "ENVELOPE_SHAPE"
    ELSE CheckLinkage(envelope.unsigned_linkage, envelope.signature, ctx)

WellFormedOpening(o) == o # ABSENT

\* _open_commitment: the entry of the role, if there is one.
OpenFirstEntry(entries, role, fp, opening) ==
    IF role \notin Roles THEN "ROLE_SHAPE"
    ELSE IF fp \notin Fingerprints THEN "FINGERPRINT_SHAPE"
    ELSE IF ~WellFormedOpening(opening) THEN "OPENING_SHAPE"
    ELSE IF entries[1].commitment = ABSENT THEN "COMMITMENT_UNAVAILABLE"
    ELSE IF entries[1].commitment = Commitment(role, entries[1].basis, fp, opening)
    THEN "COMMITMENT_OPENED_MATCH" ELSE "COMMITMENT_OPENED_MISMATCH"
OpenEntry(entry, fp, opening) ==
    IF entry.basis = "unavailable" \/ entry.commitment = ABSENT THEN "COMMITMENT_UNAVAILABLE"
    ELSE IF entry.commitment = Commitment(entry.role, entry.basis, fp, opening)
    THEN "COMMITMENT_OPENED_MATCH" ELSE "COMMITMENT_OPENED_MISMATCH"
EntryOf(entries, role) == CHOOSE i \in DOMAIN entries : entries[i].role = role
OpenCommitment(entries, role, fp, opening) ==
    IF role \notin Roles THEN "ROLE_SHAPE"
    ELSE IF fp \notin Fingerprints THEN "FINGERPRINT_SHAPE"
    ELSE IF ~WellFormedOpening(opening) THEN "OPENING_SHAPE"
    ELSE IF ~\E i \in DOMAIN entries : entries[i].role = role THEN "COMMITMENT_UNAVAILABLE"
    ELSE OpenEntry(entries[EntryOf(entries, role)], fp, opening)

\* verify_and_open_commitment.
VerifyAndOpen(envelope, ctx, role, fp, opening) ==
    LET code == VerifyCommitmentLinkage(envelope, ctx)
    IN  IF code # OK THEN code
        ELSE OpenCommitment(envelope.unsigned_linkage.entries, role, fp, opening)

Outcomes == {"COMMITMENT_OPENED_MATCH", "COMMITMENT_OPENED_MISMATCH", "COMMITMENT_UNAVAILABLE"}

ASSUME AbsentAssumption == ABSENT \notin Outcomes
-----------------------------------------------------------------------------
(* The issuer *)

Opening(k, role) == <<k, role>>

\* The entry of a role in the k-th sidecar, over what its session declared.
Entry(k, declaration, role) ==
    LET d == declaration[role]
    IN  [role |-> role, basis |-> d.basis,
         commitment |-> IF d.basis = "unavailable" THEN ABSENT
                        ELSE Commitment(role, d.basis, d.fp, Opening(k, role))]

Sidecar(k, r, declaration, order) ==
    LET unsigned == [process_record_digest |-> r, project_ref |-> ScopeOf[r].project_ref,
                     build_session_ref |-> ScopeOf[r].build_session_ref,
                     entries |-> [i \in DOMAIN order |-> Entry(k, declaration, order[i])]]
    IN  [unsigned_linkage |-> unsigned,
         signature |-> [issuer_key_ref |-> "ikr", trust_ring_ref |-> "ring",
                        algorithm |-> IssuerKey.algorithm,
                        unsigned_linkage_digest |-> LinkageDigest(unsigned),
                        signature |-> Signature(IssuerKey, LinkageMaterial(unsigned), "canonical")]]

\* A signature that verifies was made by the issuer. Anyone can damage the
\* encoding of one, or turn an ECDSA signature into its high-S twin.
LinkageSigned(sig) ==
    \/ sig.form = "malformed"
    \/ sig.form = "high_s" /\ sig.key.algorithm = "ecdsa_p256_sha256"
    \/ \E k \in DOMAIN issued : sig = issued[k].signature.signature
Arrived ==
    {e \in Presented({issued[k] : k \in DOMAIN issued}) :
        e # ABSENT => LinkageSigned(e.signature.signature)}
-----------------------------------------------------------------------------
NothingOpened == [record |-> ABSENT, envelope |-> ABSENT, role |-> ABSENT, fp |-> ABSENT,
                  opening |-> ABSENT, outcome |-> ABSENT]

Init ==
    /\ declared = [s \in Sessions |-> ABSENT]
    /\ issued = <<>>
    /\ opened = NothingOpened

\* The client declares its fingerprints, at session start and never again.
Declare(s) ==
    /\ declared[s] = ABSENT
    /\ \E d \in Declarations : declared' = [declared EXCEPT ![s] = d]
    /\ UNCHANGED <<issued, opened>>

\* The issuer signs a sidecar for a record, after comparing what it commits to
\* with the declaration of the session.
Issue(r) ==
    /\ Len(issued) < MaxIssued
    /\ declared[ScopeOf[r].build_session_ref] # ABSENT
    /\ \E order \in EntryOrders :
          issued' = Append(issued, Sidecar(Len(issued) + 1, r,
                                           declared[ScopeOf[r].build_session_ref], order))
    /\ UNCHANGED <<declared, opened>>

\* A reader that pinned r opens a commitment with an opening somebody kept.
Open(r) ==
    /\ opened = NothingOpened
    /\ \E e \in Arrived, ask \in Asks,
          opening \in {Opening(k, a.role) : k \in DOMAIN issued, a \in Asks} \cup {ABSENT} :
          opened' = [record |-> r, envelope |-> e, role |-> ask.role, fp |-> ask.fp,
                     opening |-> opening,
                     outcome |-> VerifyAndOpen(e, ReaderContext(r), ask.role, ask.fp, opening)]
    /\ UNCHANGED <<declared, issued>>

\* The reader is done with the answer.
Forget ==
    /\ opened # NothingOpened
    /\ opened' = NothingOpened
    /\ UNCHANGED <<declared, issued>>

Next ==
    \/ \E s \in Sessions : Declare(s)
    \/ \E r \in Records : Issue(r) \/ Open(r)
    \/ Forget
Spec == Init /\ [][Next]_vars
-----------------------------------------------------------------------------
(* Properties *)

DeclaredFor(r) == declared[ScopeOf[r].build_session_ref]

\* An outcome is about a sidecar the issuer signed for the pinned record, as it
\* signed it: nothing else gets past verify_commitment_linkage.
OutcomeIsOfIssued ==
    opened.outcome \in Outcomes =>
        \E k \in DOMAIN issued :
            /\ opened.envelope.unsigned_linkage = issued[k].unsigned_linkage
            /\ issued[k].unsigned_linkage.process_record_digest = opened.record

\* COMMITMENT_OPENED_MATCH means what the module says it means: the client of
\* the record's session declared this fingerprint for this role, and the
\* opening is the one drawn for this role when a sidecar of this record was
\* issued. A sidecar of another record of the same session does not do.
MatchIsDeclared ==
    opened.outcome = "COMMITMENT_OPENED_MATCH" =>
        /\ DeclaredFor(opened.record) # ABSENT
        /\ DeclaredFor(opened.record)[opened.role].fp = opened.fp
        /\ \E k \in DOMAIN issued :
              /\ issued[k].unsigned_linkage.process_record_digest = opened.record
              /\ opened.opening = Opening(k, opened.role)

\* A reader is never told MISMATCH or UNAVAILABLE about the very fingerprint
\* the client declared, with the opening of the very sidecar it verified: the
\* order of the entries and the basis of each make no difference.
NoFalseMismatch ==
    opened.outcome \in {"COMMITMENT_OPENED_MISMATCH", "COMMITMENT_UNAVAILABLE"} =>
        \A k \in DOMAIN issued :
            /\ opened.envelope = issued[k]
            /\ opened.opening = Opening(k, opened.role)
            /\ \E i \in DOMAIN issued[k].unsigned_linkage.entries :
                  issued[k].unsigned_linkage.entries[i].role = opened.role
            /\ DeclaredFor(opened.record)[opened.role].basis # "unavailable"
            => DeclaredFor(opened.record)[opened.role].fp # opened.fp
=============================================================================
