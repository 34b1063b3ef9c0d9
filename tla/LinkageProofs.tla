---------------------------- MODULE LinkageProofs ----------------------------
(***************************************************************************)
(* For every set of records, every declaration and whatever is presented,  *)
(* in whatever number of issuances: an outcome of the reader is about a    *)
(* sidecar of the pinned record, a match is a declared fingerprint, and    *)
(* what was declared, opened as it was drawn, is never a mismatch.         *)
(***************************************************************************)
EXTENDS CommitmentLinkage, TLAPS

SidecarOf(k, r, order) == Sidecar(k, r, declared[ScopeOf[r].build_session_ref], order)
Sidecars == {Sidecar(k, r, d, order) : k \in Nat, r \in Records, d \in Declarations,
                                       order \in EntryOrders}

\* The issuer has signed the sidecars of declared sessions, each with its own
\* openings.
IssuedInv ==
    /\ declared \in [Sessions -> Declarations \cup {ABSENT}]
    /\ issued \in Seq(Sidecars)
    /\ \A k \in DOMAIN issued : \E r \in Records, order \in EntryOrders :
          /\ declared[ScopeOf[r].build_session_ref] # ABSENT
          /\ issued[k] = SidecarOf(k, r, order)

\* The answer the reader holds is that of its call, on a sidecar whose
\* signature was made before.
OpenedInv ==
    opened # NothingOpened =>
        /\ opened.record \in Records
        /\ opened.outcome = VerifyAndOpen(opened.envelope, ReaderContext(opened.record),
                                          opened.role, opened.fp, opened.opening)
        /\ opened.envelope # ABSENT => LinkageSigned(opened.envelope.signature.signature)

LinkageInv == IssuedInv /\ OpenedInv
-----------------------------------------------------------------------------
(* Chains of checks *)

\* Two statements pass when both do, and raise what the first one raised.
LEMMA BothPass == \A a, b : ((a && b) = OK) <=> (a = OK /\ b = OK)
  BY DEF &&

\* verify_commitment_linkage returns or raises a code, which is no outcome.
LEMMA CodesAreNoOutcomes ==
  ASSUME NEW e, NEW ctx
  PROVE  VerifyCommitmentLinkage(e, ctx) \notin Outcomes
  BY DEF VerifyCommitmentLinkage, CheckLinkage, CheckLinkageSignature, CheckBindings, Translate, Require, OK,
         Outcomes, &&

\* What an outcome says about the sidecar it was given for.
LEMMA OutcomeFacts ==
  ASSUME NEW e, NEW r, NEW role, NEW fp, NEW opening,
         VerifyAndOpen(e, ReaderContext(r), role, fp, opening) \in Outcomes
  PROVE  /\ e # ABSENT
         /\ \A i \in DOMAIN e.unsigned_linkage.entries : EntryValid(e.unsigned_linkage.entries[i])
         /\ DistinctRoles(e.unsigned_linkage.entries)
         /\ e.signature.signature.form # "malformed"
         /\ e.signature.signature.key.algorithm = "ecdsa_p256_sha256"
               => e.signature.signature.form # "high_s"
         /\ e.signature.signature.material = LinkageMaterial(e.unsigned_linkage)
         /\ e.unsigned_linkage.process_record_digest = r
         /\ VerifyAndOpen(e, ReaderContext(r), role, fp, opening)
               = OpenCommitment(e.unsigned_linkage.entries, role, fp, opening)
<1>1. VerifyCommitmentLinkage(e, ReaderContext(r)) = OK
  BY CodesAreNoOutcomes DEF VerifyAndOpen
<1>2. e # ABSENT
  BY <1>1 DEF VerifyCommitmentLinkage, OK
<1>3. CheckLinkage(e.unsigned_linkage, e.signature, ReaderContext(r)) = OK
  BY <1>1, <1>2 DEF VerifyCommitmentLinkage
<1>4. /\ Require(DistinctRoles(e.unsigned_linkage.entries), "DUPLICATE_ROLE") = OK
      /\ CheckLinkageSignature(e.unsigned_linkage, e.signature, ReaderContext(r).issuer_key) = OK
      /\ CheckBindings(e.unsigned_linkage, ReaderContext(r)) = OK
  BY <1>3, BothPass DEF CheckLinkage
<1>5. /\ DistinctRoles(e.unsigned_linkage.entries)
      /\ \A i \in DOMAIN e.unsigned_linkage.entries : EntryValid(e.unsigned_linkage.entries[i])
  <2>1. DistinctRoles(e.unsigned_linkage.entries)
    BY <1>4 DEF Require, OK
  <2>2. \A i \in DOMAIN e.unsigned_linkage.entries : EntryValid(e.unsigned_linkage.entries[i])
    BY <1>3 DEF CheckLinkage, &&, Require, OK
  <2> QED  BY <2>1, <2>2
<1>6. e.unsigned_linkage.process_record_digest = r
  <2>1. Require(e.unsigned_linkage.process_record_digest
                   = ReaderContext(r).expected_process_record_digest,
                "RECORD_BINDING_MISMATCH") = OK
    BY <1>4, BothPass DEF CheckBindings
  <2> QED  BY <2>1 DEF Require, OK, ReaderContext
<1>7. VerifySignature(ReaderContext(r).issuer_key.public_key, e.signature.algorithm,
                      LinkageMaterial(e.unsigned_linkage), e.signature.signature) = OK
  BY <1>4 DEF CheckLinkageSignature, &&, Require, Translate, OK
<1>8. /\ e.signature.signature.form # "malformed"
      /\ e.signature.signature.key.algorithm = "ecdsa_p256_sha256"
            => e.signature.signature.form # "high_s"
      /\ e.signature.signature.material = LinkageMaterial(e.unsigned_linkage)
  BY <1>7 DEF VerifySignature, &&, Require, OK
<1> QED  BY <1>1, <1>2, <1>5, <1>6, <1>8 DEF VerifyAndOpen

\* What the issuer signs.
LEMMA SidecarFacts ==
  ASSUME NEW k, NEW r, NEW d, NEW order
  PROVE  /\ Sidecar(k, r, d, order).unsigned_linkage.process_record_digest = r
         /\ Sidecar(k, r, d, order).signature.signature.material
               = LinkageMaterial(Sidecar(k, r, d, order).unsigned_linkage)
         /\ DOMAIN Sidecar(k, r, d, order).unsigned_linkage.entries = DOMAIN order
         /\ \A i \in DOMAIN order :
               Sidecar(k, r, d, order).unsigned_linkage.entries[i] = Entry(k, d, order[i])
  BY DEF Sidecar, Signature

\* The sidecar behind an outcome is the issuer's, for the pinned record.
LEMMA OutcomeOfIssued ==
  ASSUME LinkageInv, opened.outcome \in Outcomes
  PROVE  \E k \in DOMAIN issued, order \in EntryOrders :
            /\ opened.envelope.unsigned_linkage = issued[k].unsigned_linkage
            /\ issued[k] = SidecarOf(k, opened.record, order)
            /\ declared[ScopeOf[opened.record].build_session_ref] # ABSENT
            /\ issued[k].unsigned_linkage.process_record_digest = opened.record
<1>1. opened # NothingOpened
  BY AbsentAssumption DEF NothingOpened
<1>2. /\ opened.outcome = VerifyAndOpen(opened.envelope, ReaderContext(opened.record),
                                        opened.role, opened.fp, opened.opening)
      /\ opened.envelope # ABSENT => LinkageSigned(opened.envelope.signature.signature)
  BY <1>1 DEF LinkageInv, OpenedInv
<1>3. /\ opened.envelope # ABSENT
      /\ opened.envelope.signature.signature.form # "malformed"
      /\ opened.envelope.signature.signature.key.algorithm = "ecdsa_p256_sha256"
            => opened.envelope.signature.signature.form # "high_s"
      /\ opened.envelope.signature.signature.material
            = LinkageMaterial(opened.envelope.unsigned_linkage)
      /\ opened.envelope.unsigned_linkage.process_record_digest = opened.record
  BY <1>2, OutcomeFacts
<1>4. PICK k \in DOMAIN issued :
         opened.envelope.signature.signature = issued[k].signature.signature
  BY <1>2, <1>3 DEF LinkageSigned
<1>5. PICK r \in Records, order \in EntryOrders :
         /\ declared[ScopeOf[r].build_session_ref] # ABSENT
         /\ issued[k] = SidecarOf(k, r, order)
  BY DEF LinkageInv, IssuedInv
<1>6. /\ issued[k].signature.signature.material = LinkageMaterial(issued[k].unsigned_linkage)
      /\ issued[k].unsigned_linkage.process_record_digest = r
  BY <1>5, SidecarFacts DEF SidecarOf
<1>7. opened.envelope.unsigned_linkage = issued[k].unsigned_linkage
  BY <1>3, <1>4, <1>6 DEF LinkageMaterial
<1>8. r = opened.record
  BY <1>3, <1>6, <1>7
<1> QED  BY <1>5, <1>6, <1>7, <1>8
-----------------------------------------------------------------------------
(* The invariant *)

LEMMA LinkageInit == Init => LinkageInv
  BY DEF Init, LinkageInv, IssuedInv, OpenedInv

\* Declaring touches no session that has a sidecar.
LEMMA LinkageDeclare ==
  ASSUME LinkageInv, NEW s \in Sessions, Declare(s)
  PROVE  LinkageInv'
<1>1. declared' \in [Sessions -> Declarations \cup {ABSENT}]
  BY DEF Declare, LinkageInv, IssuedInv
<1>2. ASSUME NEW k \in DOMAIN issued
      PROVE  \E r \in Records, order \in EntryOrders :
                /\ declared'[ScopeOf[r].build_session_ref] # ABSENT
                /\ issued[k] = Sidecar(k, r, declared'[ScopeOf[r].build_session_ref], order)
  <2>1. PICK r \in Records, order \in EntryOrders :
           /\ declared[ScopeOf[r].build_session_ref] # ABSENT
           /\ issued[k] = Sidecar(k, r, declared[ScopeOf[r].build_session_ref], order)
    BY DEF LinkageInv, IssuedInv, SidecarOf
  <2>2. ScopeOf[r].build_session_ref \in Sessions
    BY DEF Sessions
  <2>3. declared'[ScopeOf[r].build_session_ref] = declared[ScopeOf[r].build_session_ref]
    BY <2>1, <2>2 DEF Declare, LinkageInv, IssuedInv
  <2> QED  BY <2>1, <2>3
<1>3. IssuedInv'
  BY <1>1, <1>2 DEF Declare, LinkageInv, IssuedInv, SidecarOf
<1>4. OpenedInv'
  BY DEF Declare, LinkageInv, OpenedInv, LinkageSigned
<1> QED  BY <1>3, <1>4 DEF LinkageInv

\* Issuing adds a sidecar and keeps the signatures made before.
LEMMA LinkageIssue ==
  ASSUME LinkageInv, NEW r \in Records, Issue(r)
  PROVE  LinkageInv'
<1> DEFINE d == declared[ScopeOf[r].build_session_ref]
<1>1. PICK order \in EntryOrders : issued' = Append(issued, Sidecar(Len(issued) + 1, r, d, order))
  BY DEF Issue
<1>2. d \in Declarations /\ d # ABSENT /\ declared' = declared /\ opened' = opened
  <2>1. ScopeOf[r].build_session_ref \in Sessions
    BY DEF Sessions
  <2> QED  BY <2>1 DEF Issue, LinkageInv, IssuedInv
<1>3. issued \in Seq(Sidecars) /\ Len(issued) \in Nat
  BY DEF LinkageInv, IssuedInv
<1>4. Sidecar(Len(issued) + 1, r, d, order) \in Sidecars
  <2>1. \A k \in Nat, x \in Declarations : Sidecar(k, r, x, order) \in Sidecars
    BY DEF Sidecars
  <2>2. Len(issued) + 1 \in Nat
    BY <1>3
  <2> QED  BY <2>1, <2>2, <1>2
<1> DEFINE new == Sidecar(Len(issued) + 1, r, d, order)
<1> HIDE DEF d, new
<1>5. /\ issued' \in Seq(Sidecars)
      /\ DOMAIN issued' = 1..Len(issued) + 1
      /\ DOMAIN issued = 1..Len(issued)
      /\ \A k \in DOMAIN issued : k \in DOMAIN issued' /\ issued'[k] = issued[k]
      /\ issued'[Len(issued) + 1] = new
  <2>1. new \in Sidecars /\ issued' = Append(issued, new)
    BY <1>1, <1>4 DEF new
  <2> QED  BY <2>1, <1>3
<1>6. ASSUME NEW k \in DOMAIN issued'
      PROVE  \E q \in Records, o \in EntryOrders :
                /\ declared[ScopeOf[q].build_session_ref] # ABSENT
                /\ issued'[k] = Sidecar(k, q, declared[ScopeOf[q].build_session_ref], o)
  <2>1. CASE k \in DOMAIN issued
    BY <2>1, <1>5 DEF LinkageInv, IssuedInv, SidecarOf
  <2>2. CASE k = Len(issued) + 1
    BY <2>2, <1>5, <1>2 DEF new, d
  <2> QED  BY <2>1, <2>2, <1>3, <1>5
<1>7. IssuedInv'
  BY <1>2, <1>5, <1>6 DEF LinkageInv, IssuedInv, SidecarOf
<1>8. OpenedInv'
  BY <1>2, <1>5 DEF LinkageInv, OpenedInv, LinkageSigned
<1> QED  BY <1>7, <1>8 DEF LinkageInv

\* A call of the reader changes nothing but its answer.
LEMMA LinkageOpen ==
  ASSUME LinkageInv, NEW r \in Records, Open(r)
  PROVE  LinkageInv'
<1>1. PICK e \in Arrived, ask \in Asks,
           opening \in {Opening(k, a.role) : k \in DOMAIN issued, a \in Asks} \cup {ABSENT} :
         opened' = [record |-> r, envelope |-> e, role |-> ask.role, fp |-> ask.fp,
                    opening |-> opening,
                    outcome |-> VerifyAndOpen(e, ReaderContext(r), ask.role, ask.fp, opening)]
  BY DEF Open
<1>2. e # ABSENT => LinkageSigned(e.signature.signature)
  BY DEF Arrived
<1>3. declared' = declared /\ issued' = issued
  BY DEF Open
<1>4. IssuedInv'
  BY <1>3 DEF LinkageInv, IssuedInv, SidecarOf
<1>5. OpenedInv'
  BY <1>1, <1>2, <1>3 DEF OpenedInv, LinkageSigned
<1> QED  BY <1>4, <1>5 DEF LinkageInv

\* The invariant holds in every reachable state, whatever is presented.
THEOREM LinkageInvariance == Spec => []LinkageInv
<1>1. LinkageInv /\ [Next]_vars => LinkageInv'
  <2> SUFFICES ASSUME LinkageInv, [Next]_vars PROVE LinkageInv'
    OBVIOUS
  <2>1. CASE \E s \in Sessions : Declare(s)
    BY <2>1, LinkageDeclare
  <2>2. CASE \E r \in Records : Issue(r)
    BY <2>2, LinkageIssue
  <2>3. CASE \E r \in Records : Open(r)
    BY <2>3, LinkageOpen
  <2>4. CASE Forget
    <3>1. declared' = declared /\ issued' = issued /\ opened' = NothingOpened
      BY <2>4 DEF Forget
    <3> QED  BY <3>1 DEF LinkageInv, IssuedInv, OpenedInv, SidecarOf
  <2>5. CASE UNCHANGED vars
    <3>1. declared' = declared /\ issued' = issued /\ opened' = opened
      BY <2>5 DEF vars
    <3> QED  BY <3>1 DEF LinkageInv, IssuedInv, OpenedInv, SidecarOf, LinkageSigned
  <2> QED  BY <2>1, <2>2, <2>3, <2>4, <2>5 DEF Next
<1> QED  BY <1>1, LinkageInit, PTL DEF Spec
-----------------------------------------------------------------------------
(* What it implies *)

\* An outcome is what _open_commitment says of the entries that were verified.
LEMMA OutcomeIsOpening ==
  ASSUME LinkageInv, opened.outcome \in Outcomes
  PROVE  /\ opened.outcome = OpenCommitment(opened.envelope.unsigned_linkage.entries,
                                            opened.role, opened.fp, opened.opening)
         /\ \A i \in DOMAIN opened.envelope.unsigned_linkage.entries :
               EntryValid(opened.envelope.unsigned_linkage.entries[i])
<1>1. opened # NothingOpened
  BY AbsentAssumption DEF NothingOpened
<1>2. opened.outcome = VerifyAndOpen(opened.envelope, ReaderContext(opened.record),
                                     opened.role, opened.fp, opened.opening)
  BY <1>1 DEF LinkageInv, OpenedInv
<1> QED  BY <1>2, OutcomeFacts

\* The entry _open_commitment looks at, in a sidecar of the issuer.
LEMMA OpenedEntry ==
  ASSUME NEW k, NEW r, NEW d, NEW order, NEW role, NEW fp, NEW opening,
         OpenCommitment(Sidecar(k, r, d, order).unsigned_linkage.entries, role, fp, opening)
            = "COMMITMENT_OPENED_MATCH"
  PROVE  d[role].fp = fp /\ opening = Opening(k, role)
<1> DEFINE entries == Sidecar(k, r, d, order).unsigned_linkage.entries
           i == EntryOf(entries, role)
<1>1. (\E x \in DOMAIN entries : entries[x].role = role)
      /\ OpenEntry(entries[i], fp, opening) = "COMMITMENT_OPENED_MATCH"
  BY DEF OpenCommitment
<1>2. i \in DOMAIN entries /\ entries[i].role = role
  BY <1>1 DEF EntryOf
<1>3. i \in DOMAIN order /\ entries[i] = Entry(k, d, order[i])
  BY <1>2, SidecarFacts
<1> HIDE DEF i, entries
<1>4. /\ entries[i].commitment # ABSENT
      /\ entries[i].commitment = Commitment(role, entries[i].basis, fp, opening)
  BY <1>1, <1>2 DEF OpenEntry
<1>5. role = order[i]
  BY <1>2, <1>3 DEF Entry
<1>6. entries[i].commitment = Commitment(role, d[role].basis, d[role].fp, Opening(k, role))
  BY <1>3, <1>4, <1>5 DEF Entry
<1> QED  BY <1>4, <1>6 DEF Commitment

\* Nothing but a sidecar of the pinned record, as the issuer signed it, gets
\* an outcome from verify_and_open_commitment.
THEOREM OutcomesAreOfIssued == Spec => []OutcomeIsOfIssued
<1>1. LinkageInv => OutcomeIsOfIssued
  BY OutcomeOfIssued DEF OutcomeIsOfIssued
<1> QED  BY <1>1, LinkageInvariance, PTL

\* COMMITMENT_OPENED_MATCH is a fingerprint the client declared for the role
\* in the session of the record, under the opening drawn for that sidecar.
THEOREM MatchesAreDeclared == Spec => []MatchIsDeclared
<1>1. LinkageInv => MatchIsDeclared
  <2> SUFFICES ASSUME LinkageInv, opened.outcome = "COMMITMENT_OPENED_MATCH"
               PROVE  /\ DeclaredFor(opened.record) # ABSENT
                      /\ DeclaredFor(opened.record)[opened.role].fp = opened.fp
                      /\ \E k \in DOMAIN issued :
                            /\ issued[k].unsigned_linkage.process_record_digest = opened.record
                            /\ opened.opening = Opening(k, opened.role)
    BY DEF MatchIsDeclared
  <2>1. opened.outcome \in Outcomes
    BY DEF Outcomes
  <2>2. PICK k \in DOMAIN issued, order \in EntryOrders :
           /\ opened.envelope.unsigned_linkage = issued[k].unsigned_linkage
           /\ issued[k] = SidecarOf(k, opened.record, order)
           /\ declared[ScopeOf[opened.record].build_session_ref] # ABSENT
           /\ issued[k].unsigned_linkage.process_record_digest = opened.record
    BY <2>1, OutcomeOfIssued
  <2>3. opened.outcome = OpenCommitment(issued[k].unsigned_linkage.entries,
                                        opened.role, opened.fp, opened.opening)
    BY <2>1, <2>2, OutcomeIsOpening
  <2>4. /\ DeclaredFor(opened.record)[opened.role].fp = opened.fp
        /\ opened.opening = Opening(k, opened.role)
    <3>1. OpenCommitment(Sidecar(k, opened.record, DeclaredFor(opened.record),
                                 order).unsigned_linkage.entries,
                         opened.role, opened.fp, opened.opening) = "COMMITMENT_OPENED_MATCH"
      BY <2>2, <2>3 DEF SidecarOf, DeclaredFor
    <3> QED  BY <3>1, OpenedEntry, SMTT(30)
  <2> QED  BY <2>2, <2>4 DEF DeclaredFor
<1> QED  BY <1>1, LinkageInvariance, PTL

\* The entry of the role, asked for with its own fingerprint and opening, is
\* opened: a valid entry of a declared basis holds a commitment.
LEMMA TrueOpeningMatches ==
  ASSUME NEW k, NEW r, NEW d, NEW order, NEW role, NEW fp,
         LET entries == Sidecar(k, r, d, order).unsigned_linkage.entries
         IN  /\ \A i \in DOMAIN entries : EntryValid(entries[i])
             /\ \E i \in DOMAIN entries : entries[i].role = role
             /\ OpenCommitment(entries, role, fp, Opening(k, role)) \in Outcomes,
         d[role].basis # "unavailable",
         d[role].fp = fp
  PROVE  OpenCommitment(Sidecar(k, r, d, order).unsigned_linkage.entries, role, fp,
                        Opening(k, role)) = "COMMITMENT_OPENED_MATCH"
<1> DEFINE entries == Sidecar(k, r, d, order).unsigned_linkage.entries
           i == EntryOf(entries, role)
<1>1. i \in DOMAIN entries /\ entries[i].role = role
  BY DEF EntryOf
<1>2. i \in DOMAIN order /\ entries[i] = Entry(k, d, order[i])
  BY <1>1, SidecarFacts
<1>3. EntryValid(entries[i])
  BY <1>1
<1>4. OpenCommitment(entries, role, fp, Opening(k, role)) = OpenEntry(entries[i], fp, Opening(k, role))
  BY DEF OpenCommitment, Outcomes
<1> HIDE DEF i, entries
<1>5. role = order[i]
  BY <1>1, <1>2 DEF Entry
<1>6. /\ entries[i].basis = d[role].basis
      /\ entries[i].commitment = Commitment(role, d[role].basis, fp, Opening(k, role))
  BY <1>2, <1>5 DEF Entry
<1>7. entries[i].commitment # ABSENT
  BY <1>3, <1>6 DEF EntryValid
<1>8. OpenEntry(entries[i], fp, Opening(k, role)) = "COMMITMENT_OPENED_MATCH"
  BY <1>1, <1>6, <1>7 DEF OpenEntry
<1> QED  BY <1>4, <1>8 DEF entries

\* No reader is told MISMATCH or UNAVAILABLE about a fingerprint the client
\* declared, when it brings the opening of the sidecar it verified.
THEOREM NoMismatchIsFalse == Spec => []NoFalseMismatch
<1>1. LinkageInv => NoFalseMismatch
  <2> SUFFICES ASSUME LinkageInv,
                      opened.outcome \in {"COMMITMENT_OPENED_MISMATCH", "COMMITMENT_UNAVAILABLE"},
                      NEW k \in DOMAIN issued,
                      opened.envelope = issued[k],
                      opened.opening = Opening(k, opened.role),
                      \E i \in DOMAIN issued[k].unsigned_linkage.entries :
                         issued[k].unsigned_linkage.entries[i].role = opened.role,
                      DeclaredFor(opened.record)[opened.role].basis # "unavailable",
                      DeclaredFor(opened.record)[opened.role].fp = opened.fp
               PROVE  FALSE
    BY DEF NoFalseMismatch
  <2>1. opened.outcome \in Outcomes
    BY DEF Outcomes
  <2>2. opened.envelope.unsigned_linkage.process_record_digest = opened.record
    BY <2>1, OutcomeOfIssued
  <2>3. PICK r \in Records, order \in EntryOrders : issued[k] = SidecarOf(k, r, order)
    BY DEF LinkageInv, IssuedInv
  <2>4. r = opened.record
    BY <2>2, <2>3, SidecarFacts DEF SidecarOf
  <2>5. opened.envelope = Sidecar(k, opened.record, DeclaredFor(opened.record), order)
    BY <2>3, <2>4 DEF SidecarOf, DeclaredFor
  <2>6. /\ opened.outcome = OpenCommitment(opened.envelope.unsigned_linkage.entries,
                                           opened.role, opened.fp, Opening(k, opened.role))
        /\ \A i \in DOMAIN opened.envelope.unsigned_linkage.entries :
              EntryValid(opened.envelope.unsigned_linkage.entries[i])
    BY <2>1, OutcomeIsOpening
  <2>7. opened.outcome = "COMMITMENT_OPENED_MATCH"
    BY <2>1, <2>5, <2>6, TrueOpeningMatches
  <2> QED  BY <2>7
<1> QED  BY <1>1, LinkageInvariance, PTL
=============================================================================
