----------------------- MODULE DatasetRecordProtocol -----------------------
(***************************************************************************)
(* The life of a Dataset Record v1 around the checks of DatasetRecord: the *)
(* issuer registers plans and records the steps of a build as time goes by,*)
(* files process records and signs dataset records, with an account of the *)
(* dataset that may be wrong; a relying party verifies whatever bundle and *)
(* process record reach it, against its pins and the leaf lists it has.    *)
(* The issuer is not part of the repository.                               *)
(*                                                                         *)
(* A world fixes the builds and the bounds of a behaviour: see MC module.  *)
(***************************************************************************)
EXTENDS DatasetRecord

CONSTANTS Worlds,          \* the worlds a behaviour may start in
          Rendered,        \* tick of the clock -> the time as it is written
          Issuer,          \* [key_ref, trust_ring_ref, public_key]
          BundlesArrive(_),\* bundles that may arrive when a set was signed
          ListsArrive(_,_) \* leaf lists that a caller may pass in a world, when
                           \* these are the true ones

\* The clock has a written form for every tick of a behaviour, and what
\* _utc_microseconds reads grows with it.
ASSUME TimeAssumption ==
    /\ DOMAIN Rendered \subseteq Nat
    /\ \A w \in Worlds : w.max_time \in Nat /\ 0..w.max_time \subseteq DOMAIN Rendered
    /\ \A t \in DOMAIN Rendered : UtcMicroseconds(Rendered[t]) \in Nat
    /\ \A t, u \in DOMAIN Rendered :
          t < u => UtcMicroseconds(Rendered[t]) < UtcMicroseconds(Rendered[u])

\* The items of a build and of an account are lists.
ItemRecord == [leaf : Int, category_id : STRING, difficulty_stratum : STRING]
Leaf == [leaf : Int]
ASSUME BuildsAssumption ==
    \A w \in Worlds : \A s \in DOMAIN w.builds :
        /\ w.builds[s].items \in Seq(ItemRecord)
        /\ \A account \in w.accounts[s] : account.items \in Seq(ItemRecord)

VARIABLES world,
          clock,
          plans,      \* issuer: the preregistration envelopes it signed
          ledger,     \* issuer: the receipts of each session, stream by stream
          processes,  \* issuer: the process records it filed, under their pins
          issued,     \* issuer: [bundle, session, process, account]
          accepted    \* relying party: what has just verified, and how
vars == <<world, clock, plans, ledger, processes, issued, accepted>>

Sessions == DOMAIN world.builds
Build(s) == world.builds[s]
NothingVerified == [bundle |-> ABSENT, context |-> ABSENT, process |-> ABSENT, lists |-> ABSENT]
Sign(material) == V0!Signature(Issuer.public_key, material, "canonical")
-----------------------------------------------------------------------------
(* What the issuer signs *)

Closed(domain, doc, field) == [doc EXCEPT ![field] = OwnDigest(domain, doc, field)]

PlanEnvelope(design, tick) ==
    LET open == [evidence_grade |-> design.evidence_grade, registered_at |-> Rendered[tick],
                 candidates |-> "candidates", policy |-> design.policy, interval |-> design.interval,
                 near_duplicate |-> design.near_duplicate, information |-> design.information,
                 coverage |-> PreregCoverage, prereg_digest |-> ABSENT]
        plan == Closed("prereg", open, "prereg_digest")
    IN  [preregistration |-> plan,
         signature |-> [issuer_key_ref |-> Issuer.key_ref, trust_ring_ref |-> Issuer.trust_ring_ref,
                        algorithm |-> Issuer.public_key.algorithm,
                        prereg_digest |-> plan.prereg_digest,
                        signature |-> Sign(PreregMaterial(plan))]]

ProcessEntry(s) ==
    LET pins == [project_ref |-> Build(s).project_ref, build_session_ref |-> s,
                 commitments |-> Build(s).commitment]
    IN  [pins |-> pins,
         record |-> [unsigned_manifest |-> [project_ref |-> pins.project_ref, build_session_ref |-> s,
                                            commitments |-> pins.commitments,
                                            receipts |-> RoleDigest("receipts", ledger[s])],
                     receipts |-> ledger[s], issuer |-> Issuer]]

ScopeOf(build) == DeriveLeakageScopeRef(build.scope_blind_commitment)
Scope(s) == ScopeOf(Build(s))
CorpusRefOf(build, name) == DeriveCorpusRef(LeafListDigest(build.corpora[name]), ScopeOf(build))
CorpusRef(s, name) == CorpusRefOf(Build(s), name)

Identity(s) ==
    LET open == [dataset_ref |-> ABSENT, dataset_identity_root |-> Build(s).identity_root,
                 identity_blind_epoch |-> Build(s).epoch, leakage_scope_ref |-> Scope(s),
                 item_set_root |-> ItemSetRoot(Leaves(Build(s).items)),
                 item_count |-> Len(Build(s).items)]
    IN  [open EXCEPT !.dataset_ref = ExpectedDatasetRef(open)]

Composition(s, account) ==
    LET Cell(key) == [category_id |-> key[1], difficulty_stratum |-> key[2],
                      item_count |-> Cardinality(InCell(account.items, key)),
                      cell_leaf_root |-> CellRoot(account.items, key)]
        keys == SetToSeq({CellKey(x) : x \in Range(account.items)})
        open == [taxonomy |-> Taxonomy, cells |-> [i \in DOMAIN keys |-> Cell(keys[i])],
                 populated_cell_count |-> Len(keys), composition_digest |-> ABSENT]
    IN  Closed("composition", open, "composition_digest")

OpenAttestation(build, attested) ==
    LET Corpus(n) == [corpus_ref |-> CorpusRefOf(build, n), leaf_count |-> Len(build.corpora[n]),
                      leaf_root |-> LeafListDigest(build.corpora[n]),
                      scope_blind_commitment |-> build.scope_blind_commitment]
    IN  [leakage_scope_ref |-> ScopeOf(build), scope_blind_commitment |-> build.scope_blind_commitment,
         corpora |-> [i \in DOMAIN attested |-> Corpus(attested[i])], attestation_digest |-> ABSENT]
OpenAttestationDigest(build, attested) ==
    OwnDigest("leaf_generation_attestation", OpenAttestation(build, attested), "attestation_digest")

\* A digest is a value, which is not the absence of one.
ASSUME DigestAssumption ==
    \A w \in Worlds : \A s \in DOMAIN w.builds : \A account \in w.accounts[s] :
        OpenAttestationDigest(w.builds[s], account.attested) # ABSENT
Attestation(s, account) ==
    IF account.attested = <<>> THEN ABSENT
    ELSE Closed("leaf_generation_attestation", OpenAttestation(Build(s), account.attested),
                "attestation_digest")
AttestationDigest(attestation) ==
    IF attestation = ABSENT THEN ABSENT ELSE attestation.attestation_digest

LeakageReport(s, account, attestation) ==
    LET Finding(f) == [finding_kind |-> f.kind, corpus_a_ref |-> CorpusRef(s, f.pair[1]),
                       corpus_b_ref |-> CorpusRef(s, f.pair[2]), overlap_count |-> f.count,
                       disjointness_asserted |-> f.asserted, near_duplicate |-> f.near_duplicate,
                       observation_basis |-> IF f.kind \in TierC THEN "client_attested"
                                             ELSE "backend_observed"]
        Descriptor(n) == [corpus_ref |-> CorpusRef(s, n), leaf_count |-> Len(Build(s).corpora[n]),
                          leaf_list_digest |-> LeafListDigest(Build(s).corpora[n])]
        names == SetToSeq(DOMAIN Build(s).corpora)
        open == [method_registry |-> MethodRegistry, leakage_scope_ref |-> Scope(s),
                 findings |-> [i \in DOMAIN account.findings |-> Finding(account.findings[i])],
                 leaf_list_digests |-> [i \in DOMAIN names |-> Descriptor(names[i])],
                 leaf_generation_attestation_digest |-> AttestationDigest(attestation),
                 leakage_report_digest |-> ABSENT]
    IN  Closed("leakage_report", open, "leakage_report_digest")

Limitations(account) ==
    LET Entry(code) == [limitation_code |-> code,
                        observation_basis |-> IF code \in DerivableLimitations
                                              THEN "backend_observed" ELSE "client_attested"]
        open == [limitations |-> [i \in DOMAIN account.limitations |-> Entry(account.limitations[i])],
                 limitations_digest |-> ABSENT]
    IN  Closed("limitations", open, "limitations_digest")

Efficiency(s, plan, account) ==
    LET Ratio(r) == [full |-> r[2], decisive |-> r[1], ppm |-> Ppm(r[1], r[2])]
        open == [prereg_digest |-> plan.prereg_digest, candidates |-> plan.candidates,
                 applied_policy |-> plan.policy, information |-> plan.information,
                 uninformative_item_count |-> 0, inert_item_count |-> account.inert,
                 inert_fraction_ppm |-> Ppm(account.inert, Len(Build(s).items)),
                 mean_item_information |->
                     [estimator_kind |-> "point_estimate", quantity_kind |-> "mean", lo |-> 0,
                      point |-> 1, hi |-> 2, interval |-> plan.interval,
                      bootstrap |-> plan.policy.bootstrap, sample_size_n |-> account.sample,
                      effective_sample_size_n |-> account.sample],
                 decisive_subset_upper_bound |->
                     [estimator_kind |-> "upper_bound", quantity_kind |-> "count",
                      lo |-> account.decisive, point |-> account.decisive, hi |-> account.decisive,
                      interval |-> [method |-> "none", level_ppm |-> 0], bootstrap |-> ABSENT,
                      sample_size_n |-> account.sample, effective_sample_size_n |-> account.sample],
                 cost |-> Ratio(account.cost), latency |-> Ratio(account.latency),
                 efficiency_report_digest |-> ABSENT]
    IN  Closed("efficiency_report", open, "efficiency_report_digest")

Bundle(s, process, envelope, account) ==
    LET plan == envelope.preregistration
        identity == Identity(s)
        composition == Composition(s, account)
        attestation == Attestation(s, account)
        leakage == LeakageReport(s, account, attestation)
        limitations == Limitations(account)
        efficiency == Efficiency(s, plan, account)
        open == [identity |-> identity, scope_binding_digest |-> ScopeBindingDigest(Build(s).project_ref, s),
                 process_unsigned_manifest_digest |-> ProcessManifestDigest(process),
                 dataset_commitment_ref |-> Build(s).commitment, taxonomy |-> Taxonomy,
                 method_registry |-> MethodRegistry, composition_digest |-> composition.composition_digest,
                 leakage_report_digest |-> leakage.leakage_report_digest,
                 leaf_generation_attestation_digest |-> AttestationDigest(attestation),
                 efficiency_report_digest |-> efficiency.efficiency_report_digest,
                 limitations_digest |-> limitations.limitations_digest,
                 prereg_digest |-> plan.prereg_digest,
                 prereg_signature_digest |-> RoleDigest("prereg_signature", envelope.signature),
                 prereg_evidence_grade |-> plan.evidence_grade,
                 prereg_registered_at |-> plan.registered_at, non_claims |-> NonClaimsCanonical,
                 claim_support_rows_digest |-> ABSENT, coverage |-> ManifestCoverage,
                 issuer_key_ref |-> Issuer.key_ref, trust_ring_ref |-> Issuer.trust_ring_ref,
                 issuer_signature_algorithm |-> Issuer.public_key.algorithm]
        rows == [i \in DOMAIN ClaimIds |-> SupportRow(open, ClaimIds[i], account.bases[ClaimIds[i]])]
        unsigned == [open EXCEPT !.claim_support_rows_digest = RoleDigest("claim_support_rows", rows)]
    IN  [composition |-> composition, leakage_report |-> leakage,
         leaf_generation_attestation |-> attestation, limitations |-> limitations,
         preregistration_envelope |-> envelope, efficiency_report |-> efficiency,
         claim_support_rows |-> rows, unsigned_manifest |-> unsigned, integers |-> "int",
         signature |-> [issuer_key_ref |-> Issuer.key_ref, trust_ring_ref |-> Issuer.trust_ring_ref,
                        algorithm |-> Issuer.public_key.algorithm,
                        unsigned_manifest_digest |-> ManifestDigest(unsigned),
                        signature |-> Sign(DatasetMaterial(unsigned))]]
-----------------------------------------------------------------------------
(* What the relying party pins and has *)

Contexts(s) ==
    {[expected_project_ref |-> Build(s).project_ref, expected_build_session_ref |-> s,
      process_commitments |-> Build(s).commitment,
      expected_dataset_commitment_ref |-> Build(s).commitment,
      expected_dataset_identity_root |-> pin.identity_root,
      expected_identity_blind_epoch |-> pin.epoch, expected_leakage_scope_ref |-> Scope(s),
      expected_prereg_digest |-> plan, require_leaf_lists |-> pin.require_leaf_lists] :
        pin \in world.pins,
        plan \in {ABSENT} \cup {e.preregistration.prereg_digest : e \in plans}}

\* The lists of a caller who has these corpora, and the items or not.
Lists(s, has) ==
    LET corpora == {n \in has : n # "items"}
        refs == {CorpusRef(s, n) : n \in corpora}
        Entries(ref) == IF ref = Identity(s).dataset_ref THEN Build(s).items
                        ELSE LET n == CHOOSE n \in corpora : CorpusRef(s, n) = ref
                             IN  [i \in DOMAIN Build(s).corpora[n] |->
                                     [leaf |-> Build(s).corpora[n][i]]]
    IN  [ref \in refs \cup (IF "items" \in has THEN {Identity(s).dataset_ref} ELSE {}) |-> Entries(ref)]

\* The lists of the caller are nobody's but the caller's: any rows of either
\* kind may be in any of them, and under any reference.
HeldLists(s) == {Lists(s, has) : has \in SUBSET (DOMAIN Build(s).corpora \cup {"items"})}
ArrivedLists(s) ==
    {ABSENT} \cup {lists \in ListsArrive(world, HeldLists(s)) :
                      \A ref \in DOMAIN lists : lists[ref] \in Seq(ItemRecord \cup Leaf)}

\* Signatures cannot be made by anyone else.
ArrivedBundles ==
    {b \in BundlesArrive({i.bundle : i \in issued}) :
        /\ \E i \in issued : b.signature.signature = i.bundle.signature.signature
        /\ \E e \in plans : b.preregistration_envelope.signature.signature = e.signature.signature}
-----------------------------------------------------------------------------
NoReceipts == [decision_stream |-> <<>>, receipt_event_stream |-> <<>>, transition_stream |-> <<>>]

Init ==
    /\ world \in Worlds
    /\ clock = 0 /\ plans = {} /\ processes = {} /\ issued = {}
    /\ ledger = [s \in Sessions |-> NoReceipts]
    /\ accepted = NothingVerified

Tick ==
    /\ clock < world.max_time
    /\ clock' = clock + 1
    /\ accepted' = NothingVerified
    /\ UNCHANGED <<world, plans, ledger, processes, issued>>

Register ==
    /\ Cardinality(plans) < world.max_plans
    /\ \E design \in world.designs : plans' = plans \cup {PlanEnvelope(design, clock)}
    /\ accepted' = NothingVerified
    /\ UNCHANGED <<world, clock, ledger, processes, issued>>

Observe(s) ==
    /\ SumOf([k \in DOMAIN ledger[s] |-> Len(ledger[s][k])]) < world.max_receipts
    /\ \E o \in world.observations :
          ledger' = [ledger EXCEPT ![s][o[1]] =
                        Append(@, [step_id |-> o[2], observed_at |-> Rendered[clock]])]
    /\ accepted' = NothingVerified
    /\ UNCHANGED <<world, clock, plans, processes, issued>>

FileProcess(s) ==
    /\ Cardinality(processes) < world.max_processes
    /\ processes' = processes \cup {ProcessEntry(s)}
    /\ accepted' = NothingVerified
    /\ UNCHANGED <<world, clock, plans, ledger, issued>>

\* With any process record of the session and any plan that was registered.
Issue(s) ==
    /\ Cardinality(issued) < world.max_issued
    /\ \E p \in {q \in processes : q.pins.build_session_ref = s}, envelope \in plans,
          account \in world.accounts[s] :
          issued' = issued \cup {[bundle |-> Bundle(s, p.record, envelope, account), session |-> s,
                                  process |-> p.record, account |-> account]}
    /\ accepted' = NothingVerified
    /\ UNCHANGED <<world, clock, plans, ledger, processes>>

\* verify_dataset_record_certificate.
Verify ==
    /\ accepted = NothingVerified
    /\ \E b \in ArrivedBundles, p \in processes, s \in Sessions :
       \E ctx \in Contexts(s), lists \in ArrivedLists(s) :
          /\ VerifyDatasetRecord(b, ctx, p.record, lists, processes) = OK
          /\ accepted' = [bundle |-> b, context |-> ctx, process |-> p.record, lists |-> lists]
    /\ UNCHANGED <<world, clock, plans, ledger, processes, issued>>

Next ==
    \/ Tick \/ Register \/ Verify
    \/ \E s \in Sessions : Observe(s) \/ FileProcess(s) \/ Issue(s)
Spec == Init /\ [][Next]_vars
-----------------------------------------------------------------------------
(* Properties *)

\* The pins of a dataset record: the scope and the process record it is
\* verified with, the commitment, and the plan, pinned or not.
Pins(ctx, process, prereg_digest) ==
    [project_ref |-> ctx.expected_project_ref, build_session_ref |-> ctx.expected_build_session_ref,
     commitment |-> ctx.expected_dataset_commitment_ref, process |-> process,
     prereg_digest |-> IF ctx.expected_prereg_digest = ABSENT THEN prereg_digest
                       ELSE ctx.expected_prereg_digest]
FiledUnder(i) ==
    [project_ref |-> Build(i.session).project_ref, build_session_ref |-> i.session,
     commitment |-> Build(i.session).commitment, process |-> i.process,
     prereg_digest |-> i.bundle.preregistration_envelope.preregistration.prereg_digest]
Contract == INSTANCE RecordRegister WITH
    NONE <- ABSENT,
    filed <- {[pins |-> FiledUnder(i), record |-> i.bundle] : i \in issued},
    accepted <- IF accepted.bundle = ABSENT THEN ABSENT
                ELSE [pins |-> Pins(accepted.context, accepted.process,
                                    accepted.bundle.unsigned_manifest.prereg_digest),
                      record |-> accepted.bundle]

\* verify_dataset_record_certificate implements the register: whatever arrives,
\* parts of several records included, it accepts a bundle as the issuer signed
\* it, and only with the process record, the scope, the commitment and, when
\* the caller pins one, the plan that the issuer bound it to.
ImplementsRegister == Contract!Spec

\* The leaves that a derived reference commits to.
Committed(ref) == Range(ref.cpr[1].projection)

\* The cells in which the caller's own list has the leaf of an item.
CellsHeld(b, lists, x) ==
    {CellKey(e) : e \in {y \in Range(ItemSet(b.unsigned_manifest.identity, lists)) : y.leaf = x.leaf}}

\* A claim that is reported verified holds, whatever account the issuer gave
\* and whatever lists the caller passes: DS1, the identity is the one the caller
\* pinned; DS2, the cells of the composition part the items of the build, and
\* each has as many as it says of those that the caller's list has in it; DS3,
\* every two corpora that a finding compares are disjoint as they were committed
\* to, and were attested to be complete. The item set root is of the leaves
\* alone (_check_cell_roots): which cell a leaf belongs to is for the caller's
\* list to say, so that a caller whose list is that of the build learns that the
\* cells are, and one who tells the cells wrong in the way of the account does
\* not find out.
VerifiedClaimsHold ==
    accepted.bundle # ABSENT =>
        LET b == accepted.bundle
            build == Build(accepted.context.expected_build_session_ref)
            verified == ClaimsVerified(b, accepted.context, accepted.lists)
            Held(x) == CellsHeld(b, accepted.lists, x)
            findings == Ds3Findings(b.leakage_report)
        IN  /\ "DS1" \in verified =>
                  /\ build.identity_root = accepted.context.expected_dataset_identity_root
                  /\ build.epoch = accepted.context.expected_identity_blind_epoch
            /\ "DS2" \in verified =>
                  /\ \A x \in Range(build.items) :
                        \E c \in Range(b.composition.cells) : Held(x) = {CellKey(c)}
                  /\ \A c \in Range(b.composition.cells) :
                        Cardinality({i \in DOMAIN build.items : Held(build.items[i]) = {CellKey(c)}})
                            = c.item_count
            /\ "DS3" \in verified =>
                  /\ findings # {}
                  /\ \A f \in findings :
                        /\ Committed(f.corpus_a_ref) \cap Committed(f.corpus_b_ref) = {}
                        /\ PairOf(f) \subseteq AttestedRefs(b.leaf_generation_attestation)

\* The ticks of the clock at which the process record shows results.
ResultTicks(process) ==
    {t \in DOMAIN Rendered : \E k \in DOMAIN process.receipts : \E r \in Range(process.receipts[k]) :
        r.step_id \in OrderingStepIds /\ r.observed_at = Rendered[t]}
PlanTick(b) ==
    CHOOSE t \in DOMAIN Rendered : Rendered[t] = b.preregistration_envelope.preregistration.registered_at

\* The plan of an accepted record was registered before the first result that
\* the process record shows, in whichever stream and however the two times are
\* written (_check_ordering, _utc_microseconds).
PlanBeforeResults ==
    accepted.bundle # ABSENT => \A t \in ResultTicks(accepted.process) : PlanTick(accepted.bundle) < t

\* The basis of each claim that a caller with this evidence can bear out, by
\* the corpora and the items themselves.
Justified(s, account, ctx, has) ==
    LET build == Build(s)
        compared == {f \in Range(account.findings) : f.kind \in Ds3RelevantKinds}
        named == UNION {Range(f.pair) : f \in compared}
        Disjoint(pair) == Range(build.corpora[pair[1]]) \cap Range(build.corpora[pair[2]]) = {}
    IN  [DS1 |-> IF ABSENT \in {build.identity_root, ctx.expected_dataset_identity_root}
                 THEN "abstained" ELSE "issuer_verified",
         DS2 |-> IF "items" \in has /\ Len(build.items) <= MAX_LEAF_LIST THEN "issuer_verified"
                 ELSE "client_declared",
         DS3 |-> IF has = {} THEN "abstained"
                 ELSE IF /\ named # {} /\ named \subseteq has \cap Range(account.attested)
                         /\ \A f \in compared :
                               /\ Disjoint(f.pair)
                               /\ \E g \in compared : Range(g.pair) = Range(f.pair) /\ g.asserted
                      THEN "issuer_verified" ELSE "client_declared",
         DS4 |-> IF \E f \in Range(account.findings) : f.kind = "near_duplicate_overlap"
                 THEN "issuer_verified" ELSE "abstained",
         DS5 |-> IF 0 \in {account.cost[2], account.latency[2]} THEN "abstained" ELSE "issuer_verified"]

\* An account that says what is so.
TrueAccount(s, account) ==
    LET build == Build(s)
        Count(key) == Cardinality({i \in DOMAIN build.items : CellKey(build.items[i]) = key})
        counts == {Count(CellKey(x)) : x \in Range(build.items)}
    IN  /\ account.items = build.items
        /\ \A f \in Range(account.findings) : f.kind \in Ds3RelevantKinds =>
              LET common == Range(build.corpora[f.pair[1]]) \cap Range(build.corpora[f.pair[2]])
              IN  Cardinality(common) = f.count /\ (f.asserted => common = {})
        /\ (\E n \in counts : n < MIN_STRATUM_SIZE) => "small_stratum" \in Range(account.limitations)
        /\ (\E m, n \in counts : m > IMBALANCE_RATIO_LIMIT * n) =>
              "unbalanced_strata" \in Range(account.limitations)
        /\ account.decisive \in 1..Len(build.items) /\ account.inert <= Len(build.items)
        /\ \A r \in {account.cost, account.latency} : r[2] > 0 => r[1] <= r[2]

\* A true account with a plan that came first verifies for exactly the callers
\* whose evidence bears out each of its rows, no more and no less, and whose
\* plan, if they pin one, it is. Corpora that are too long to be listed in a
\* report cannot be certified at all.
TrueRecordVerifies ==
    \A i \in {j \in issued : TrueAccount(j.session, j.account)} :
        LET s == i.session
            plan == i.bundle.preregistration_envelope.preregistration
        IN  \A ctx \in Contexts(s), has \in SUBSET (DOMAIN Build(s).corpora \cup {"items"}) :
              VerifyDatasetRecord(i.bundle, ctx, i.process, Lists(s, has), processes) = OK
              <=> /\ \A t \in ResultTicks(i.process) : PlanTick(i.bundle) < t
                  /\ i.account.sample >= plan.policy.minimum_sample_size_n
                  /\ plan.evidence_grade # "log_inclusion_proof"
                  /\ ctx.expected_prereg_digest \in
                        {plan.prereg_digest} \cup (IF plan.evidence_grade = "digest_bound_attestation"
                                                   THEN {ABSENT} ELSE {})
                  /\ \A f \in Range(i.account.findings) : f.kind = "near_duplicate_overlap" =>
                        f.near_duplicate = plan.near_duplicate
                  /\ \A n \in DOMAIN Build(s).corpora : Len(Build(s).corpora[n]) <= MAX_LEAF_LIST
                  /\ has = {} => ~ctx.require_leaf_lists
                  /\ ABSENT \in {Build(s).identity_root, ctx.expected_dataset_identity_root}
                     \/ <<ctx.expected_dataset_identity_root, ctx.expected_identity_blind_epoch>>
                            = <<Build(s).identity_root, Build(s).epoch>>
                  /\ i.account.bases = Justified(s, i.account, ctx, has)
=============================================================================
