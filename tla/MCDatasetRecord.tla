-------------------------- MODULE MCDatasetRecord --------------------------
(***************************************************************************)
(* Three worlds. Timeline: plans, receipts of two streams and process      *)
(* records come in any order over three ticks, whose written forms do not  *)
(* sort as text. Evidence: one record of one of many accounts, true and    *)
(* wrong ones, for callers with every part of the evidence, whole, damaged *)
(* or with entries of another list or other cells. Exchange: two records   *)
(* that differ in little and bundles made of parts of both.                *)
(***************************************************************************)
EXTENDS DatasetRecordProtocol
CONSTANTS s1, s2, root1

\* A whole second, which sorts after its fractions as text, and then .49 and .5.
MCRendered == [t \in 0..2 |-> <<[second |-> 0, digits |-> <<>>], [second |-> 0, digits |-> <<4, 9>>],
                                [second |-> 0, digits |-> <<5>>]>>[t + 1]]
MCIssuer == [key_ref |-> "ikr", trust_ring_ref |-> "ring",
             public_key |-> [algorithm |-> "ed25519", owner |-> "issuer"]]
MCTerms == {"qa", "code"} \X {"easy", "hard"}

Item(leaf, category, stratum) == [leaf |-> leaf, category_id |-> category, difficulty_stratum |-> stratum]
SmallBuild ==
    [project_ref |-> "project", commitment |-> "commitment", scope_blind_commitment |-> "blind",
     identity_root |-> root1, epoch |-> 1, items |-> <<Item(2, "qa", "easy"), Item(1, "qa", "easy"),
                                                     Item(3, "code", "hard")>>,
     corpora |-> [train |-> <<12, 11>>, test |-> <<13>>, other |-> <<14, 12>>]]
\* An item set that is too long to be recomputed, and a dataset without identity.
LargeBuild ==
    [SmallBuild EXCEPT !.items = @ \o <<Item(4, "qa", "easy")>>, !.identity_root = ABSENT]
TooLongBuild == [SmallBuild EXCEPT !.corpora.test = <<13, 15, 16, 17>>]

Design(grade) ==
    [evidence_grade |-> grade, policy |-> [bootstrap |-> "bootstrap", minimum_sample_size_n |-> 2],
     interval |-> [method |-> "bootstrap_percentile_v1", level_ppm |-> 950000],
     near_duplicate |-> [method |-> "minhash", threshold_milli |-> 800],
     information |-> [method |-> "score_variance_v1", unit |-> "variance_micro"]]

Compared(a, b, count, asserted) ==
    [kind |-> "split_disjointness", pair |-> <<a, b>>, count |-> count, asserted |-> asserted,
     near_duplicate |-> ABSENT]
NearDuplicate(threshold) ==
    [kind |-> "near_duplicate_overlap", pair |-> <<"train", "test">>, count |-> 0, asserted |-> FALSE,
     near_duplicate |-> [method |-> "minhash", threshold_milli |-> threshold]]
Bases(ds1, ds2, ds3) == [DS1 |-> ds1, DS2 |-> ds2, DS3 |-> ds3, DS4 |-> "issuer_verified",
                         DS5 |-> "issuer_verified"]
AllVerified == Bases("issuer_verified", "issuer_verified", "issuer_verified")
Account ==
    [items |-> SmallBuild.items, attested |-> <<"train", "test", "other">>,
     findings |-> <<Compared("train", "test", 0, TRUE), NearDuplicate(800)>>,
     limitations |-> <<"small_stratum", "unbalanced_strata", "single_language">>, inert |-> 1,
     decisive |-> 2, sample |-> 2, cost |-> <<1, 3>>, latency |-> <<2, 3>>, bases |-> AllVerified]

\* Accounts of SmallBuild: true ones with other rows, and wrong ones.
SomeAccounts ==
    {Account, [Account EXCEPT !.bases.DS3 = "client_declared"],
     [Account EXCEPT !.bases = Bases("abstained", "client_declared", "abstained")],
     \* the pair is compared twice, the other way round and without a word on disjointness
     [Account EXCEPT !.findings = <<Compared("test", "train", 0, FALSE)>> \o @],
     \* a second pair that overlaps, as it is reported
     [Account EXCEPT !.findings = @ \o <<Compared("train", "other", 1, FALSE)>>],
     [Account EXCEPT !.findings = @ \o <<Compared("train", "other", 1, FALSE)>>,
                     !.bases.DS3 = "client_declared"],
     \* corpora whose lists were not attested, by one or all
     [Account EXCEPT !.attested = <<"train">>], [Account EXCEPT !.attested = <<>>],
     [Account EXCEPT !.findings = <<NearDuplicate(800)>>],
     [Account EXCEPT !.findings = <<Compared("train", "test", 0, TRUE)>>, !.bases.DS4 = "abstained"],
     [Account EXCEPT !.cost = <<0, 0>>, !.bases.DS5 = "abstained"],
     [Account EXCEPT !.latency = <<3, 3>>, !.decisive = 3, !.inert = 3]}
WrongAccounts ==
    {[Account EXCEPT !.findings = <<Compared("train", "other", 0, TRUE)>> \o @],
     [Account EXCEPT !.findings = @ \o <<Compared("test", "other", 1, FALSE)>>],
     [Account EXCEPT !.items = [@ EXCEPT ![1] = Item(2, "code", "hard")]],
     [Account EXCEPT !.items = Tail(@)],
     [Account EXCEPT !.limitations = <<"single_language", "unbalanced_strata">>],
     [Account EXCEPT !.sample = 1], [Account EXCEPT !.findings[2] = NearDuplicate(700)],
     [Account EXCEPT !.cost = <<4, 3>>], [Account EXCEPT !.decisive = 0],
     [Account EXCEPT !.cost = <<0, 0>>]}

Pin(identity_root, epoch, require) ==
    [identity_root |-> identity_root, epoch |-> epoch, require_leaf_lists |-> require]
World == [builds |-> [s \in {s1} |-> SmallBuild], accounts |-> [s \in {s1} |-> {Account}],
          designs |-> {Design("digest_bound_attestation")}, pins |-> {Pin(root1, 1, FALSE)},
          observations |-> {}, damage |-> FALSE, max_time |-> 0, max_plans |-> 1,
          max_receipts |-> 0, max_processes |-> 1, max_issued |-> 1]
Timeline ==
    [World EXCEPT !.observations = {<<"decision_stream", "prepare">>, <<"transition_stream", "evaluate">>},
                  !.max_time = 2, !.max_plans = 2, !.max_receipts = 2]
Evidence(build, accounts) ==
    [World EXCEPT !.builds[s1] = build, !.accounts[s1] = accounts, !.damage = TRUE,
                  !.designs = {Design(g) : g \in {"digest_bound_attestation", "log_inclusion_proof",
                                                  "caller_pinned_before_results"}},
                  !.pins = {Pin(root1, 1, FALSE), Pin(root1, 1, TRUE), Pin(root1, 2, FALSE),
                            Pin(ABSENT, 0, FALSE)}]
Exchange ==
    [World EXCEPT !.builds = [s \in {s1, s2} |-> SmallBuild],
                  !.accounts = [s \in {s1, s2} |-> IF s = s1 THEN {Account, [Account EXCEPT !.inert = 2]}
                                                   ELSE {Account}],
                  !.observations = {<<"decision_stream", "prepare">>}, !.max_receipts = 1,
                  !.designs = {Design("digest_bound_attestation"), Design("caller_pinned_before_results")},
                  !.max_plans = 2, !.max_processes = 2, !.max_issued = 2]
MCWorlds ==
    {Timeline, Evidence(SmallBuild, SomeAccounts \cup WrongAccounts), Exchange,
     Evidence(LargeBuild, {[Account EXCEPT !.items = LargeBuild.items,
                               !.bases = Bases("abstained", ds2, "issuer_verified")] :
                              ds2 \in {"client_declared", "issuer_verified"}}),
     Evidence(TooLongBuild, {Account, [Account EXCEPT !.bases.DS3 = "abstained"]})}

\* A list that lost its last entry or has its first one twice; one the other
\* way round, with its first item in another cell, or under another reference.
Damaged(lists, ref) ==
    {[lists EXCEPT ![ref] = Front(@)], [lists EXCEPT ![ref] = Append(@, Head(@))]}
Rearranged(lists, ref) ==
    {[lists EXCEPT ![ref] = Reverse(@)], [lists EXCEPT ![ref][1] = Item(@.leaf, "code", "hard")]}
    \cup {[lists EXCEPT ![ref] = lists[r], ![r] = lists[ref]] : r \in DOMAIN lists \ {ref}}
MCListsArrive(w, held) ==
    LET whole == CHOOSE l \in held : \A k \in held : DOMAIN k \subseteq DOMAIN l
    IN  IF ~w.damage THEN {whole}
        ELSE held \cup UNION {UNION {Damaged(l, ref) : ref \in {r \in DOMAIN l : l[r] # <<>>}} : l \in held}
                  \cup UNION {Rearranged(whole, ref) : ref \in DOMAIN whole}

MixedParts ==
    {{f} : f \in {"composition", "preregistration_envelope", "efficiency_report", "claim_support_rows",
                  "unsigned_manifest", "signature"}}
    \cup {{"unsigned_manifest", "signature"}, {"leakage_report", "leaf_generation_attestation"},
          {"preregistration_envelope", "efficiency_report"}}
Mixed(b, c, parts) == [f \in DOMAIN b |-> IF f \in parts THEN c[f] ELSE b[f]]
\* The efficiency report of c with a manifest that says so, under b's signature.
Remade(b, c) ==
    LET unsigned == [b.unsigned_manifest EXCEPT
                        !.efficiency_report_digest = c.efficiency_report.efficiency_report_digest]
    IN  [b EXCEPT !.efficiency_report = c.efficiency_report, !.unsigned_manifest = unsigned,
                  !.signature.unsigned_manifest_digest = ManifestDigest(unsigned)]
MCBundlesArrive(signed) ==
    signed \cup {[b EXCEPT !.integers = "float"] : b \in signed}
           \cup {Mixed(b, c, parts) : b \in signed, c \in signed, parts \in MixedParts}
           \cup {Remade(b, c) : b \in signed, c \in signed}
=============================================================================
