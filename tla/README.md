# Verification of traigent_schema

TLA+ models, TLC configurations and TLAPS proofs for the core logic of the
`traigent_schema` package: canonical encoding, the digests taken over it, the
verifiers of certificates, process records, dataset records and commitments,
the request validator, and the gate that keeps incompatible schema changes out
of the main branch. Paths are relative to the root of the repository.

The package is a library of synchronous, single-threaded functions. What makes
it hard is not threads but everything around a call: documents that several
parties sign at different times and that arrive late, twice, mixed up or with
the parts of another; explicit work stacks that replace recursion; limits that
are met exactly or exceeded by one; and answers that depend on an order no test
fixes (files, sets, streams of receipts).

## 1. The system

### Parts, their state and their operations

| part | code | state | operations |
|---|---|---|---|
| fp2 canonical JSON | `fp2.py` | work stack, open containers, output | `canonicalize` |
| best-config profile | `best_config_profile.py` | the stack and open path of `_prevalidate`, then fp2's | `config_digest`, `spec_digest` |
| declared invariants | `invariants.py` | validation stack with a node budget, comparison stack | `validate_declared_invariants` |
| v0 certificate | `certification/relying_party_verifier.py` | none of its own; the parties keep sessions, responses, certificates | `prepare_client_co_attestation`, `verify_certificate`, `verify_certificate_with_materials` |
| process record | `certification/process_record_verifier.py` | none of its own; receipts, issued bundles, status snapshots | `verify_process_record_certificate` |
| commitment linkage | `certification/commitment_linkage.py` | none of its own; declarations and issued sidecars | `compute_commitment`, `verify_and_open_commitment` |
| example identity | `example_identity.py` | totals while counting; the fold of an audit path | `compute_multiset_root`, `is_sub_multiset`, `example_id_overlap`, `build_inclusion_proof`, `verify_inclusion_proof` |
| schema validator | `validator.py` | tables filled by the constructor | construction, `validate_request`, `validate_json` |
| dataset record | `certification/dataset_record_verifier.py` | none of its own; plans, receipts, process records, issued bundles | `verify_dataset_record_certificate` |
| breaking schema check | `scripts/breaking_schema_check.py` | roles, findings and the report within a run; between runs, the branch and its allowlist | `main`: roles, comparison, allowlist, exit code |
| evaluator and agent quality verifiers | `certification/*_quality_verifier.py` | none of their own | verification of further records |
| smaller parts | `content_identity`, `prohibited_register`, `analytics`, `tvl_reactive`, `labels_reference`, `scripts/` | none that outlives a call | see `PROJECT.json` |

How they interact. Every digest and every signed byte string is the output of
`fp2.canonicalize`. The profile and the declared invariants walk a value
themselves before they hand it on or compare it, with rules of their own. The
process record verifier calls the v0 verifier on the certificate embedded in
its bundle and then takes the issuer key and the manifest digest from it. The
dataset record verifier calls the process record verifier in the same way, and
adds a preregistered plan and reports about the data. The commitment linkage binds a sidecar to a process record by digest. The schema
validator stands alone on top of the jsonschema library, and the breaking
schema check compares two trees of the schemas that it would load.

### What is hard, and which property answers it

`PROJECT.json` lists the hazards at their lines. In short:

* **A loop over an explicit stack** (fp2, profile, invariants) must keep its
  set of open containers equal to the current path, or it calls a shared value
  circular or misses a cycle; it must end on values that contain themselves;
  limits are tested at one place and apply at another.
  `OpenContainersArePath`, `AgreesWithRecursive`, `RefusalIsReal`,
  `StacksBounded`, `Terminates`.
* **Two walks over one value** in different orders and with different rules:
  `Fp2RefusesOnlyTextAndNonFinite`, `DigestIffAdmissible`,
  `NoVerdictOnUnevaluable`.
* **Late, replayed and recombined documents** (certificates, records,
  sidecars): `ApprovedIsOwnSession`, `AcceptedIsGenuine`, `AcceptedAsApproved`,
  `ImplementsRegister` of both records, `OutcomeIsOfIssued`, `MatchIsDeclared`.
* **A stale status, or a stale acknowledgement**: `StatusIsOfAccepted`,
  `RevocationTakesEffect`, `AcknowledgedWasPrinted`.
* **Evidence that is only partly there**: what a record is reported to show must
  follow from the lists the caller really holds: `VerifiedClaimsHold`.
* **A check too strict for honest parties**, the failure that tests of
  rejections never see: `ApprovedVerifies`, `IssuedRecordVerifies`,
  `TrueRecordVerifies`, `NoFalseMismatch`, `BuiltProofVerifies`.
* **Order nobody fixes**: `OneVerdict`, `SameRootIffSameBag`,
  `ReportIsOfLastReceipts`, `PlanBeforeResults`.
* **Boundaries of arithmetic**: `AcceptedAtIndex`, `AcceptedIsInDataset`,
  `RefusedIffImproper`.
* **Rules with a direction**: `NoSilentBreak`.

## 2. The modules

`Checks` holds the one convention of all verifiers: a check is `OK` or the code
of the error it raises, and `a && b` is b unless a raised. A verifier is then
the `&&` of its checks in the order of the code, and the first error is the
outcome.

| module | models | how state and actions correspond to the code |
|---|---|---|
| `JsonHeap` | Python values | a heap from nodes to objects, so that two references may reach one container and a container may reach itself; an object has its exact type, a scalar its text, a key its rank in UTF-16 order |
| `Fp2` | `fp2.canonicalize` | `work` is the stack, `open` is `open_containers`; one action per branch of an iteration of the loop of `_encode` |
| `Fp2Reference`, `SmallGraphs` | nothing of the code | the recursive encoder and the reader of canonical text that Fp2 is compared with; builders of graphs |
| `BestConfigProfile` | `_canonical_bytes` | extends Fp2: `pwork` and `open_ids` belong to `_prevalidate`, then fp2 runs on the same heap, then the size is bounded; a call may also enter fp2 directly |
| `DeclaredInvariants` | `validate_declared_invariants` | declarations one after another; within one, the stacks of `_prevalidate_canonical` on both sides and of `_compare_validated` |
| `CertificateV0` | the checks of `relying_party_verifier.py` | constant-level operators, one per function of the code and in its order |
| `CertificateDocuments` | documents and pins | what issuer and client sign, what client and relying party pin |
| `CertificateProtocol` | the life of a v0 certificate | `Prepare`, `Finalize`, `Revoke`, `Retrieve`, `Retry` of the external issuer and client around `CoSign`, `Verify`, `VerifyDiscovered`, each a whole call of the library |
| `ProcessRecord` | the checks of `process_record_verifier.py` | constant-level operators on top of CertificateV0 |
| `ProcessRecordProtocol` | the life of a process record | `Record` and `Issue` of the backend, `RevokeStatus` and `Publish` of the trust anchor, `Tick`, and the two ways to call `verify_process_record_certificate` |
| `RecordRegister` | nothing of the code | the abstract specification of a verifier of records: what was filed under the caller's pins, or nothing |
| `DatasetEvidence` | the recomputing half of `dataset_record_verifier.py` | constant-level operators: overlaps, coverage, information and the basis of each claim, from the lists the caller holds |
| `DatasetRecord` | the checks of `dataset_record_verifier.py` | constant-level operators in the order of `verify_dataset_record_certificate`, on top of the contract of the process record verifier |
| `DatasetRecordProtocol` | the life of a dataset record | `Register`, `Observe`, `FileProcess`, `Issue` of the issuer, `Tick`, and `Verify`, a whole call |
| `CommitmentLinkage` | `commitment_linkage.py` and its use | `Declare`, `Issue`, `Open`; the last is a whole call of `verify_and_open_commitment` |
| `MerkleTree` | the tree of `example_identity.py` | hashes as terms, audit paths |
| `InclusionProof` | proofs | one step per round of the loop of `_fold_audit_path` |
| `MultisetRoot` | `compute_multiset_root` | one step per item counted |
| `ExampleIdentity` | the users of both | puts roots and proofs side by side, with `is_sub_multiset` and `example_id_overlap` |
| `SchemaDiff` | the comparator of `breaking_schema_check.py` | one operator per rule, the findings in the order of the code |
| `BreakingSchemaCheck` | the gate | `Edit`, `Acknowledge` and `Land` of the author around a run of the gate, whose steps are the rounds of `propagate_roles`, one file compared after another and the judgement by the allowlist |
| `SchemaContract` | nothing of the code | which payloads a schema accepts, and what it means that a change breaks someone |
| `SchemaValidator` | `validator.py` | one step per file read and per operation registered, then calls |
| `MC*` | nothing of the code | values of the constants for TLC |
| `Fp2Proofs`, `CertificateProofs`, `LinkageProofs`, `ProcessRecordProofs`, `DatasetRecordProofs`, `SchemaValidatorProofs`, `ExampleIdentityProofs` | nothing of the code | theorems about the module of that name; those of `Fp2Proofs` also about `BestConfigProfile` |
| `CertificateLemmas` | nothing of the code | what the v0 documents are and what the v0 checks establish, used by the proofs about certificates and about process records |

### Abstractions

* A digest is a term that holds what was digested under its domain name: two
  digests are equal when their inputs are. Collisions of SHA-256 are outside
  the models, as are HKDF and HMAC.
* A signature is a record of key, material and encoding. A verifier sees a
  valid one only if it was made (`Made`, `RecordMade`, and the corresponding
  condition of CommitmentLinkage); anyone may damage an encoding or take the
  high-S twin of an ECDSA signature. Apart from that **arrival is arbitrary**:
  `Arrives`, `BundlesArrive`, `ListsArrive`, `StatusesArrive` and `Presented` are operators
  given as constants. The proofs hold for every such operator; the runs
  instantiate them with everything sent and with recombinations of it.
* Since what was sent stays available, loss, delay, duplication and reordering
  of messages are all behaviours of the models.
* Text is kept only where a property tells it apart: tokens instead of
  characters in fp2, segments instead of strings in paths, integers instead of
  timestamps.
* Whether the integers of a member were decoded as integers or as floats is
  kept, as a mark, in the process record and the dataset record: Python's `==`
  and fp2 both take 1.0 for 1, and only the walks over the integers
  (`_check_strict_integers`, `_walk_strict_integers`) tell them apart. The v0
  verifier has no such walk, and that of the process record does not enter the
  base certificate, so that documents of v0 are compared up to Python's `==`.
* A schema is a function of its keywords and a pattern is the set of strings it
  matches, so that validity is decidable without strings.
* Backend, issuer, client application and trust anchor are not part of the
  repository. They are modelled from what the verifiers expect of them and are
  marked external in the map.

## 3. The runs

| run | what it explores | what it shows |
|---|---|---|
| `canonical_json` | every object graph of three nodes from a family with shared, circular, empty and mixed containers, nesting limit 2; fp2 called directly and behind the profile | the stack machine answers as a recursive encoder would; its text determines the value whatever identities and insertion order were; the open set is the path; the two walks of the profile agree on what is admissible and every refusal is of something really there; it ends |
| `fp2_floats` | the same, fp2 alone | *expected violation*, see section 6 |
| `declared_invariants` | payloads of six nodes with shared and circular subtrees, three relations, depth 2, budget 4 | relations are decided as structural equality under exact types says; nothing is decided on a subtree that cannot be evaluated; stacks stay within the budget; it ends |
| `certificate` | two sessions of one project, one client key, the same nonces, a retry, two responses, one certificate | client and relying party are never led to another session, nonce or issuance; what the client approves does verify |
| `retrieval` | two certificates, each active or revoked at any time around its retrieval | an accepted status is that of the accepted certificate |
| `process_record` | three worlds. *Recording*: up to three receipts in two streams. *Mixing*: two records over three base certificates, arriving mixed, shortened or with the integers of one member retyped. *Revoking*: two rings, two certificates, revocations and two snapshots at times 0 to 2, age limit 1 | verification implements the register of issued records; the report shows the last receipt of each step; an honest record fails only over a ceiling or after a late receipt; a revocation takes effect within the age limit |
| `dataset_record` | three worlds. *Timeline*: plans, results in two streams and process records in any order at times of different precision. *Evidence*: twenty-two accounts of one build, true and wrong, and builds with lists over the ceiling, for callers with every subset of the lists, whole, with an entry lost or doubled, the other way round, with an item in another cell, or with two lists under each other's references. *Exchange*: two records of two sessions and bundles made of parts of both | verification implements the register of issued records; claims reported verified hold of the build, the cells of its items being as the caller's list has them; no accepted plan is later than a result; a true record verifies for exactly the callers whose evidence bears it out |
| `schema_validator` | a contract of nine routes in three catalogs, with references to files of the same and of the parent directory and to definitions, some of which dangle: in the declared schema, behind another reference, or in a branch that only one payload enters; modules missing, broken or outside the package, every order of files, every policy | nothing passes that no readable catalog declares; the order of a set never changes a verdict; a dangling reference of the contract is never taken for a defect of the payload, nor the other way round |
| `example_identity` | two sequences of up to three items under a count ceiling of 7; datasets of one to six members with every path of up to three hashes, indexes and sizes around the true ones | equal roots are equal multisets; a refusal is exactly for an improper input or a total over the ceiling; relations hold of the items; built proofs verify; what verifies occurs in the dataset just as often, at its index |
| `commitment_linkage` | three records of two sessions, two issuances, two orders of entries | a match is a declared fingerprint of the pinned record; the right opening is never a mismatch |
| `breaking_schema` | seven families of trees: a request, a response and a bare schema between any two of their variants; files whose users change; references that return, dangle or move; an endpoints document; and an allowlist over three runs of the gate | a change that can break a sender or a reader passes only acknowledged; an acknowledgement covers only what the gate has printed |
| `breaking_enum` | an enum introduced on a request | *expected violation*, see section 6 |

### Bounds and why they are enough

Every bound is a named constant (`Max...`, `MAX_...`, `TRUST_MAX_AGE`,
`Revocable`, `GATE_RUNS`, the `max_` members of a world) and stands in a guard
or in the family of inputs. A *world* fixes the bounds of a behaviour from its
first state on, so that one run holds several small instances, each large in
the direction its question needs, instead of their product.

* *Graphs.* Three nodes are the least with a container shared by two others
  and with a cycle that does not start at the root. The limit of 2 is met and
  exceeded by one. Budgets 4 and 7 are met and exceeded likewise.
* *Sessions, nonces, responses.* A confusion of two needs two. The sessions
  agree in everything but the one member that is to tell them apart.
* *Receipts.* Two per stream are allowed and three recorded, so that the ceiling
  of a stream is met and exceeded. The ceiling of a bundle is three times that
  of a stream, as it is in the code (6144 and 2048), and so never decides.
* *Time.* With an age limit of 1, times 0 to 2 hold a snapshot that is fresh,
  one just at its limit and one beyond it. The three times of *Timeline* are
  written as 0, 0.49 and 0.5: as text a whole second sorts after its fractions
  (`00Z`, `00.49Z`), and without padding 49 exceeds 5.
* *Lists.* With a ceiling of 3, three items are listed and four are too many;
  three corpora give a pair that is disjoint, one that overlaps and one that no
  finding mentions.
* *Trees.* Six leaves include the sizes 3, 5 and 6 at which the right edge
  skips one level, or two.
* *Counts.* Three items of at most 3 under a ceiling of 7 reach the ceiling and
  exceed it for one member; one of 6 beside another of 1 or 3 reach and exceed it
  for the total of all members.
* *Schemas.* The constants of the comparator are those of the code (25 hops, 60
  levels, reasons of 20 characters). One run of the gate decides a change; three
  are needed for an acknowledgement to be written, then used, then met by
  another change. `Edit` also goes to any tree in one step, so that changes of
  several keywords and files at once are among the pairs.

No run uses symmetry: the model values that could be exchanged are told apart
by the constants.

Deadlock is not checked where a call has ended and there is nothing left to do;
it is checked for `commitment_linkage`, where a reader can always ask again.

### Fairness

Only `canonical_json` and `declared_invariants` state liveness, under weak
fairness of the next step of the call: a synchronous function that nobody
interrupts keeps taking steps until it returns. No fairness is assumed of any
party that sends, signs, retries, revokes or edits.

### Refinement

`RecordRegister` says in a few lines what a caller may rely on: the issuer files
entries, each a record under the pins a caller would ask with, and a
verification shows an entry that was filed, or nothing. `ProcessRecordProtocol`
and `DatasetRecordProtocol` are both shown to implement it (`Contract`,
`INSTANCE RecordRegister WITH`): `filed` is what was signed with the pins it was
signed for, `accepted` what has just verified with the pins of the call. That
nothing is accepted which is assembled from parts of several records, or under
pins of another session, is then a statement about steps of the register. The
dataset record verifier itself calls the process record verifier; there the
model uses the register's promise (`VerifyProcess`: what was filed under these
pins) in place of the code, which is what the first refinement justifies.

## 4. What is proved

For every value of the constants, checked by TLAPS.

* **Fp2Proofs.** `Fp2TypeCorrect` (`Fp2Spec => []TypeOK`) and
  `Fp2OpenContainersArePath` (`Fp2Spec => []OpenContainersArePath`), from
  `MAX_DEPTH \in Nat \ {0}`, ranks that are naturals and inputs that are
  well-formed heaps of any size. The second is inductive together with the
  first: the property itself speaks of the whole stack, the closing markers
  below any entry being the containers open at its depth. `TailIsOpenPath` and
  `PushIsOpenPath` say that popping an entry, and replacing the top by what
  `_open_container` pushes, keep it; `PendingShape` says what is pushed.
  `ProfileLeavesTextAndNonFinite`
  (`ProfileSpec => []Fp2RefusesOnlyTextAndNonFinite`) says that what
  `_prevalidate` lets through, fp2 refuses only for a non-finite number or a lone
  surrogate. The two walks visit in different orders, so no step of one
  corresponds to a step of the other. What they share is `Sound`: the places (a
  node, its depth, the containers open around it) from which everything that can
  be reached fits. It is defined as the largest set of places that fit and
  contains the children of its containers, which needs no induction over the
  value. `WalkInv` says that while `_prevalidate` walks, the whole value is sound
  if what is left on its stack is, so that it is sound once the stack is empty;
  and that while fp2 walks, everything on its stack is sound. The places of the
  entries of either stack come from `IsOpenPath`, used here for both.
* **CertificateProofs**, on **CertificateLemmas**. `OnlyGenuineAccepted`,
  `OnlyApprovedAccepted` and `OnlyOwnSessionApproved` for any sessions, plan,
  numbers of attempts and whatever arrives. The properties are not inductive:
  that a verified document is one the issuer made follows only from knowing what
  every signed material looks like. `CertificateInv` therefore adds
  `PreparedByIssuer` (each response is what the issuer makes for some session
  and nonce) and `SignedByClient` (each co-signature is on a projection the
  client had checked against its pins). `VerifiedFacts` and `ApprovedFacts`
  extract from the two sequences of checks what they establish about any
  document; `ManifestDeterminesDocument` says that a document which passes is
  determined, member for member, by the manifest the issuer signed. This is why
  parts of several issuances cannot be recombined. `StatusOfAccepted` is an
  action property: its step of `VerifyDiscovered` follows from the same facts
  and from what the retrieval endpoint put into a response. `ApprovedVerify`
  goes the other way, from a document to the checks: the certificate that the
  client co-signed passes each stage of `verify_certificate`, one lemma a
  stage. It is the theorem that a check too strict for an honest party would
  break.
* **LinkageProofs.** `OutcomesAreOfIssued`, `MatchesAreDeclared` and
  `NoMismatchIsFalse` for any records, declarations, orders of entries and
  presented sidecars. `IssuedInv` says that each issued sidecar is the one for a
  declared session under the openings of its own issuance; `OpenedInv` that the
  answer held is that of its call on a sidecar whose signature was made before.
* **ProcessRecordProofs.** `RegisterImplemented` (`Spec => ImplementsRegister`,
  the refinement of `RecordRegister`), `RevocationEffective`,
  `ReportOfLastReceipts` and `IssuedVerify`, for any base certificates the issuer finalizes, any
  sessions, receipts, times and whatever arrives. `RecordInv` says what the
  backend bases its records on (`BasesInv`), what it signed (`IssuedInv`) and
  that a snapshot calls active only what had not been revoked before its date
  (`StatusInv`). The refinement maps initial states to initial states and each
  action to a step or a stutter of the register; the step of a verification
  rests on `AcceptedWasIssued`, that a bundle which passes is determined by the
  manifest the backend signed and by the base certificate under the caller's
  pins: `Content`, that is every member but the discovery materials, the
  integers of the V1 members down to their type and those of the base
  certificate up to equality. For the report, `LedgerInv` adds that receipts are numbered from 1 in
  each stream and that what was signed is a prefix of what was recorded;
  `LastPlace`, by well-founded descent on positions, and `SelectedIsLast` say
  what `_derive_report` selects. `IssuedVerify` goes from the document to the
  checks, as `ApprovedVerify` does: a record the backend signs passes each stage
  of `verify_process_record_certificate`. Its base passes with the materials
  published for it (`FinalizedVerifiesWithMaterials` in `CertificateLemmas`); its
  receipts are numbered, closed and of one session, and fail only at the limits
  (`RecordedReceiptsPass`); its report is the one the verifier derives exactly
  when no later receipt of a step came in (`ReportTellsLast`). Neither
  `RecordInv` nor `LedgerInv` says what the receipts look like that a report was
  compiled of; `CompiledInv` adds that they, and the signed ones, are receipts
  the session recorded.
* **DatasetRecordProofs.** `RegisterImplemented`, the second refinement of
  `RecordRegister`, `PlanComesFirst` and `ClaimsAreTrue`. `DatasetInv` says what the issuer
  signed and that each plan, receipt and process record bears the time at which
  it was made. The verifier is shown to bind every document of a bundle to the
  signed manifest (`BoundToManifest`); the plan is bound through the composition
  and through the process record, whose own verification enters as the promise
  of the register. A claim follows from its own checks and from the lists of the
  caller: `SortedHas` says that sorting a corpus keeps its leaves,
  `CellsListed` that the counts of a report are those of every cell. An item list
  that names no leaf twice, under the root of the build's items, has these leaves
  and no others, so that items and entries match one to one (`ItemsMatched`),
  and each cell has as many items as the list has entries in it
  (`CellsMatched`), whatever the caller passed. `ClaimsFollow` needs from the
  invariant only which build the bundle is of.
* **SchemaValidatorProofs.** `CleanDeclared`, `ReferenceErrorReal` and
  `VerdictIsUnique` for any files, catalogs, requests and orders of iteration.
  `ValidatorInv` says where the entries of the tables come from: a schema is
  that of the one file of its name, a key of a table is an operation of a
  catalog that was read, with the body it has there and the directory of that
  catalog. For `ReferenceErrorReal`, an evaluation resolves when some set of
  evaluations that is closed under references meets no dangling one
  (`Resolves`); the property speaks of those that a payload really leads to, the
  least closed set (`Reached`). `AllRegistered` says that a validator which is
  ready has registered every readable file, `LeastIsClosed` that the least set is
  closed itself, so that by `DanglingIsUnresolved` the two agree.
  `VerdictIsUnique` keeps the hypothesis of the property, that
  overlapping templates have no body: without it the verdict does depend on the
  order.
* **ExampleIdentityProofs.** All six properties of example identity, for items
  and trees of any number and whatever proofs arrive. `CallsInv` says of a
  running call that its totals are the counts of the items taken so far, and of
  a finished one that its result is what its items give; `ProofInv` says what the
  fold and the verdict have found. Each has its induction below it.
  *Roots*: `NormalizedIs` says what the sorted members are, each with the count
  of its pair and with as many before it as its place says, `SameRoot` that a
  root determines them, `TotalCount` that the ceiling on the members is one on
  the items. This gives `SameRootAlways`, `RefusedAlways` and `RelationsAlways`.
  *Proofs*: `_path` recurses downwards and `_fold_audit_path` climbs upwards, so
  nothing in one corresponds to a step of the other. What they share is
  `AtLevel`: the two indices of the loop are those of the node over the leaf
  among the nodes of one width and of the last node, and `NextLevel` says where
  its sibling stands. `SkippedLevel` says that the levels which
  `_skip_right_edge_levels` leaves out have no sibling. A built path is
  a path through these levels (`OnPath`), hence `BuiltVerifiesAlways`. For a
  proof that arrives, `InTree` says that a hash of the tree can only have come
  from a leaf, and so gives `AcceptedIsIn`; `AtIndex` says that with the true size it
  can only have come from the leaf of that index, and gives `AcceptedIsAtIndex`.

The proofs rest on unforgeability of signatures and injectivity of digests, both
of which are the shape of the terms as described above, and on the named
`ASSUME`s of the modules, which the runs of those modules evaluate:

| assumption | what it says, and why the code justifies it |
|---|---|
| `DepthAssumption`, `InputsAssumption`, `RankAssumption`, `SizeAssumption` | the nesting limit is positive, inputs are well-formed heaps, ranks and the size limit are naturals |
| `PlanAssumption`, `VersionsAssumption` | a session names a project, and the policy has a verifier for each claim that can be printed: the members `_materials_policy` and the schema of a certificate require |
| `KeysAssumption` | keys are of the supported algorithms, a client's key and what is derived of it are not `None`, and its root, a digest, is not the zero digest |
| `AttemptsAssumption` | a client makes at least one attempt |
| `CoAttestationAssumption`, `DigestAssumption`, `AbsentAssumption` | a document, a digest, an outcome, a refusal is not `None` |
| `BasesAssumption`, `NonceAssumption` | process records are based on finalized certificates, with a co-attestation where a claim asks for one (`_verify_co_attestation` accepts no other); an issuer finalizes one certificate for a session and nonce |
| `WorldsAssumption`, `StatusAssumption` | a world names bases that exist; the age limit is a natural number and a snapshot covers finitely many references |
| `BuildsAssumption` | the items of a build and of an account of it are lists of leaves in cells, with integer leaves, as parsed |
| `TimeAssumption` | later times are rendered as texts that `_utc_microseconds` reads as larger numbers |
| `MaxCountAssumption`, `InputsAssumption` (of `MultisetRoot`) | the ceiling is positive; an item is a member with integer tokens and count, or none, as `_coerce_members` leaves it |
| `FilesAssumption`, `LoopsAssumption`, `CatalogsAssumption`, `VariablesAssumption` | packaged schema files have distinct names and distinct `$id`s, as all 516 do; evaluating a schema never comes back to the same schema at the same place of the payload, which would exhaust the interpreter's stack; a catalog lists operations with no, a named or an inline body, and `{name}` is no empty segment |

Only model-checked:

* liveness (`Terminates`), which needs fairness and ENABLED;
* everything that compares with a recursive reference (`AgreesWithRecursive`,
  `CanonicalTextDenotesValue`, `DigestIffAdmissible`, `RefusalIsReal`,
  `HeldIsStructuralEquality`, `NoVerdictOnUnevaluable`, `RefusalIsJustified`):
  the references are RECURSIVE operators and the argument is by induction over
  data;
* `TrueRecordVerifies`: that an honest dataset record passes every check that it
  should, over cells the code sorts and counts;
* `StacksBounded`, whose proof has not been tried: the bound on the pairs of the
  comparison rests on the size of the unfolded subtree that the walk has counted,
  and so on an induction over data;
* the breaking schema check, whose comparator follows schemas of any depth with
  RECURSIVE operators.

## 5. What is not modelled

* Parsing and encoding of bytes (`loads_strict`, base64, DER, SPKI), HKDF,
  SHA-256, the escaping of strings and the digits of numbers: data, or the
  cryptography library. Timestamps are integers except in the dataset record,
  where their precision is kept.
* JSON Schema evaluation, an external library. What the verifiers rely on, closed
  members and constants, is stated by the operators that stand for the schemas;
  `SchemaContract` states the keywords that the comparator looks at;
  `SchemaValidator` states which references an evaluation follows, on which
  payloads, to which documents and definitions. Payloads so deep that the
  interpreter's stack gives out, other exceptions of the library, and `$id`s that
  are relative, of which the package has one, are left out.
* File lookup and import-time loading of registers and policy documents.
* The estimate of the size of a document before it is canonicalized, and the
  translation of unexpected exceptions into sanitized codes: no property here
  depends on them.
* Of the dataset record verifier, the check of categories against the taxonomy
  (categories are arbitrary) and that of `decisive_subset_estimator_kind`, which
  compares one member of the report with a constant.
* The evaluator-quality and agent-quality verifiers: planned, below. The interval
  arithmetic of the second is on integers out of TLC's reach.
* Git, archives and the layout of the report of the breaking schema check, the
  other gates of continuous integration, generators of vectors, analytics, TVL
  and label conformance: one-shot or stateless.

What the properties deliberately leave open, because the code does:

* *Dataset record.* The root of an item set is of its leaves alone, and the
  roots of the cells are compared with those of the caller's own list: which cell
  an item is in is for that list to say. DS2 tells a caller that the report
  parts the items of the build as their list does. A caller who has the cells
  wrong in just the way of the issuer does not find out. A plan is compared with
  the receipts of the process record it comes with; a result that no receipt
  shows is not known to anyone. Corpora over the ceiling cannot be listed in a
  report, so that no caller can verify a record about them.
* *Breaking schema check.* `NoSilentBreak` is about payloads without a member
  that one of the two schemas names and the other, being open, left
  unannounced: the code reports those as information (`Unannounced`). The
  families of request and response schemas leave out schemas that differ by
  whole enums, which the bare family and `breaking_enum` have. All leave out
  what the comparator marks for manual review or does not look at: schemas that
  become `true` or `false` or lists of items, references that are circular on
  one side only, a branch of a oneOf that is widened or a pattern that is
  changed under one role only, media and parameters without a schema, responses given by a reference into `components` and parameters given
  on the path, members that are named like a keyword (`responses`,
  `requestBody`, `parameters`), a file removed by one merge and added again by
  a later one, and base trees whose references dangle.

## 6. Findings

`fp2_floats`: the docstring of `_check_strict_integers`
(`certification/process_record_verifier.py:729`) says that "fp2 rejects floats
outright". `fp2.canonicalize` encodes every finite float, and
`docs/fingerprints/fp2.md` says it does not tell an integer from a float. The
walk over the integers of the V1 members is therefore the only thing that keeps
a bundle with a float alias in one of them apart from the one that was signed,
not a second guard: `ImplementsRegister` of the process record fails when the
walk is taken away. The embedded base certificate has no walk at all. The v0
verifier says of itself (`certification/relying_party_verifier.py:566-569`) that
schema and fp2 accept integral floats, and compares tiers with `!=`: a bundle
whose base certificate has the tier 3.0 for 3 verifies. The model accepts it
too, and `Content`, which says when two records are the same, counts it as the
record that was signed.

`breaking_enum`: the docstring of `_keyword_finding`
(`scripts/breaking_schema_check.py:242`) says of a request schema that
"narrowed -> BREAKING (a previously-valid submission is now rejected)". An enum
that is introduced on a member rejects such submissions, but `_enum_delta`
(line 704) turns it into an added member, `_compare_enum` routes added members
as widening, and the gate passes with a line of information. The opposite case,
an enum dropped from a response, passes in the same way. `_set_delta`, which
serves `type`, has both cases the right way round.

## 7. Plan

Done: fp2 and its two callers, the v0 certificate, the process record and the
dataset record with the register both implement, the commitment linkage, example
identity, the schema validator, the breaking schema check; both refinements and
the safety properties of certificates, records, linkage, example identity and
validator proved.
Next, in this order:

1. Proofs: `StacksBounded`; `TrueRecordVerifies` from the stages as in
   `ApprovedVerify` and `IssuedVerify`.
2. `EvaluatorQuality` and `AgentQuality`, composed on `ProcessRecord`: binding of
   each record to the one below it, their own trust-status rules, the stages of
   the agent verifier and its arithmetic on splits.
3. Example ids and versions under key rotation, so that the multiset relations
   can be asked across keys.
4. The strict canonicalization of the certification package and the import-time
   registers, including the prohibited-claims register.
