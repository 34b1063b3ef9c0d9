-------------------------- MODULE MCProcessRecord --------------------------
(***************************************************************************)
(* Three worlds of one project. Recording: a session with receipts in two  *)
(* streams beside one without. Mixing: two records of two sessions that    *)
(* differ in little, over three base certificates, two of them of one      *)
(* session under two nonces, the same steps observed in both sessions and  *)
(* commitments that were declared twice; a bundle arrives as it was signed *)
(* or with parts of another one, with receipts dropped or swapped, with    *)
(* floats for the integers of one member, or made up around an old         *)
(* signature. Revoking: one certificate per session, keys and certificates *)
(* revoked before, between and after two snapshots.                        *)
(***************************************************************************)
EXTENDS ProcessRecordProtocol
CONSTANTS s1, s2, ring1, ring2

IKey == [algorithm |-> "ed25519", owner |-> "issuer"]
CKey == [algorithm |-> "ecdsa_p256_sha256", owner |-> "client"]
AKey == [algorithm |-> "ed25519", owner |-> "anchor"]
MCRegisters == [compiler_version |-> "1", semantics |-> "semantics"]
MCVersions == [id \in {"B1", "G1"} |-> <<id, "1">>]

MCPlan ==
    [s \in {s1, s2} |->
        [project_ref |-> "project", seal_ref |-> s, evidence |-> s, client_key |-> CKey,
         trust_ring_ref |-> IF s = s1 THEN ring1 ELSE ring2, privacy_mode |-> "offline",
         commitments |-> IF s = s1 THEN {"declared", "redeclared"} ELSE {"declared"}]]

Base(s, nonce, printed, commitments) ==
    [session |-> s, nonce |-> nonce, commitments |-> commitments,
     certificate |-> Finalized(s, nonce, printed)]
MCBases == <<Base(s1, 1, <<"B1">>, "declared"), Base(s1, 2, <<"G1">>, "redeclared"),
             Base(s2, 1, <<"B1">>, "declared")>>

Observation(stream, step, basis) == [stream |-> stream, step |-> step, basis |-> basis,
                                     values |-> "completed"]
MCObservations ==
    [s \in {s1, s2} |->
        {Observation("decision_stream", "select", "backend_observed")} \cup
        IF s = s1 THEN {Observation("transition_stream", "select", "client_attested")} ELSE {}]
UpTo(n) == [s \in {s1, s2} |-> IF s = s1 THEN n ELSE 0]
Recording == [bases |-> <<1, 3>>, max_receipts |-> UpTo(3),
              max_issued |-> 1, max_time |-> 0, max_snapshots |-> 0]
Mixing == [bases |-> <<1, 2, 3>>, max_receipts |-> UpTo(2),
           max_issued |-> 2, max_time |-> 0, max_snapshots |-> 0]
Revoking == [bases |-> <<1, 3>>, max_receipts |-> UpTo(0),
             max_issued |-> 1, max_time |-> 2, max_snapshots |-> 2]
MCWorlds == {Recording, Mixing, Revoking}

MixedParts ==
    {{f} : f \in {"base_certificate_v0", "verification_materials_v0", "receipts",
                  "unsigned_manifest", "signature"}}
    \cup {{"unsigned_manifest", "signature"}, {"receipts", "report", "claim_support_rows"},
          {"base_certificate_v0", "verification_materials_v0"}}
Mixed(b, c, parts) == [f \in DOMAIN b |-> IF f \in parts THEN c[f] ELSE b[f]]

\* A consistent bundle over other receipts, under the signature of b.
Rebuilt(b, rs) ==
    LET ref == b.verification_materials_v0.certificate_ref
        s == SessionOf(ref)
    IN  [Bundle(ref, rs, DeriveReport(rs, Plan[s].project_ref, s), b.unsigned_manifest.commitments)
            EXCEPT !.signature.signature = b.signature.signature]
Dropped(rs) == [rs EXCEPT !["decision_stream"] = IF @ = <<>> THEN @ ELSE Tail(@)]
Altered(b) ==
    {Rebuilt(b, Dropped(b.receipts)), Rebuilt(b, NoReceipts),
     [b EXCEPT !.signature.signature.form = "malformed"]}
    \cup {[b EXCEPT !.integers[member] = "float"] : member \in IntegerMembers}

MCBundlesArrive(sent) ==
    IF world = Revoking THEN sent
    ELSE sent \cup UNION {Altered(b) : b \in sent}
              \cup {Mixed(b, c, parts) : b \in sent, c \in sent, parts \in MixedParts}

\* A snapshot arrives as it was signed, dated anew, with entries of another
\* one, or with entries before its own.
MCStatusesArrive(sent) ==
    sent \cup {[e EXCEPT !.snapshot.effective_time = clock] : e \in sent}
         \cup {[e EXCEPT !.snapshot.certificate_status = f.snapshot.certificate_status \o @] :
                  e \in sent, f \in sent}
MCRevocable == {ring1, 1}
MCCoverings == {<<{ring1, ring2}, {1, 2}>>, <<{ring2}, {1}>>}
=============================================================================
