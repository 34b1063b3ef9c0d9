----------------------- MODULE MCCertificateProtocol -----------------------
(***************************************************************************)
(* Two sessions of one project, under one client key and with the same     *)
(* nonces: only the session tells them apart. A document arrives as it was *)
(* sent or with the parts of one of MixedParts taken from another document *)
(* on the wire, or with a damaged signature.                               *)
(***************************************************************************)
EXTENDS CertificateProtocol
CONSTANTS s1, s2

IKey == [algorithm |-> "ed25519", owner |-> "issuer"]
CKey == [algorithm |-> "ecdsa_p256_sha256", owner |-> "client"]
MCPlan ==
    [s \in {s1, s2} |->
        [project_ref |-> "project", seal_ref |-> s, evidence |-> s, client_key |-> CKey,
         trust_ring_ref |-> "ring", privacy_mode |-> "offline",
         printable |-> IF s = s1 THEN {<<"B1", "G1">>, <<"G1">>} ELSE {<<"G1">>, <<>>}]]
\* Sessions without a client, so that two certificates are soon finalized.
NoClientPlan ==
    [s \in {s1, s2} |->
        [MCPlan[s] EXCEPT !.printable = IF s = s1 THEN {<<"B1">>, <<>>} ELSE {<<"B1">>}]]
MCMaxAttempts == [s \in {s1, s2} |-> IF s = s1 THEN 2 ELSE 1]
MCRegisters == [compiler_version |-> "1", semantics |-> "semantics"]
MCVersions == [id \in {"B1", "G1"} |-> <<id, "1">>]

MixedParts ==
    {{f} : f \in {"subject", "ledger_seal_projection", "claims", "manifest", "issuer_signature",
                  "co_attestation", "audit_report"}}
    \cup {{"manifest", "manifest_digest", "issuer_signature"},
          {"manifest", "manifest_digest", "issuer_signature", "co_attestation"},
          {"claims", "audit_report"}, {"subject", "ledger_seal_projection", "audit_report"}}

Mixed(d, e, parts) == [f \in DOMAIN d |-> IF f \in parts THEN e[f] ELSE d[f]]

Damaged(d) ==
    {[d EXCEPT !.issuer_signature.signature.form = "malformed"],
     [d EXCEPT !.issuer_signature.trust_ring_ref = "elsewhere"]}
    \cup IF d.co_attestation = ABSENT THEN {}
         ELSE {[d EXCEPT !.co_attestation.signature.form = "high_s"]}

MCArrives(wire) ==
    wire \cup UNION {Damaged(d) : d \in wire}
         \cup {Mixed(d, e, parts) : d \in wire, e \in wire, parts \in MixedParts}
=============================================================================
