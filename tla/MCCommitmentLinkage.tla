------------------------ MODULE MCCommitmentLinkage ------------------------
(***************************************************************************)
(* Two records of one session and one of another, sidecars issued up to    *)
(* twice in either order of entries, presented as issued, with parts of    *)
(* another or damaged.                                                     *)
(***************************************************************************)
EXTENDS CommitmentLinkage
CONSTANTS r1, r2, r3, s1, s2

MCScopeOf == [r \in {r1, r2, r3} |->
                [project_ref |-> "project", build_session_ref |-> IF r = r3 THEN s2 ELSE s1]]
MCFingerprints == {"fpA", "fpB"}
MCDeclarations ==
    {[role \in Roles |->
        CASE role = "agent" -> [basis |-> "name_only", fp |-> f]
          [] role = "dataset" -> [basis |-> "order_free_multiset", fp |-> "fpA"]
          [] OTHER -> [basis |-> "unavailable", fp |-> ABSENT]] : f \in MCFingerprints}
MCEntryOrders == {<<"agent", "dataset">>, <<"config_space", "agent">>}
MCAsks == [role : {"agent"}, fp : MCFingerprints \cup {"fp1"}]
            \cup [role : {"config_space", "dataset", "evaluator:mine"}, fp : {"fpA"}]
MCIssuerKey == [algorithm |-> "ecdsa_p256_sha256", owner |-> "issuer"]

Mixed(d, e) ==
    {[d EXCEPT !.unsigned_linkage = e.unsigned_linkage], [d EXCEPT !.signature = e.signature],
     [d EXCEPT !.unsigned_linkage.process_record_digest = e.unsigned_linkage.process_record_digest],
     [d EXCEPT !.unsigned_linkage = e.unsigned_linkage,
               !.signature.unsigned_linkage_digest = LinkageDigest(e.unsigned_linkage)]}
Rebound(d, r) ==
    LET unsigned == [d.unsigned_linkage EXCEPT !.process_record_digest = r]
    IN  [d EXCEPT !.unsigned_linkage = unsigned,
                  !.signature.unsigned_linkage_digest = LinkageDigest(unsigned)]
Damaged(d) ==
    {[d EXCEPT !.unsigned_linkage.entries = @ \o @], [d EXCEPT !.unsigned_linkage.entries = <<>>],
     [d EXCEPT !.signature.trust_ring_ref = "elsewhere"],
     [d EXCEPT !.signature.signature.form = "malformed"],
     [d EXCEPT !.signature.signature.form = "high_s"]}
MCPresented(sent) ==
    sent \cup {ABSENT} \cup UNION {Mixed(d, e) : d \in sent, e \in sent}
         \cup UNION {Damaged(d) : d \in sent} \cup {Rebound(d, r) : d \in sent, r \in {r1, r2}}
=============================================================================
