------------------------ MODULE MCBestConfigProfile ------------------------
(***************************************************************************)
(* Model checking of fp2, called by itself and behind the prevalidation of *)
(* the best-config profile, on the graphs of Fp2Reference.                 *)
(***************************************************************************)
EXTENDS BestConfigProfile, MCFp2

RECURSIVE ReachFrom(_)
ReachFrom(S) == LET T == S \cup UNION {Kids(heap, n) : n \in S}
                IN  IF T = S THEN S ELSE ReachFrom(T)

\* A digest is returned for exactly the values that fp2 accepts, that hold
\* no integral float beyond the safe range and whose text is in bounds: the
\* order in which prevalidation meets the faults of a value does not decide
\* whether the value is refused.
DigestIffAdmissible ==
    stage = "done" =>
        (result = "digest" <=>
            /\ RecursiveVerdict(root, 1, {}) = "ok"
            /\ \A n \in ReachFrom({root}) : heap[n].type # "unsafe_float"
            /\ Len(out) <= MAX_CANONICAL_SPEC_BYTES)

\* A refusal names a fault the value has: a circular reference is reported
\* only of a value with a cycle, an unsafe integer only of one that holds
\* one, and so on for each error of the profile.
RefusalIsReal ==
    LET Reached == ReachFrom({root})
        Has(t) == \E n \in Reached : heap[n].type = t
    IN  /\ result = "UnsafeIntegralValue" => Has("unsafe_int") \/ Has("unsafe_float")
        /\ result = "UnsupportedProfileType" => Has("other")
        /\ result = "CircularReference" => \E n \in Reached : n \in ReachFrom(Kids(heap, n))
        /\ result = "NonStringKey" =>
              \E n \in Reached : \E i \in DOMAIN heap[n].keys : heap[n].keys[i].type = "other"
        /\ result = "Fp2Canonicalization" =>
              \/ Has("nonfinite") \/ Has("lone_str")
              \/ \E n \in Reached : \E i \in DOMAIN heap[n].keys : heap[n].keys[i].type = "lone_str"

\* canonicalize always answers, and so do the digests: the loop of _encode
\* and that of _prevalidate end even on a graph that contains itself.
Terminates == <>(stage = "done" \/ (stage = "direct" /\ verdict # "running"))
=============================================================================
