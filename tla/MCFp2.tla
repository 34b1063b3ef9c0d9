------------------------------- MODULE MCFp2 -------------------------------
(***************************************************************************)
(* Model checking of Fp2 on every object graph of the family of            *)
(* Fp2Reference.                                                           *)
(***************************************************************************)
EXTENDS Fp2Reference

\* The explicit work stack answers as a plain recursive implementation
\* would: the same values are refused, and with the same reason.
AgreesWithRecursive ==
    verdict # "running" => verdict = RecursiveVerdict(root, 1, {})

\* The text canonicalize returns parses back to the value it was given,
\* with keys in order, and that value has neither identities nor insertion
\* order: equal values have one text, different values never share one.
CanonicalTextDenotesValue ==
    verdict = "ok" => LET p == ParseValue(out, 1)
                      IN  p.next = Len(out) + 1 /\ p.val = Denotes(root)

\* What the comment of process_record_verifier.py's _check_strict_integers
\* says of canonicalize, that fp2 rejects floats outright: no value it has
\* encoded holds one.
FloatsAreRefused ==
    verdict = "ok" => \A i \in DOMAIN out : out[i].t = "scalar" => out[i].text # "float"
=============================================================================
