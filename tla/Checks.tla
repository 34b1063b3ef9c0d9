------------------------------- MODULE Checks -------------------------------
(***************************************************************************)
(* Chains of checks that raise: the certification verifiers are sequences  *)
(* of "if not p: _fail(code)", and the first failing check decides the     *)
(* fixed code of the error. A check is its outcome: "OK" or a code.        *)
(***************************************************************************)
EXTENDS Naturals, Sequences

OK == "OK"

\* if not p: _fail(code)
Require(p, code) == IF p THEN OK ELSE code

\* The statements of a, then those of b unless a raised.
a && b == IF a = OK THEN b ELSE a

\* for element in elements: the first outcome that is not "OK".
ForEach(outcomes) ==
    IF \A i \in DOMAIN outcomes : outcomes[i] = OK THEN OK
    ELSE outcomes[CHOOSE i \in DOMAIN outcomes :
                    outcomes[i] # OK /\ \A j \in DOMAIN outcomes : j < i => outcomes[j] = OK]

\* except Error: _fail(code)
Translate(outcome, code) == IF outcome = OK THEN OK ELSE code
=============================================================================
