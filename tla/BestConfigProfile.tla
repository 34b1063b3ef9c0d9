------------------------- MODULE BestConfigProfile -------------------------
(***************************************************************************)
(* best_config_profile._canonical_bytes and the digests taken over it:     *)
(* _prevalidate walks the value with a stack of its own, then              *)
(* fp2.canonicalize runs on the same value, then the size of its text is   *)
(* bounded.                                                                *)
(*                                                                         *)
(* The walk of _prevalidate pushes the children of a container above its   *)
(* CLOSE marker in order, so it visits the last child first, while fp2     *)
(* visits them in the order of its text: the two may meet different        *)
(* faults first. The size of the text is its number of tokens.             *)
(***************************************************************************)
EXTENDS Fp2

CONSTANT MAX_CANONICAL_SPEC_BYTES

ASSUME SizeAssumption == MAX_CANONICAL_SPEC_BYTES \in Nat

VARIABLES stage,     \* "prevalidate", "fp2", "done"; "direct": fp2 is called by itself
          pwork,     \* _prevalidate's work stack, top first
          open_ids,  \* _prevalidate's open-path set
          result     \* "none", "digest" or the profile error raised

profilevars == <<stage, pwork, open_ids, result>>

ScalarErrorIntOnly(o) ==
    CASE o.type = "unsafe_int" -> "UnsafeIntegralValue"
      [] o.type = "other" -> "UnsupportedProfileType"
      [] OTHER -> "none"

\* _is_admissible_scalar with _is_unsafe_integral: an integral float is held
\* to the same magnitude as an int; a non-finite one is left to fp2.
ScalarError(o) ==
    CASE o.type \in {"unsafe_int", "unsafe_float"} -> "UnsafeIntegralValue"
      [] o.type = "other" -> "UnsupportedProfileType"
      [] OTHER -> "none"

ContainerErrorOffByOne(o, n, d) ==
    IF d > MAX_DEPTH + 1 THEN "ExceedsMaxDepth"
    ELSE IF n \in open_ids THEN "CircularReference"
    ELSE IF \E i \in DOMAIN o.keys : o.keys[i].type = "other" THEN "NonStringKey"
    ELSE "none"

\* _open_profile_container's refusals in order.
ContainerError(o, n, d) ==
    IF d > MAX_DEPTH THEN "ExceedsMaxDepth"
    ELSE IF n \in open_ids THEN "CircularReference"
    ELSE IF \E i \in DOMAIN o.keys : o.keys[i].type = "other" THEN "NonStringKey"
    ELSE "none"

\* The children of a container as _open_profile_container leaves them on the
\* stack: the last one on top, the CLOSE marker beneath them all.
ProfileChildren(o, n, d) ==
    [i \in 1..Len(o.kids) |-> Value(o.kids[Len(o.kids) + 1 - i], d + 1)] \o <<Close(n)>>
-----------------------------------------------------------------------------
ProfileInit ==
    /\ Fp2Init
    /\ stage = "prevalidate"
    /\ pwork = <<Value(root, 1)>>
    /\ open_ids = {}
    /\ result = "none"

\* The other callers of fp2.canonicalize call it without prevalidation.
DirectInit ==
    /\ Fp2Init
    /\ stage = "direct"
    /\ pwork = <<>> /\ open_ids = {} /\ result = "none"

Prevalidating(tag) == stage = "prevalidate" /\ pwork # <<>> /\ Head(pwork).tag = tag

\* An error raised by _prevalidate: fp2 is never called.
Refuse(error) == result' = error /\ stage' = "done"

PrevalidateCloseForgets ==
    /\ Prevalidating("CLOSE")
    /\ pwork' = Tail(pwork)
    /\ UNCHANGED <<fp2vars, stage, open_ids, result>>

PrevalidateClose ==
    /\ Prevalidating("CLOSE")
    /\ open_ids' = open_ids \ {Head(pwork).node}
    /\ pwork' = Tail(pwork)
    /\ UNCHANGED <<fp2vars, stage, result>>

PrevalidateScalar ==
    /\ Prevalidating("VALUE")
    /\ LET o == heap[Head(pwork).node]
       IN  /\ ~IsContainer(o)
           /\ IF ScalarError(o) = "none" THEN UNCHANGED <<stage, result>>
              ELSE Refuse(ScalarError(o))
    /\ pwork' = Tail(pwork)
    /\ UNCHANGED <<fp2vars, open_ids>>

PrevalidateContainer ==
    /\ Prevalidating("VALUE")
    /\ LET n == Head(pwork).node
           d == Head(pwork).depth
           o == heap[n]
       IN  /\ IsContainer(o)
           /\ IF ContainerError(o, n, d) = "none"
              THEN /\ open_ids' = open_ids \cup {n}
                   /\ pwork' = ProfileChildren(o, n, d) \o Tail(pwork)
                   /\ UNCHANGED <<stage, result>>
              ELSE /\ Refuse(ContainerError(o, n, d))
                   /\ pwork' = Tail(pwork)
                   /\ open_ids' = IF d > MAX_DEPTH THEN open_ids ELSE open_ids \cup {n}
    /\ UNCHANGED fp2vars

\* The walk ends without an error and _canonical_bytes calls fp2.
CallFp2 ==
    /\ stage = "prevalidate" /\ pwork = <<>>
    /\ stage' = "fp2"
    /\ UNCHANGED <<fp2vars, pwork, open_ids, result>>

Fp2Step == stage \in {"fp2", "direct"} /\ Fp2Next /\ UNCHANGED profilevars

\* The rest of _canonical_bytes, and the digest that config_digest and
\* spec_digest take of its bytes under their domain tags.
Finish ==
    /\ stage = "fp2" /\ verdict # "running"
    /\ stage' = "done"
    /\ result' = IF verdict # "ok" THEN "Fp2Canonicalization"
                 ELSE IF Len(out) > MAX_CANONICAL_SPEC_BYTES THEN "CanonicalSpecTooLarge"
                 ELSE "digest"
    /\ UNCHANGED <<fp2vars, pwork, open_ids>>

ProfileNext == \/ PrevalidateClose \/ PrevalidateScalar \/ PrevalidateContainer
               \/ CallFp2 \/ Fp2Step \/ Finish

\* The loops run on in one thread, so a step that can be taken is taken.
ProfileSpec ==
    /\ ProfileInit \/ DirectInit
    /\ [][ProfileNext]_<<fp2vars, profilevars>>
    /\ WF_<<fp2vars, profilevars>>(ProfileNext)
-----------------------------------------------------------------------------
\* What the docstring of _canonical_bytes promises: fp2 refuses a value that
\* prevalidation let through only for a non-finite number or a lone
\* surrogate, never for depth, a cycle, a key or a type, although the two
\* walks visit in different orders with bounds of their own.
Fp2RefusesOnlyTextAndNonFinite ==
    stage \in {"fp2", "done"} /\ result \in {"none", "digest", "Fp2Canonicalization"}
        => verdict \in {"running", "ok", "non_finite", "lone_surrogate"}
=============================================================================
