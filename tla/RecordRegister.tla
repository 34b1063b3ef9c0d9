--------------------------- MODULE RecordRegister ---------------------------
(***************************************************************************)
(* What a verifier of signed records promises to the caller, whatever the  *)
(* record is made of: the issuer files records, each under what a caller   *)
(* would pin to ask for it, and a verification returns a record that was   *)
(* filed under exactly those pins, or nothing. Nothing is said of what     *)
(* travels in between.                                                     *)
(***************************************************************************)
CONSTANT NONE

VARIABLES filed,     \* the entries [pins, record] of the issuer
          accepted   \* the entry that has just verified, or NONE
vars == <<filed, accepted>>

Init == filed = {} /\ accepted = NONE

File(entry) == filed' = filed \cup {entry} /\ accepted' = NONE
Accept(entry) == entry \in filed /\ accepted' = entry /\ UNCHANGED filed
Forget == accepted' = NONE /\ UNCHANGED filed

Next ==
    \/ \E entry \in filed' : File(entry)
    \/ accepted' # NONE /\ Accept(accepted')
    \/ Forget
Spec == Init /\ [][Next]_vars
=============================================================================
