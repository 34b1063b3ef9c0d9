-------------------------------- MODULE Fp2 --------------------------------
(***************************************************************************)
(* fp2.canonicalize: the iterative encoder of traigent_schema/fp2.py.      *)
(* Every digest of the library is taken over its output.                   *)
(*                                                                         *)
(* One step is one iteration of the loop of _encode: it pops the work      *)
(* stack (its top is the head of "work") and emits text, closes a          *)
(* container, encodes a scalar or opens a container. "open" is             *)
(* open_containers. Text is a sequence of tokens: separators, escaping and *)
(* digits are left out, member order and nesting are kept.                 *)
(***************************************************************************)
EXTENDS JsonHeap

CONSTANTS MAX_DEPTH,   \* nesting limit
          Inputs       \* the [heap, root] pairs canonicalize is called with

ASSUME DepthAssumption == MAX_DEPTH \in Nat \ {0}
ASSUME InputsAssumption ==
    \A in \in Inputs : in.heap \in Heaps /\ in.root \in Node

VARIABLES heap, root, work, open, out, verdict

fp2vars == <<heap, root, work, open, out, verdict>>

\* Reasons of Fp2UnsupportedValue, the only exception canonicalize raises.
Reasons == {"lone_surrogate", "unsafe_integer", "non_finite", "max_depth",
            "circular", "key_type", "unsupported_type"}
Verdicts == {"running", "ok"} \cup Reasons

\* Tokens of the canonical text.
Bracket(b, type) == [t |-> b, type |-> type]
KeyTok(r) == [t |-> "key", rank |-> r]
ScalarTok(v) == [t |-> "scalar", text |-> v]
Toks == [t : {"open", "close"}, type : ContainerTypes] \cup [t : {"key"}, rank : Rank]
            \cup [t : {"scalar"}, text : Text]

\* Entries of the work stack.
Emit(tok) == [tag |-> "EMIT", tok |-> tok]
Value(n, d) == [tag |-> "VALUE", node |-> n, depth |-> d]
Close(n) == [tag |-> "CLOSE", node |-> n]
Entries == [tag : {"EMIT"}, tok : Toks] \cup [tag : {"CLOSE"}, node : Node]
               \cup [tag : {"VALUE"}, node : Node, depth : 1..(MAX_DEPTH + 1)]

\* _encode_scalar, with _encode_int, _encode_float and, of _encode_string, the
\* refusal of lone surrogates: the reason a scalar is refused, "ok" otherwise.
\* The text of a scalar is ScalarTok.
EncodeScalar(o) ==
    CASE o.type = "lone_str"   -> "lone_surrogate"
      [] o.type = "unsafe_int" -> "unsafe_integer"
      [] o.type = "nonfinite"  -> "non_finite"
      [] OTHER                 -> "ok"

SortedMemberInserted(o) == [i \in DOMAIN o.kids |-> i]

\* sorted(value.items(), key=_utf16_sort_key): the i-th member emitted.
SortedMember(o) ==
    CHOOSE p \in [DOMAIN o.kids -> DOMAIN o.kids] : SortsKeys(o, p)

KeysVerdictAsEncoded(o) ==
    IF o.keys = <<>> \/ \A i \in DOMAIN o.keys : o.keys[i].type = "str" THEN "ok"
    ELSE IF Head(o.keys).type = "other" THEN "key_type"
    ELSE IF Head(o.keys).type = "lone_str" THEN "lone_surrogate"
    ELSE "key_type"

\* _dict_children: why the keys of a dict are refused. Every key's type is
\* looked at before any key is encoded.
KeysVerdict(o) ==
    IF \E i \in DOMAIN o.keys : o.keys[i].type = "other" THEN "key_type"
    ELSE IF \E i \in DOMAIN o.keys : o.keys[i].type = "lone_str" THEN "lone_surrogate"
    ELSE "ok"

\* The work entries of a container's children in emission order, ending
\* with its closing bracket and the CLOSE marker.
DictChildren(o, d) ==
    [j \in 1..(2 * Len(o.kids)) |->
        LET m == SortedMember(o)[(j + 1) \div 2]
        IN  IF j % 2 = 1 THEN Emit(KeyTok(o.keys[m].rank)) ELSE Value(o.kids[m], d + 1)]

ListChildren(o, d) == [j \in 1..Len(o.kids) |-> Value(o.kids[j], d + 1)]

Pending(o, n, d) ==
    (IF o.type = "dict" THEN DictChildren(o, d) ELSE ListChildren(o, d))
        \o <<Emit(Bracket("close", o.type)), Close(n)>>

OpenVerdictNoDepth(o, n, d) ==
    IF n \in open THEN "circular" ELSE IF o.type = "dict" THEN KeysVerdict(o) ELSE "ok"

\* _open_container's refusals, in the order of its checks.
OpenVerdict(o, n, d) ==
    IF d > MAX_DEPTH THEN "max_depth"
    ELSE IF n \in open THEN "circular"
    ELSE IF o.type = "dict" THEN KeysVerdict(o)
    ELSE "ok"
-----------------------------------------------------------------------------
Fp2Init ==
    /\ \E in \in Inputs : heap = in.heap /\ root = in.root
    /\ work = <<Value(root, 1)>>
    /\ open = {}
    /\ out = <<>>
    /\ verdict = "running"

Popping(tag) == verdict = "running" /\ work # <<>> /\ Head(work).tag = tag

PopEmit ==
    /\ Popping("EMIT")
    /\ out' = Append(out, Head(work).tok)
    /\ work' = Tail(work)
    /\ UNCHANGED <<heap, root, open, verdict>>

PopCloseKeepsOpen ==
    /\ Popping("CLOSE")
    /\ work' = Tail(work)
    /\ UNCHANGED <<heap, root, open, out, verdict>>

PopClosePeeks ==
    /\ Popping("CLOSE")
    /\ open' = open \ {Head(work).node}
    /\ UNCHANGED <<heap, root, work, out, verdict>>

PopClose ==
    /\ Popping("CLOSE")
    /\ open' = open \ {Head(work).node}
    /\ work' = Tail(work)
    /\ UNCHANGED <<heap, root, out, verdict>>

PopScalar ==
    /\ Popping("VALUE")
    /\ LET o == heap[Head(work).node]
       IN  /\ o.type \in ScalarTypes
           /\ work' = Tail(work)
           /\ IF EncodeScalar(o) = "ok"
              THEN out' = Append(out, ScalarTok(o.val)) /\ UNCHANGED verdict
              ELSE verdict' = EncodeScalar(o) /\ UNCHANGED out
    /\ UNCHANGED <<heap, root, open>>

OpenContainer ==
    /\ Popping("VALUE")
    /\ LET n == Head(work).node
           d == Head(work).depth
           o == heap[n]
       IN  /\ IsContainer(o)
           /\ IF OpenVerdict(o, n, d) = "ok"
              THEN /\ open' = open \cup {n}
                   /\ work' = Pending(o, n, d) \o Tail(work)
                   /\ out' = Append(out, Bracket("open", o.type))
                   /\ UNCHANGED verdict
              ELSE /\ verdict' = OpenVerdict(o, n, d)
                   /\ work' = Tail(work)
                   /\ open' = IF d > MAX_DEPTH THEN open ELSE open \cup {n}
                   /\ UNCHANGED out
    /\ UNCHANGED <<heap, root>>

PopUnsupported ==
    /\ Popping("VALUE")
    /\ heap[Head(work).node].type = "other"
    /\ verdict' = "unsupported_type"
    /\ work' = Tail(work)
    /\ UNCHANGED <<heap, root, open, out>>

\* The loop ends and canonicalize returns the joined text.
Return ==
    /\ verdict = "running" /\ work = <<>>
    /\ verdict' = "ok"
    /\ UNCHANGED <<heap, root, work, open, out>>

Fp2Next == PopEmit \/ PopClose \/ PopScalar \/ OpenContainer \/ PopUnsupported \/ Return

Fp2Safety == Fp2Init /\ [][Fp2Next]_fp2vars

\* A call of canonicalize runs to its end.
Fp2Spec == Fp2Safety /\ WF_fp2vars(Fp2Next)
-----------------------------------------------------------------------------
\* The state of the encoder's loop is well typed: in particular no value is
\* scheduled deeper than one level below the limit.
TypeOK ==
    /\ heap \in Heaps
    /\ root \in Node
    /\ work \in Seq(Entries)
    /\ open \subseteq Node
    /\ out \in Seq(Toks)
    /\ verdict \in Verdicts

\* The positions of the CLOSE markers of a stack.
Markers(w) == {i \in DOMAIN w : w[i].tag = "CLOSE"}

\* The marker at j is that of the innermost container around the entry at i.
Encloses(w, j, i) ==
    j \in Markers(w) /\ i < j /\ \A k \in Markers(w) : i < k => j <= k

\* The set op holds the containers whose markers are on the stack w, each
\* once, and they form a chain: an entry is a child of the container that
\* encloses it, or the root when none does.
IsOpenPath(h, r, w, op) ==
    /\ \A i \in Markers(w) : w[i].node \in op
    /\ \A n \in op : \E i \in Markers(w) : w[i].node = n
    /\ \A i, j \in Markers(w) : w[i].node = w[j].node => i = j
    /\ \A i \in DOMAIN w, j \in DOMAIN w :
          w[i].tag # "EMIT" /\ Encloses(w, j, i) => w[i].node \in Kids(h, w[j].node)
    /\ \A i \in DOMAIN w :
          w[i].tag # "EMIT" /\ (\A j \in Markers(w) : j <= i) => w[i].node = r

\* While _encode runs, open_containers is exactly the chain of containers
\* from the root to the entry on top of the stack, no container twice.
\* Shared sub-objects, closed between two visits, do not disturb it.
OpenContainersArePath == verdict = "running" => IsOpenPath(heap, root, work, open)
=============================================================================
