----------------------------- MODULE Fp2Proofs -----------------------------
(***************************************************************************)
(* Proofs about the encoder of Fp2 and the profile's walk before it, for   *)
(* every set of object graphs and every nesting limit: the encoder's state *)
(* is well typed, open_containers is the path from the root to the value   *)
(* being encoded, and what _prevalidate lets through the encoder refuses   *)
(* only for a non-finite number or a lone surrogate.                       *)
(***************************************************************************)
EXTENDS BestConfigProfile, SequenceTheorems, TLAPS

\* A well-formed dict has an ordering of its members, and _dict_children
\* sorts by one.
LEMMA SortedMemberType ==
    ASSUME NEW o \in Objects, WellFormed(o), o.type = "dict"
    PROVE  SortedMember(o) \in [DOMAIN o.kids -> DOMAIN o.kids]
BY DEF SortedMember, WellFormed

\* What _open_container pushes: values of the container's children one level
\* deeper and text, then the container's own CLOSE marker, the only one.
LEMMA PendingShape ==
    ASSUME NEW o \in Objects, WellFormed(o), IsContainer(o),
           NEW n \in Node, NEW d \in 1..MAX_DEPTH
    PROVE  /\ Pending(o, n, d) \in Seq(Entries)
           /\ Len(Pending(o, n, d)) >= 2
           /\ Pending(o, n, d)[Len(Pending(o, n, d))] = Close(n)
           /\ \A i \in 1..(Len(Pending(o, n, d)) - 1) :
                 \/ Pending(o, n, d)[i].tag = "EMIT"
                 \/ /\ Pending(o, n, d)[i].tag = "VALUE"
                    /\ Pending(o, n, d)[i].depth = d + 1
                    /\ \E m \in DOMAIN o.kids : Pending(o, n, d)[i].node = o.kids[m]
<1> USE DepthAssumption
<1> DEFINE tail == <<Emit(Bracket("close", o.type)), Close(n)>>
           kids == IF o.type = "dict" THEN DictChildren(o, d) ELSE ListChildren(o, d)
<1>0. o.type \in ContainerTypes /\ o.kids \in Seq(Node) /\ o.keys \in Seq(Keys)
      /\ Len(o.kids) \in Nat /\ DOMAIN o.kids = 1..Len(o.kids)
  BY DEF IsContainer, Objects
<1>1. tail \in Seq(Entries) /\ Len(tail) = 2 /\ tail[2] = Close(n) /\ tail[1].tag = "EMIT"
  <2>1. Emit(Bracket("close", o.type)) \in Entries
    BY <1>0 DEF Emit, Bracket, Entries, Toks
  <2>2. Close(n) \in Entries
    BY DEF Close, Entries
  <2> QED BY <2>1, <2>2 DEF Emit
<1>2. /\ kids \in Seq(Entries)
      /\ \A i \in DOMAIN kids :
            \/ kids[i].tag = "EMIT"
            \/ /\ kids[i].tag = "VALUE" /\ kids[i].depth = d + 1
               /\ \E m \in DOMAIN o.kids : kids[i].node = o.kids[m]
  <2>1. CASE o.type = "dict"
    <3> DEFINE L == 2 * Len(o.kids)
               mem(j) == SortedMember(o)[(j + 1) \div 2]
    <3>1. L \in Nat
      BY <1>0
    <3>2. ASSUME NEW j \in 1..L
          PROVE  /\ mem(j) \in DOMAIN o.kids
                 /\ o.keys[mem(j)].rank \in Rank
                 /\ o.kids[mem(j)] \in Node
      <4>1. (j + 1) \div 2 \in DOMAIN o.kids
        BY <1>0, <3>1
      <4>2. mem(j) \in DOMAIN o.kids
        BY <4>1, <2>1, SortedMemberType
      <4>3. o.keys[mem(j)] \in Keys
        BY <4>2, <2>1, <1>0 DEF WellFormed
      <4> QED BY <4>2, <4>3, <1>0 DEF Keys
    <3>3. ASSUME NEW j \in 1..L
          PROVE  /\ Emit(KeyTok(o.keys[mem(j)].rank)) \in Entries
                 /\ Value(o.kids[mem(j)], d + 1) \in Entries
      BY <3>2 DEF Emit, KeyTok, Value, Entries, Toks
    <3> DEFINE ent(j) == IF j % 2 = 1 THEN Emit(KeyTok(o.keys[mem(j)].rank))
                                      ELSE Value(o.kids[mem(j)], d + 1)
    <3>4. kids = [j \in 1..L |-> ent(j)]
      BY <2>1 DEF DictChildren
    <3>5. \A j \in 1..L : ent(j) \in Entries
      BY <3>3
    <3>6. \A j \in 1..L :
            \/ ent(j).tag = "EMIT"
            \/ /\ ent(j).tag = "VALUE" /\ ent(j).depth = d + 1
               /\ \E m \in DOMAIN o.kids : ent(j).node = o.kids[m]
      <4> SUFFICES ASSUME NEW j \in 1..L
                   PROVE  \/ ent(j).tag = "EMIT"
                          \/ /\ ent(j).tag = "VALUE" /\ ent(j).depth = d + 1
                             /\ \E m \in DOMAIN o.kids : ent(j).node = o.kids[m]
        OBVIOUS
      <4>1. CASE j % 2 = 1
        BY <4>1 DEF Emit
      <4>2. CASE j % 2 # 1
        BY <4>2, <3>2 DEF Value
      <4> QED BY <4>1, <4>2
    <3> HIDE DEF ent, L, kids
    <3>7. kids \in Seq(Entries) /\ DOMAIN kids = 1..L
      BY <3>1, <3>4, <3>5
    <3> QED BY <3>4, <3>6, <3>7
  <2>2. CASE o.type = "list"
    <3>1. kids = [j \in 1..Len(o.kids) |-> Value(o.kids[j], d + 1)]
      BY <2>2 DEF ListChildren
    <3>2. \A j \in 1..Len(o.kids) : Value(o.kids[j], d + 1) \in Entries
      BY <1>0 DEF Value, Entries
    <3>3. kids \in Seq(Entries)
      BY <3>1, <3>2, <1>0
    <3>4. \A j \in DOMAIN kids :
             kids[j].tag = "VALUE" /\ kids[j].depth = d + 1 /\ kids[j].node = o.kids[j]
      BY <3>1 DEF Value
    <3> QED BY <3>1, <3>3, <3>4, <1>0
  <2> QED BY <2>1, <2>2, <1>0 DEF ContainerTypes
<1>3. Pending(o, n, d) = kids \o tail
  BY DEF Pending
<1> HIDE DEF kids, tail
<1>4. Pending(o, n, d) \in Seq(Entries) /\ Len(Pending(o, n, d)) = Len(kids) + 2
      /\ Len(kids) \in Nat
  <2>1. Len(kids) \in Nat
    BY <1>2, LenProperties
  <2>2. Pending(o, n, d) \in Seq(Entries)
    BY <1>1, <1>2, <1>3, ConcatProperties
  <2>3. Len(kids \o tail) = Len(kids) + Len(tail)
    <3>1. kids \in Seq(Entries) /\ tail \in Seq(Entries)
      BY <1>1, <1>2
    <3> QED BY <3>1, ConcatProperties
  <2>4. Len(Pending(o, n, d)) = Len(kids) + Len(tail)
    BY <2>3, <1>3
  <2> QED BY <2>1, <2>2, <2>4, <1>1
<1>5. \A i \in 1..Len(kids) : Pending(o, n, d)[i] = kids[i]
  BY <1>1, <1>2, <1>3, ConcatProperties
<1>6. Pending(o, n, d)[Len(kids) + 1] = tail[1] /\ Pending(o, n, d)[Len(kids) + 2] = tail[2]
  <2>1. kids \in Seq(Entries) /\ tail \in Seq(Entries) /\ Len(tail) = 2 /\ Len(kids) \in Nat
    BY <1>1, <1>2, <1>4
  <2>2. \A i \in 1..2 : /\ Len(kids) + i \in 1..(Len(kids) + Len(tail))
                        /\ ~(Len(kids) + i <= Len(kids)) /\ (Len(kids) + i) - Len(kids) = i
    BY <2>1
  <2>3. \A i \in 1..2 : (kids \o tail)[Len(kids) + i] = tail[(Len(kids) + i) - Len(kids)]
    BY <2>1, <2>2, ConcatProperties
  <2> QED  BY <2>2, <2>3, <1>3
<1>7. ASSUME NEW i \in 1..(Len(Pending(o, n, d)) - 1)
      PROVE  \/ Pending(o, n, d)[i].tag = "EMIT"
             \/ /\ Pending(o, n, d)[i].tag = "VALUE"
                /\ Pending(o, n, d)[i].depth = d + 1
                /\ \E m \in DOMAIN o.kids : Pending(o, n, d)[i].node = o.kids[m]
  <2>1. CASE i \in 1..Len(kids)
    <3>1. i \in DOMAIN kids
      BY <2>1, <1>2
    <3> QED BY <3>1, <2>1, <1>5, <1>2
  <2>2. CASE i = Len(kids) + 1
    BY <2>2, <1>6, <1>1
  <2> QED BY <2>1, <2>2, <1>4
<1> QED BY <1>1, <1>4, <1>6, <1>7

\* Popping the top entry leaves a path; when it is a marker, its container
\* leaves the open set.
LEMMA TailIsOpenPath ==
    ASSUME NEW h, NEW r, NEW w \in Seq(Entries), NEW op, w # <<>>,
           IsOpenPath(h, r, w, op)
    PROVE  IsOpenPath(h, r, Tail(w), IF w[1].tag = "CLOSE" THEN op \ {w[1].node} ELSE op)
<1> DEFINE t == Tail(w)
           opt == IF w[1].tag = "CLOSE" THEN op \ {w[1].node} ELSE op
<1>1. /\ Len(w) \in Nat /\ Len(w) >= 1 /\ DOMAIN w = 1..Len(w) /\ t \in Seq(Entries)
      /\ Len(t) = Len(w) - 1 /\ DOMAIN t = 1..(Len(w) - 1)
      /\ \A i \in 1..(Len(w) - 1) : t[i] = w[i + 1]
  BY HeadTailProperties
<1>2. \A i \in DOMAIN t : i + 1 \in DOMAIN w /\ t[i] = w[i + 1]
  BY <1>1
<1>3. \A i \in DOMAIN t : i \in Markers(t) <=> i + 1 \in Markers(w)
  BY <1>2 DEF Markers
<1>4. \A j \in Markers(w) : j = 1 \/ (j - 1 \in Markers(t) /\ t[j - 1] = w[j])
  BY <1>1, <1>2, <1>3 DEF Markers
<1>5. Markers(t) \subseteq DOMAIN t /\ Markers(w) \subseteq DOMAIN w
  BY DEF Markers
<1> HIDE DEF t
<1>6. \A i \in Markers(t) : t[i].node \in opt
  <2> SUFFICES ASSUME NEW i \in Markers(t) PROVE t[i].node \in opt
    OBVIOUS
  <2>1. i + 1 \in Markers(w) /\ t[i] = w[i + 1] /\ i \in Nat /\ i + 1 # 1
    BY <1>1, <1>2, <1>3, <1>5
  <2>2. w[1].tag = "CLOSE" => 1 \in Markers(w)
    BY <1>1 DEF Markers
  <2>3. w[1].tag = "CLOSE" => w[1].node # w[i + 1].node
    BY <2>1, <2>2 DEF IsOpenPath
  <2> QED BY <2>1, <2>3 DEF IsOpenPath
<1>7. \A n \in opt : \E i \in Markers(t) : t[i].node = n
  <2> SUFFICES ASSUME NEW n \in opt PROVE \E i \in Markers(t) : t[i].node = n
    OBVIOUS
  <2>1. n \in op /\ (w[1].tag = "CLOSE" => n # w[1].node)
    OBVIOUS
  <2>2. PICK i \in Markers(w) : w[i].node = n
    BY <2>1 DEF IsOpenPath
  <2>3. i # 1
    BY <2>1, <2>2 DEF Markers
  <2> QED BY <2>2, <2>3, <1>4
<1>8. \A i, j \in Markers(t) : t[i].node = t[j].node => i = j
  <2> SUFFICES ASSUME NEW i \in Markers(t), NEW j \in Markers(t), t[i].node = t[j].node
               PROVE  i = j
    OBVIOUS
  <2>1. /\ i + 1 \in Markers(w) /\ t[i] = w[i + 1] /\ i \in Nat
        /\ j + 1 \in Markers(w) /\ t[j] = w[j + 1] /\ j \in Nat
    BY <1>1, <1>2, <1>3, <1>5
  <2>2. i + 1 = j + 1
    BY <2>1 DEF IsOpenPath
  <2> QED BY <2>1, <2>2
<1>9. ASSUME NEW i \in DOMAIN t, NEW j \in DOMAIN t, t[i].tag # "EMIT", Encloses(t, j, i)
      PROVE  t[i].node \in Kids(h, t[j].node)
  <2>1. i \in Nat /\ j \in Nat /\ i + 1 \in DOMAIN w /\ j + 1 \in DOMAIN w
        /\ t[i] = w[i + 1] /\ t[j] = w[j + 1]
    BY <1>1, <1>2
  <2>2. j + 1 \in Markers(w) /\ i + 1 < j + 1
    BY <1>3, <1>9, <2>1 DEF Encloses
  <2>3. ASSUME NEW k \in Markers(w), i + 1 < k
        PROVE  j + 1 <= k
    <3>1. k - 1 \in Markers(t) /\ k \in Nat
      BY <1>1, <1>4, <1>5, <2>1, <2>3
    <3>2. i < k - 1
      BY <2>1, <2>3, <3>1
    <3>3. j <= k - 1
      BY <3>1, <3>2, <1>9 DEF Encloses
    <3> QED BY <3>1, <3>3, <2>1
  <2>4. Encloses(w, j + 1, i + 1)
    BY <2>2, <2>3 DEF Encloses
  <2> QED BY <2>1, <2>4, <1>9 DEF IsOpenPath
<1>10. ASSUME NEW i \in DOMAIN t, t[i].tag # "EMIT", \A j \in Markers(t) : j <= i
       PROVE  t[i].node = r
  <2>1. i \in Nat /\ i + 1 \in DOMAIN w /\ t[i] = w[i + 1]
    BY <1>1, <1>2
  <2>2. ASSUME NEW k \in Markers(w) PROVE k <= i + 1
    <3>1. k \in Nat
      BY <1>1, <1>5
    <3> QED BY <3>1, <2>1, <1>4, <1>10
  <2> QED BY <2>1, <2>2, <1>10 DEF IsOpenPath
<1> QED BY <1>6, <1>7, <1>8, <1>9, <1>10 DEF IsOpenPath, t

\* Opening the container on top of the stack, one that is not open yet,
\* extends the path by it.
LEMMA PushIsOpenPath ==
    ASSUME NEW h, NEW r, NEW w \in Seq(Entries), NEW op, w # <<>>,
           IsOpenPath(h, r, w, op), w[1].tag = "VALUE", w[1].node \notin op,
           NEW p \in Seq(Entries), Len(p) >= 1, p[Len(p)] = Close(w[1].node),
           \A i \in 1..(Len(p) - 1) :
              p[i].tag = "EMIT" \/ (p[i].tag = "VALUE" /\ p[i].node \in Kids(h, w[1].node))
    PROVE  IsOpenPath(h, r, p \o Tail(w), op \cup {w[1].node})
<1> DEFINE n == w[1].node
           L == Len(p)
           t == p \o Tail(w)
<1>1. /\ Len(w) \in Nat /\ Len(w) >= 1 /\ DOMAIN w = 1..Len(w) /\ L \in Nat /\ L >= 1
      /\ Tail(w) \in Seq(Entries) /\ Len(Tail(w)) = Len(w) - 1
      /\ \A i \in 1..(Len(w) - 1) : Tail(w)[i] = w[i + 1]
  BY HeadTailProperties, LenProperties
<1>2. t \in Seq(Entries) /\ Len(t) = L + (Len(w) - 1) /\ DOMAIN t = 1..(L + (Len(w) - 1))
  BY <1>1, ConcatProperties, LenProperties
<1>3. \A i \in 1..L : t[i] = p[i]
  BY <1>1, <1>2, ConcatProperties
<1>4. \A i \in 2..Len(w) : t[i + L - 1] = w[i]
  <2> SUFFICES ASSUME NEW i \in 2..Len(w) PROVE t[i + L - 1] = w[i]
    OBVIOUS
  <2>1. i + L - 1 \in 1..(L + Len(Tail(w))) /\ ~(i + L - 1 <= L)
    BY <1>1
  <2>2. t[i + L - 1] = Tail(w)[(i + L - 1) - L]
    BY <1>1, <2>1, ConcatProperties
  <2>3. (i + L - 1) - L = i - 1 /\ i - 1 \in 1..(Len(w) - 1) /\ (i - 1) + 1 = i
    BY <1>1
  <2> QED BY <1>1, <2>2, <2>3
<1>5. t[L] = Close(n) /\ t[L].tag = "CLOSE" /\ t[L].node = n /\ L \in DOMAIN t
  BY <1>1, <1>2, <1>3 DEF Close
<1>6. \A i \in 1..(L - 1) :
         t[i].tag = "EMIT" \/ (t[i].tag = "VALUE" /\ t[i].node \in Kids(h, n))
  BY <1>1, <1>3
<1> HIDE DEF t, L, n
<1>7. \A i \in DOMAIN t : i \in 1..(L - 1) \/ i = L \/ (i - L + 1 \in 2..Len(w) /\ t[i] = w[i - L + 1])
  <2> SUFFICES ASSUME NEW i \in DOMAIN t, i > L
               PROVE  i - L + 1 \in 2..Len(w) /\ t[i] = w[i - L + 1]
    BY <1>1, <1>2
  <2>1. i - L + 1 \in 2..Len(w) /\ (i - L + 1) + L - 1 = i
    BY <1>1, <1>2
  <2> QED BY <2>1, <1>4
<1>8. \A i \in Markers(t) :
         i \in Nat /\ (i = L \/ (i > L /\ i - L + 1 \in Markers(w) /\ t[i] = w[i - L + 1]))
  <2> SUFFICES ASSUME NEW i \in Markers(t)
               PROVE  i \in Nat /\ (i = L \/ (i > L /\ i - L + 1 \in Markers(w) /\ t[i] = w[i - L + 1]))
    OBVIOUS
  <2>1. i \in DOMAIN t /\ t[i].tag = "CLOSE" /\ i \in Nat
    BY <1>1, <1>2 DEF Markers
  <2>2. i \notin 1..(L - 1)
    BY <2>1, <1>6
  <2>3. CASE i = L
    BY <2>1, <2>3
  <2>4. CASE i - L + 1 \in 2..Len(w) /\ t[i] = w[i - L + 1]
    BY <2>1, <2>4, <1>1 DEF Markers
  <2> QED BY <2>1, <2>2, <2>3, <2>4, <1>7
<1>9. \A k \in Markers(w) : k \in 2..Len(w) /\ k + L - 1 \in Markers(t) /\ t[k + L - 1] = w[k]
  <2> SUFFICES ASSUME NEW k \in Markers(w)
               PROVE  k \in 2..Len(w) /\ k + L - 1 \in Markers(t) /\ t[k + L - 1] = w[k]
    OBVIOUS
  <2>1. k \in DOMAIN w /\ w[k].tag = "CLOSE" /\ k # 1
    BY DEF Markers
  <2>2. k \in 2..Len(w) /\ k + L - 1 \in DOMAIN t
    BY <2>1, <1>1, <1>2
  <2> QED BY <2>1, <2>2, <1>4 DEF Markers
<1>10. L \in Markers(t)
  BY <1>5 DEF Markers
<1>11. \A i \in Markers(t) : t[i].node \in op \cup {n}
  <2> SUFFICES ASSUME NEW i \in Markers(t) PROVE t[i].node \in op \cup {n}
    OBVIOUS
  <2>1. CASE i = L
    BY <2>1, <1>5
  <2>2. CASE i - L + 1 \in Markers(w) /\ t[i] = w[i - L + 1]
    BY <2>2 DEF IsOpenPath
  <2> QED BY <2>1, <2>2, <1>8
<1>12. \A m \in op \cup {n} : \E i \in Markers(t) : t[i].node = m
  <2> SUFFICES ASSUME NEW m \in op \cup {n} PROVE \E i \in Markers(t) : t[i].node = m
    OBVIOUS
  <2>1. CASE m = n
    BY <2>1, <1>5, <1>10
  <2>2. CASE m \in op
    <3>1. PICK k \in Markers(w) : w[k].node = m
      BY <2>2 DEF IsOpenPath
    <3> QED BY <3>1, <1>9
  <2> QED BY <2>1, <2>2
<1>13. \A i, j \in Markers(t) : t[i].node = t[j].node => i = j
  <2> SUFFICES ASSUME NEW i \in Markers(t), NEW j \in Markers(t), t[i].node = t[j].node
               PROVE  i = j
    OBVIOUS
  <2>1. \A k \in Markers(w) : w[k].node # n
    BY DEF IsOpenPath, n
  <2>2. CASE i = L \/ j = L
    BY <2>1, <2>2, <1>5, <1>8
  <2>3. CASE i # L /\ j # L
    <3>1. /\ i - L + 1 \in Markers(w) /\ t[i] = w[i - L + 1] /\ i \in Nat
          /\ j - L + 1 \in Markers(w) /\ t[j] = w[j - L + 1] /\ j \in Nat
      BY <2>3, <1>8
    <3>2. i - L + 1 = j - L + 1
      <4>1. \A a, b \in Markers(w) : w[a].node = w[b].node => a = b
        BY DEF IsOpenPath
      <4> QED BY <3>1, <4>1
    <3> QED BY <3>1, <3>2, <1>1
  <2> QED BY <2>2, <2>3
<1>14. ASSUME NEW i \in DOMAIN t, NEW j \in DOMAIN t, t[i].tag # "EMIT", Encloses(t, j, i)
       PROVE  t[i].node \in Kids(h, t[j].node)
  <2>0. i \in Nat /\ j \in Nat /\ j \in Markers(t) /\ i < j
        /\ \A k \in Markers(t) : i < k => j <= k
    BY <1>14, <1>1, <1>2 DEF Encloses
  <2>1. CASE i \in 1..(L - 1)
    <3>1. j = L
      BY <2>0, <2>1, <1>8, <1>10, <1>1
    <3> QED BY <3>1, <2>1, <1>5, <1>6, <1>14
  <2>2. CASE i = L
    <3>1. j - L + 1 \in Markers(w) /\ t[j] = w[j - L + 1] /\ j > L
      BY <2>0, <2>2, <1>8, <1>1
    <3>2. ASSUME NEW k \in Markers(w), 1 < k
          PROVE  j - L + 1 <= k
      <4>1. k \in Nat /\ k + L - 1 \in Markers(t) /\ i < k + L - 1
        BY <1>9, <1>1, <2>2, <3>2
      <4>2. j <= k + L - 1
        BY <4>1, <2>0
      <4> QED BY <4>1, <4>2, <2>0, <1>1
    <3>3. Encloses(w, j - L + 1, 1)
      BY <3>1, <3>2, <2>0, <1>1 DEF Encloses
    <3>4. w[1].tag # "EMIT" /\ 1 \in DOMAIN w /\ j - L + 1 \in DOMAIN w
      BY <1>1, <3>1 DEF Markers
    <3>5. w[1].node \in Kids(h, w[j - L + 1].node)
      BY <3>3, <3>4 DEF IsOpenPath
    <3> QED BY <3>1, <3>5, <2>2, <1>5 DEF n
  <2>3. CASE i > L
    <3> DEFINE a == i - L + 1
               b == j - L + 1
    <3>1. a \in 2..Len(w) /\ t[i] = w[a]
      BY <2>3, <1>7, <2>0, <1>1
    <3>2. b \in Markers(w) /\ t[j] = w[b] /\ a < b
      BY <2>0, <2>3, <1>8, <1>1
    <3>3. ASSUME NEW k \in Markers(w), a < k
          PROVE  b <= k
      <4>1. k \in Nat /\ k + L - 1 \in Markers(t) /\ i < k + L - 1
        BY <1>9, <1>1, <2>0, <3>3
      <4>2. j <= k + L - 1
        BY <4>1, <2>0
      <4> QED BY <4>1, <4>2, <2>0, <1>1
    <3> HIDE DEF a, b
    <3>4. Encloses(w, b, a)
      BY <3>2, <3>3 DEF Encloses
    <3>5. a \in DOMAIN w /\ b \in DOMAIN w
      BY <3>1, <3>2, <1>1 DEF Markers
    <3> QED BY <3>1, <3>2, <3>4, <3>5, <1>14 DEF IsOpenPath
  <2> QED BY <2>1, <2>2, <2>3, <2>0, <1>1, <1>2
<1>15. ASSUME NEW i \in DOMAIN t, t[i].tag # "EMIT", \A j \in Markers(t) : j <= i
       PROVE  t[i].node = r
  <2>1. L <= i /\ i \in Nat
    BY <1>15, <1>10, <1>2, <1>1
  <2>2. CASE i = L
    <3>1. ASSUME NEW k \in Markers(w) PROVE k <= 1
      BY <1>9, <1>15, <2>2, <1>1
    <3>2. 1 \in DOMAIN w /\ w[1].tag # "EMIT"
      BY <1>1
    <3> QED BY <3>1, <3>2, <2>2, <1>5 DEF IsOpenPath, n
  <2>3. CASE i > L
    <3>1. i - L + 1 \in DOMAIN w /\ t[i] = w[i - L + 1]
      BY <2>3, <1>7, <2>1, <1>1
    <3>2. ASSUME NEW k \in Markers(w) PROVE k <= i - L + 1
      <4>1. k \in Nat /\ k + L - 1 <= i
        BY <1>9, <1>15, <1>1
      <4> QED BY <4>1, <2>1, <1>1
    <3> QED BY <3>1, <3>2, <1>15 DEF IsOpenPath
  <2> QED BY <2>1, <2>2, <2>3, <1>1
<1> QED BY <1>11, <1>12, <1>13, <1>14, <1>15 DEF IsOpenPath, t, n

\* The initial states and every step keep the state well typed.
LEMMA TypeStep == TypeOK /\ [Fp2Next]_fp2vars => TypeOK'
<1> SUFFICES ASSUME TypeOK, [Fp2Next]_fp2vars PROVE TypeOK'
  OBVIOUS
<1>1. work # <<>> => /\ Head(work) \in Entries /\ Tail(work) \in Seq(Entries)
                     /\ Head(work) = work[1]
  BY HeadTailProperties DEF TypeOK
<1>2. CASE PopEmit
  <2>1. Head(work).tok \in Toks
    BY <1>1, <1>2 DEF PopEmit, Popping, Entries
  <2> QED BY <1>1, <1>2, <2>1 DEF PopEmit, Popping, TypeOK
<1>3. CASE PopClose
  BY <1>1, <1>3 DEF PopClose, Popping, TypeOK
<1>4. CASE PopScalar
  <2> DEFINE o == heap[Head(work).node]
  <2>1. Head(work).node \in Node
    BY <1>1, <1>4 DEF PopScalar, Popping, Entries
  <2>2. o \in Objects
    BY <2>1 DEF TypeOK, Heaps
  <2>3. ScalarTok(o.val) \in Toks
    BY <2>2 DEF ScalarTok, Toks, Objects
  <2>4. EncodeScalar(o) \in Verdicts
    BY DEF EncodeScalar, Verdicts, Reasons
  <2> HIDE DEF o
  <2>5. /\ work # <<>> /\ work' = Tail(work) /\ UNCHANGED <<heap, root, open>>
        /\ \/ out' = Append(out, ScalarTok(o.val)) /\ verdict' = verdict
           \/ verdict' = EncodeScalar(o) /\ out' = out
    BY <1>4 DEF PopScalar, Popping, o
  <2>6. out' \in Seq(Toks)
    <3>1. out \in Seq(Toks)
      BY DEF TypeOK
    <3>2. Append(out, ScalarTok(o.val)) \in Seq(Toks)
      BY <3>1, <2>3
    <3> QED BY <3>1, <3>2, <2>5
  <2>7. verdict' \in Verdicts
    BY <2>4, <2>5 DEF TypeOK
  <2> QED BY <1>1, <2>5, <2>6, <2>7 DEF TypeOK
<1>5. CASE OpenContainer
  <2> DEFINE n == Head(work).node
             d == Head(work).depth
             o == heap[n]
  <2>1. n \in Node /\ d \in 1..(MAX_DEPTH + 1)
    BY <1>1, <1>5 DEF OpenContainer, Popping, Entries
  <2>2. o \in Objects /\ WellFormed(o) /\ IsContainer(o)
    BY <2>1, <1>5 DEF OpenContainer, TypeOK, Heaps
  <2>3. Bracket("open", o.type) \in Toks
    BY <2>2 DEF Bracket, Toks, IsContainer
  <2>4. OpenVerdict(o, n, d) \in Verdicts
    BY DEF OpenVerdict, KeysVerdict, Verdicts, Reasons
  <2>5. CASE OpenVerdict(o, n, d) = "ok"
    <3>1. d \in 1..MAX_DEPTH
      BY <2>1, <2>5, DepthAssumption DEF OpenVerdict
    <3>2. Pending(o, n, d) \in Seq(Entries)
      BY <3>1, <2>1, <2>2, PendingShape
    <3>3. Pending(o, n, d) \o Tail(work) \in Seq(Entries)
      BY <3>2, <1>1, <1>5, ConcatProperties DEF OpenContainer, Popping
    <3> HIDE DEF n, d, o
    <3>4. /\ open' = open \cup {n} /\ work' = Pending(o, n, d) \o Tail(work)
          /\ out' = Append(out, Bracket("open", o.type))
          /\ UNCHANGED <<verdict, heap, root>>
      BY <1>5, <2>5 DEF OpenContainer, n, d, o
    <3> QED BY <3>3, <3>4, <2>1, <2>3 DEF TypeOK
  <2>6. CASE OpenVerdict(o, n, d) # "ok"
    <3> HIDE DEF n, d, o
    <3>1. /\ verdict' = OpenVerdict(o, n, d) /\ work' = Tail(work) /\ work # <<>>
          /\ open' = IF d > MAX_DEPTH THEN open ELSE open \cup {n}
          /\ UNCHANGED <<out, heap, root>>
      BY <1>5, <2>6 DEF OpenContainer, Popping, n, d, o
    <3> QED BY <3>1, <1>1, <2>1, <2>4 DEF TypeOK
  <2> QED BY <2>5, <2>6
<1>6. CASE PopUnsupported
  BY <1>1, <1>6 DEF PopUnsupported, Popping, TypeOK, Verdicts, Reasons
<1>7. CASE Return
  BY <1>7 DEF Return, TypeOK, Verdicts
<1>8. CASE UNCHANGED fp2vars
  BY <1>8 DEF fp2vars, TypeOK
<1> QED BY <1>2, <1>3, <1>4, <1>5, <1>6, <1>7, <1>8 DEF Fp2Next

\* canonicalize starts well typed, with nothing open and the root scheduled.
LEMMA InitInv == Fp2Init => TypeOK /\ OpenContainersArePath
<1> SUFFICES ASSUME Fp2Init PROVE TypeOK /\ OpenContainersArePath
  OBVIOUS
<1>1. heap \in Heaps /\ root \in Node
  BY InputsAssumption DEF Fp2Init
<1>2. work = <<Value(root, 1)>> /\ Value(root, 1) \in Entries
  BY <1>1, DepthAssumption DEF Fp2Init, Value, Entries
<1>3. TypeOK
  BY <1>1, <1>2 DEF Fp2Init, TypeOK, Verdicts
<1>4. DOMAIN work = {1} /\ work[1].tag = "VALUE" /\ work[1].node = root
  BY <1>2 DEF Value
<1>5. Markers(work) = {} /\ open = {}
  BY <1>4 DEF Markers, Fp2Init
<1>6. IsOpenPath(heap, root, work, open)
  BY <1>4, <1>5 DEF IsOpenPath, Encloses
<1> QED BY <1>3, <1>6 DEF OpenContainersArePath

\* Every step keeps open_containers the path of the stack.
LEMMA PathStep ==
    TypeOK /\ OpenContainersArePath /\ [Fp2Next]_fp2vars => OpenContainersArePath'
<1> SUFFICES ASSUME TypeOK, OpenContainersArePath, [Fp2Next]_fp2vars, verdict' = "running"
             PROVE  IsOpenPath(heap', root', work', open')
  BY DEF OpenContainersArePath
<1>1. work \in Seq(Entries) /\ (work # <<>> => Head(work) = work[1] /\ work[1] \in Entries)
  BY HeadTailProperties DEF TypeOK
<1>2. ASSUME verdict = "running", work # <<>>, work[1].tag # "CLOSE", work' = Tail(work),
             UNCHANGED <<heap, root, open>>
      PROVE  IsOpenPath(heap', root', work', open')
  BY <1>1, <1>2, TailIsOpenPath DEF OpenContainersArePath
<1>3. CASE PopEmit
  BY <1>1, <1>2, <1>3 DEF PopEmit, Popping
<1>4. CASE PopClose
  <2>1. /\ verdict = "running" /\ work # <<>> /\ work[1].tag = "CLOSE" /\ work' = Tail(work)
        /\ open' = open \ {work[1].node} /\ heap' = heap /\ root' = root
    BY <1>1, <1>4 DEF PopClose, Popping
  <2> QED BY <1>1, <2>1, TailIsOpenPath DEF OpenContainersArePath
<1>5. CASE PopScalar
  BY <1>1, <1>2, <1>5 DEF PopScalar, Popping
<1>6. CASE OpenContainer
  <2> DEFINE n == work[1].node
             d == work[1].depth
             o == heap[n]
  <2>1. /\ verdict = "running" /\ work # <<>> /\ work[1].tag = "VALUE"
        /\ n \in Node /\ d \in 1..(MAX_DEPTH + 1) /\ IsContainer(o)
    BY <1>1, <1>6 DEF OpenContainer, Popping, Entries
  <2>2. o \in Objects /\ WellFormed(o)
    BY <2>1 DEF TypeOK, Heaps
  <2>3. OpenVerdict(o, n, d) = "ok"
    <3>1. OpenVerdict(o, n, d) # "running"
      BY DEF OpenVerdict, KeysVerdict
    <3> QED BY <3>1, <1>1, <1>6, <2>1 DEF OpenContainer
  <2>4. /\ open' = open \cup {n} /\ work' = Pending(o, n, d) \o Tail(work)
        /\ heap' = heap /\ root' = root
    BY <1>1, <1>6, <2>1, <2>3 DEF OpenContainer
  <2>5. n \notin open /\ d \in 1..MAX_DEPTH
    BY <2>1, <2>3, DepthAssumption DEF OpenVerdict
  <2> DEFINE p == Pending(o, n, d)
  <2>6. /\ p \in Seq(Entries) /\ Len(p) >= 2 /\ p[Len(p)] = Close(n)
        /\ \A i \in 1..(Len(p) - 1) :
              \/ p[i].tag = "EMIT"
              \/ p[i].tag = "VALUE" /\ \E m \in DOMAIN o.kids : p[i].node = o.kids[m]
    BY <2>1, <2>2, <2>5, PendingShape
  <2> HIDE DEF p
  <2>7. \A i \in 1..(Len(p) - 1) :
           p[i].tag = "EMIT" \/ (p[i].tag = "VALUE" /\ p[i].node \in Kids(heap, n))
    BY <2>6 DEF Kids
  <2>8. IsOpenPath(heap, root, work, open)
    BY <2>1 DEF OpenContainersArePath
  <2>9. IsOpenPath(heap, root, p \o Tail(work), open \cup {n})
    BY <1>1, <2>1, <2>5, <2>6, <2>7, <2>8, PushIsOpenPath
  <2> QED BY <2>4, <2>9 DEF p
<1>7. CASE PopUnsupported
  BY <1>7 DEF PopUnsupported
<1>8. CASE Return
  BY <1>8 DEF Return
<1>9. CASE UNCHANGED fp2vars
  BY <1>9 DEF fp2vars, OpenContainersArePath
<1> QED BY <1>3, <1>4, <1>5, <1>6, <1>7, <1>8, <1>9 DEF Fp2Next

\* The state of canonicalize's loop stays well typed, whatever the object
\* graph: no value is ever scheduled deeper than MAX_DEPTH + 1.
THEOREM Fp2TypeCorrect == Fp2Spec => []TypeOK
<1>1. Fp2Init => TypeOK
  BY InitInv
<1> QED BY <1>1, TypeStep, PTL DEF Fp2Spec, Fp2Safety

\* open_containers is at every moment the path from the root to the value
\* being encoded, so "circular reference" is raised exactly when a value is
\* one of its own ancestors and never for a shared sub-object.
THEOREM Fp2OpenContainersArePath == Fp2Spec => []OpenContainersArePath
<1>1. Fp2Init => TypeOK /\ OpenContainersArePath
  BY InitInv
<1>2. TypeOK /\ OpenContainersArePath /\ [Fp2Next]_fp2vars => (TypeOK /\ OpenContainersArePath)'
  BY TypeStep, PathStep
<1> QED BY <1>1, <1>2, PTL DEF Fp2Spec, Fp2Safety
-----------------------------------------------------------------------------
(* The profile's walk before fp2 *)

\* What may be met at the end of a way from the root: a node, its depth and
\* the containers open around it.
Places == Node \X Nat \X SUBSET Node

\* A place that neither _prevalidate nor fp2 refuses for depth, a cycle, a
\* key or a type.
Fits(h, place) ==
    LET o == h[place[1]]
    IN  /\ o.type \notin {"unsafe_int", "unsafe_float", "other"}
        /\ IsContainer(o) => /\ place[2] <= MAX_DEPTH
                             /\ place[1] \notin place[3]
                             /\ \A i \in DOMAIN o.keys : o.keys[i].type # "other"

\* The place of a child.
Below(place, kid) == <<kid, place[2] + 1, place[3] \cup {place[1]}>>

\* The places from which all that can be reached fits: the largest set that
\* fits and holds the children of its containers.
Sustained(h, G) ==
    \A place \in G :
        /\ Fits(h, place)
        /\ IsContainer(h[place[1]]) => \A kid \in Kids(h, place[1]) : Below(place, kid) \in G
Sound(h) == UNION {G \in SUBSET Places : Sustained(h, G)}

\* The containers open around the entry at i of a stack.
OpenAround(w, i) == {w[j].node : j \in {k \in Markers(w) : i < k}}
PlaceOf(w, i) == <<w[i].node, w[i].depth, OpenAround(w, i)>>

\* Everything that a stack holds for later is sound.
StackSound(h, w) == \A i \in DOMAIN w : w[i].tag = "VALUE" => PlaceOf(w, i) \in Sound(h)

\* Sound places fit, and so do their children.
LEMMA SoundSustained ==
    ASSUME NEW h, NEW place \in Sound(h)
    PROVE  /\ Fits(h, place)
           /\ IsContainer(h[place[1]]) => \A kid \in Kids(h, place[1]) : Below(place, kid) \in Sound(h)
<1>1. PICK G \in SUBSET Places : Sustained(h, G) /\ place \in G
  BY DEF Sound
<1>2. G \subseteq Sound(h)
  BY <1>1 DEF Sound
<1> QED  BY <1>1, <1>2 DEF Sustained

\* A place that fits is sound if the places of its children are.
LEMMA SoundFolds ==
    ASSUME NEW h, NEW place \in Places, Fits(h, place),
           IsContainer(h[place[1]]) => \A kid \in Kids(h, place[1]) : Below(place, kid) \in Sound(h)
    PROVE  place \in Sound(h)
<1> DEFINE G == Sound(h) \cup {place}
<1>1. G \in SUBSET Places
  BY DEF Sound
<1>2. Sustained(h, G)
  <2> SUFFICES ASSUME NEW q \in G
               PROVE  /\ Fits(h, q)
                      /\ IsContainer(h[q[1]]) => \A kid \in Kids(h, q[1]) : Below(q, kid) \in G
    BY DEF Sustained
  <2>1. CASE q = place
    BY <2>1
  <2>2. CASE q \in Sound(h)
    BY <2>2, SoundSustained
  <2> QED  BY <2>1, <2>2
<1> QED  BY <1>1, <1>2 DEF Sound

\* Around the top of the stack the open set is open.
LEMMA AroundTop ==
    ASSUME NEW h, NEW r, NEW w \in Seq(Entries), NEW op, w # <<>>,
           IsOpenPath(h, r, w, op), w[1].tag # "CLOSE"
    PROVE  OpenAround(w, 1) = op
<1>1. Markers(w) = {k \in Markers(w) : 1 < k}
  <2> SUFFICES ASSUME NEW k \in Markers(w) PROVE 1 < k
    OBVIOUS
  <2>1. k \in 1..Len(w) /\ k # 1
    BY DEF Markers
  <2> QED  BY <2>1
<1>2. OpenAround(w, 1) = {w[j].node : j \in Markers(w)}
  BY <1>1 DEF OpenAround
<1>3. \A n : n \in OpenAround(w, 1) <=> n \in op
  BY <1>2 DEF IsOpenPath
<1> QED  BY <1>3

\* Popping an entry changes nothing around the others.
LEMMA TailSound ==
    ASSUME NEW h, NEW w \in Seq(Entries), w # <<>>
    PROVE  StackSound(h, w) <=> /\ StackSound(h, Tail(w))
                                /\ w[1].tag = "VALUE" => PlaceOf(w, 1) \in Sound(h)
<1> DEFINE t == Tail(w)
<1>1. /\ Len(w) \in Nat /\ Len(w) >= 1 /\ DOMAIN w = 1..Len(w)
      /\ DOMAIN t = 1..(Len(w) - 1)
      /\ \A i \in 1..(Len(w) - 1) : t[i] = w[i + 1]
  BY HeadTailProperties
<1> HIDE DEF t
<1>2. ASSUME NEW i \in DOMAIN t
      PROVE  OpenAround(t, i) = OpenAround(w, i + 1)
  <2>1. \A j \in Markers(t) : i < j => j + 1 \in Markers(w) /\ i + 1 < j + 1 /\ w[j + 1] = t[j]
    BY <1>1 DEF Markers
  <2>2. \A k \in Markers(w) : i + 1 < k => k - 1 \in Markers(t) /\ i < k - 1 /\ t[k - 1] = w[k]
    BY <1>1 DEF Markers
  <2>3. OpenAround(t, i) \subseteq OpenAround(w, i + 1)
    BY <2>1 DEF OpenAround
  <2>4. OpenAround(w, i + 1) \subseteq OpenAround(t, i)
    BY <2>2 DEF OpenAround
  <2> QED  BY <2>3, <2>4
<1>3. \A i \in DOMAIN t : i + 1 \in DOMAIN w /\ t[i] = w[i + 1] /\ PlaceOf(t, i) = PlaceOf(w, i + 1)
  BY <1>1, <1>2 DEF PlaceOf
<1>4. \A i \in DOMAIN w : i = 1 \/ (i - 1 \in DOMAIN t /\ (i - 1) + 1 = i)
  BY <1>1
<1>5. 1 \in DOMAIN w
  BY <1>1
<1> QED  BY <1>3, <1>4, <1>5 DEF StackSound, t

\* Replacing the top, a container, by its children above its CLOSE marker
\* puts the container around them.
LEMMA PushSound ==
    ASSUME NEW h, NEW w \in Seq(Entries), w # <<>>, NEW n,
           NEW p \in Seq(Entries), Len(p) >= 1, p[Len(p)] = Close(n),
           \A i \in 1..(Len(p) - 1) : p[i].tag # "CLOSE", w[1].tag = "VALUE"
    PROVE  StackSound(h, p \o Tail(w)) <=>
              /\ StackSound(h, Tail(w))
              /\ \A i \in 1..(Len(p) - 1) : p[i].tag = "VALUE" =>
                    <<p[i].node, p[i].depth, OpenAround(w, 1) \cup {n}>> \in Sound(h)
<1> DEFINE L == Len(p)
           u == Tail(w)
           t == p \o u
<1>1. /\ Len(w) \in Nat /\ Len(w) >= 1 /\ DOMAIN w = 1..Len(w) /\ L \in Nat /\ L >= 1
      /\ u \in Seq(Entries) /\ Len(u) = Len(w) - 1 /\ DOMAIN u = 1..(Len(w) - 1)
      /\ \A i \in 1..(Len(w) - 1) : u[i] = w[i + 1]
  BY HeadTailProperties, LenProperties
<1> HIDE DEF u
<1>2. DOMAIN t = 1..(L + Len(u)) /\ \A i \in 1..L : t[i] = p[i]
  <2>1. t \in Seq(Entries) /\ Len(t) = L + Len(u)
    BY <1>1, ConcatProperties
  <2>2. \A i \in 1..L : t[i] = p[i]
    BY <1>1, ConcatProperties
  <2> QED  BY <2>1, <2>2
<1>3. \A i \in 1..Len(u) : t[i + L] = u[i]
  <2> SUFFICES ASSUME NEW i \in 1..Len(u) PROVE t[i + L] = u[i]
    OBVIOUS
  <2>1. i + L \in 1..(L + Len(u)) /\ ~(i + L <= L) /\ (i + L) - L = i
    BY <1>1
  <2> QED  BY <1>1, <2>1, ConcatProperties
<1> HIDE DEF t, L
<1>4. t[L].tag = "CLOSE" /\ t[L].node = n /\ L \in Markers(t)
  BY <1>1, <1>2 DEF Close, Markers, L
<1>5. \A i \in 1..(L - 1) : t[i] = p[i] /\ p[i].tag # "CLOSE"
  <2>1. \A i \in 1..(L - 1) : i \in 1..L /\ p[i].tag # "CLOSE"
    BY <1>1 DEF L
  <2> QED  BY <2>1, <1>2
<1>6. \A k \in Markers(t) : k \in Nat /\ (k = L \/ (k - L \in Markers(u) /\ t[k] = u[k - L]))
  <2> SUFFICES ASSUME NEW k \in Markers(t), k # L
               PROVE  k \in Nat /\ k - L \in Markers(u) /\ t[k] = u[k - L]
    BY <1>1
  <2>1. k \in 1..(L + Len(u)) /\ t[k].tag = "CLOSE"
    BY <1>2 DEF Markers
  <2>2. k > L
    BY <1>1, <1>5, <2>1
  <2>3. k - L \in 1..Len(u) /\ (k - L) + L = k
    BY <1>1, <2>1, <2>2
  <2> QED  BY <1>1, <1>3, <2>1, <2>3 DEF Markers
<1>7. \A k \in Markers(u) : k \in 1..Len(u) /\ k + L \in Markers(t) /\ t[k + L] = u[k]
  <2> SUFFICES ASSUME NEW k \in Markers(u)
               PROVE  k \in 1..Len(u) /\ k + L \in Markers(t) /\ t[k + L] = u[k]
    OBVIOUS
  <2>1. k \in 1..Len(u) /\ u[k].tag = "CLOSE"
    BY <1>1 DEF Markers
  <2>2. t[k + L] = u[k]
    BY <2>1, <1>3
  <2>3. k + L \in DOMAIN t
    BY <2>1, <1>1, <1>2
  <2> QED  BY <2>1, <2>2, <2>3 DEF Markers
<1>8. ASSUME NEW i \in 1..Len(u)
      PROVE  OpenAround(t, i + L) = OpenAround(u, i)
  <2>1. \A k \in Markers(t) : i + L < k => k - L \in Markers(u) /\ i < k - L /\ t[k] = u[k - L]
    BY <1>1, <1>6
  <2>2. \A k \in Markers(u) : i < k => k + L \in Markers(t) /\ i + L < k + L /\ t[k + L] = u[k]
    BY <1>1, <1>7
  <2>3. OpenAround(t, i + L) \subseteq OpenAround(u, i)
    BY <2>1 DEF OpenAround
  <2>4. OpenAround(u, i) \subseteq OpenAround(t, i + L)
    BY <2>2 DEF OpenAround
  <2> QED  BY <2>3, <2>4
<1>9. ASSUME NEW i \in 1..(L - 1)
      PROVE  OpenAround(t, i) = OpenAround(w, 1) \cup {n}
  <2>1. OpenAround(w, 1) = {u[k].node : k \in Markers(u)}
    <3>1. \A k \in Markers(w) : 1 < k => k - 1 \in Markers(u) /\ w[k] = u[k - 1]
      BY <1>1 DEF Markers
    <3>2. \A k \in Markers(u) : k + 1 \in Markers(w) /\ 1 < k + 1 /\ u[k] = w[k + 1]
      BY <1>1 DEF Markers
    <3> QED  BY <3>1, <3>2 DEF OpenAround
  <2>2. \A k \in Markers(t) : t[k].node = n \/ \E j \in Markers(u) : t[k].node = u[j].node
    BY <1>4, <1>6
  <2>3. \A k \in Markers(u) : k + L \in Markers(t) /\ i < k + L /\ t[k + L].node = u[k].node
    BY <1>1, <1>7
  <2>4. L \in Markers(t) /\ i < L /\ t[L].node = n
    BY <1>1, <1>4
  <2>5. OpenAround(t, i) \subseteq OpenAround(w, 1) \cup {n}
    BY <2>1, <2>2 DEF OpenAround
  <2>6. OpenAround(w, 1) \cup {n} \subseteq OpenAround(t, i)
    BY <2>1, <2>3, <2>4 DEF OpenAround
  <2> QED  BY <2>5, <2>6
<1>10. \A i \in 1..(L - 1) : /\ i \in DOMAIN t /\ t[i] = p[i]
                             /\ PlaceOf(t, i) = <<p[i].node, p[i].depth, OpenAround(w, 1) \cup {n}>>
  BY <1>1, <1>2, <1>5, <1>9 DEF PlaceOf
<1>11. \A i \in 1..Len(u) : /\ i + L \in DOMAIN t /\ t[i + L] = u[i]
                            /\ PlaceOf(t, i + L) = PlaceOf(u, i)
  BY <1>1, <1>2, <1>3, <1>8 DEF PlaceOf
<1>12. \A i \in DOMAIN t : i \in 1..(L - 1) \/ i = L \/ (i - L \in 1..Len(u) /\ (i - L) + L = i)
  BY <1>1, <1>2
<1>13. DOMAIN u = 1..Len(u)
  BY <1>1
<1>14. StackSound(h, t) => /\ StackSound(h, u)
                           /\ \A i \in 1..(L - 1) : p[i].tag = "VALUE" =>
                                <<p[i].node, p[i].depth, OpenAround(w, 1) \cup {n}>> \in Sound(h)
  BY <1>10, <1>11, <1>13 DEF StackSound
<1>15. ASSUME StackSound(h, u),
              \A i \in 1..(L - 1) : p[i].tag = "VALUE" =>
                 <<p[i].node, p[i].depth, OpenAround(w, 1) \cup {n}>> \in Sound(h)
       PROVE  StackSound(h, t)
  <2> SUFFICES ASSUME NEW i \in DOMAIN t, t[i].tag = "VALUE"
               PROVE  PlaceOf(t, i) \in Sound(h)
    BY DEF StackSound
  <2>1. CASE i \in 1..(L - 1)
    BY <2>1, <1>10, <1>15
  <2>2. CASE i = L
    BY <2>2, <1>4
  <2>3. CASE i - L \in 1..Len(u) /\ (i - L) + L = i
    <3>1. PICK k \in 1..Len(u) : k + L = i
      BY <2>3
    <3> QED  BY <3>1, <1>11, <1>13, <1>15 DEF StackSound
  <2> QED  BY <2>1, <2>2, <2>3, <1>12
<1> QED  BY <1>14, <1>15 DEF t, u, L

\* Every child one level deeper, the last on top, above the container's own
\* CLOSE marker.
PushedChildren(p, o, n, d) ==
    /\ p \in Seq(Entries) /\ Len(p) >= 1 /\ p[Len(p)] = Close(n)
    /\ Len(p) = Len(o.kids) + 1
    /\ \A i \in 1..(Len(p) - 1) :
          p[i].tag = "VALUE" /\ p[i].depth = d + 1 /\ p[i].node = o.kids[Len(p) - i]

\* That is what _open_profile_container pushes.
LEMMA ProfileShape ==
    ASSUME NEW o \in Objects, NEW n \in Node, NEW d \in 1..MAX_DEPTH,
           NEW p, p = ProfileChildren(o, n, d)
    PROVE  PushedChildren(p, o, n, d)
<1> USE DepthAssumption
<1> DEFINE K == Len(o.kids)
           kids == [i \in 1..K |-> Value(o.kids[K + 1 - i], d + 1)]
           tail == <<Close(n)>>
<1>1. o.kids \in Seq(Node) /\ K \in Nat /\ DOMAIN o.kids = 1..K
  BY DEF Objects
<1>2. \A i \in 1..K : K + 1 - i \in 1..K /\ o.kids[K + 1 - i] \in Node
  BY <1>1
<1>3. \A i \in 1..K : /\ Value(o.kids[K + 1 - i], d + 1) \in Entries
                      /\ Value(o.kids[K + 1 - i], d + 1).tag = "VALUE"
                      /\ Value(o.kids[K + 1 - i], d + 1).depth = d + 1
                      /\ Value(o.kids[K + 1 - i], d + 1).node = o.kids[K + 1 - i]
  BY <1>2 DEF Value, Entries
<1>4. kids \in Seq(Entries) /\ Len(kids) = K
  BY <1>1, <1>3
<1>5. tail \in Seq(Entries) /\ Len(tail) = 1 /\ tail[1] = Close(n)
  BY DEF Close, Entries
<1>6. \A i \in 1..K : kids[i] = Value(o.kids[K + 1 - i], d + 1)
  OBVIOUS
<1>7. p = kids \o tail
  BY DEF ProfileChildren
<1> HIDE DEF kids, tail, K
<1>8. p \in Seq(Entries) /\ Len(p) = K + 1
  <2>1. kids \o tail \in Seq(Entries) /\ Len(kids \o tail) = Len(kids) + Len(tail)
    BY <1>4, <1>5, ConcatProperties
  <2> QED  BY <1>1, <1>4, <1>5, <1>7, <2>1
<1>9. \A i \in 1..K : p[i] = kids[i]
  BY <1>1, <1>4, <1>5, <1>7, ConcatProperties
<1>10. p[K + 1] = Close(n)
  <2>1. K + 1 \in 1..(Len(kids) + Len(tail)) /\ ~(K + 1 <= Len(kids)) /\ (K + 1) - Len(kids) = 1
    BY <1>1, <1>4, <1>5
  <2>2. (kids \o tail)[K + 1] = tail[(K + 1) - Len(kids)]
    BY <2>1, <1>4, <1>5, ConcatProperties
  <2> QED  BY <2>1, <2>2, <1>5, <1>7
<1>11. \A i \in 1..(Len(p) - 1) : i \in 1..K
  BY <1>1, <1>8
<1>12. \A i \in 1..(Len(p) - 1) : /\ p[i].tag = "VALUE" /\ p[i].depth = d + 1
                                  /\ p[i].node = o.kids[K + 1 - i]
  BY <1>3, <1>6, <1>9, <1>11
<1>13. Len(p) >= 1 /\ p[Len(p)] = Close(n)
  BY <1>1, <1>8, <1>10
<1> QED  BY <1>8, <1>12, <1>13 DEF K, PushedChildren

\* The verdicts that the docstring of _canonical_bytes leaves to fp2.
LeftToFp2 == {"running", "ok", "non_finite", "lone_surrogate"}

\* While _prevalidate walks, its open set is the path of its stack, and the
\* whole value is sound if what is still on the stack is. Once fp2 runs, all
\* on its stack is sound.
WalkInv ==
    /\ pwork \in Seq(Entries)
    /\ stage = "prevalidate" =>
          /\ result = "none" /\ verdict = "running"
          /\ work = <<Value(root, 1)>> /\ open = {}
          /\ IsOpenPath(heap, root, pwork, open_ids)
          /\ StackSound(heap, pwork) => <<root, 1, {}>> \in Sound(heap)
    /\ stage = "fp2" =>
          /\ verdict \in LeftToFp2
          /\ verdict = "running" => StackSound(heap, work)
    /\ stage = "done" /\ result \in {"none", "digest", "Fp2Canonicalization"} => verdict \in LeftToFp2
ProfileInv == TypeOK /\ OpenContainersArePath /\ WalkInv
profilestate == <<fp2vars, profilevars>>

\* The stack of a call holds the root alone, with nothing open around it.
LEMMA RootAlone ==
    ASSUME NEW h, NEW w, NEW r, w = <<Value(r, 1)>>
    PROVE  /\ DOMAIN w = {1} /\ Markers(w) = {} /\ IsOpenPath(h, r, w, {})
           /\ StackSound(h, w) <=> <<r, 1, {}>> \in Sound(h)
<1>1. DOMAIN w = {1} /\ w[1].tag = "VALUE" /\ w[1].node = r /\ w[1].depth = 1
  BY DEF Value
<1>2. Markers(w) = {}
  BY <1>1 DEF Markers
<1>3. PlaceOf(w, 1) = <<r, 1, {}>>
  BY <1>1, <1>2 DEF PlaceOf, OpenAround
<1>4. IsOpenPath(h, r, w, {})
  BY <1>1, <1>2 DEF IsOpenPath, Encloses
<1> QED  BY <1>1, <1>2, <1>3, <1>4 DEF StackSound

\* The place of the top of a stack.
LEMMA TopPlace ==
    ASSUME NEW h \in Heaps, NEW r, NEW w \in Seq(Entries), NEW op, w # <<>>,
           IsOpenPath(h, r, w, op), w[1].tag = "VALUE"
    PROVE  /\ w[1].node \in Node /\ w[1].depth \in 1..(MAX_DEPTH + 1)
           /\ PlaceOf(w, 1) = <<w[1].node, w[1].depth, op>>
           /\ PlaceOf(w, 1) \in Places
           /\ h[w[1].node] \in Objects /\ WellFormed(h[w[1].node])
<1>1. w[1] \in Entries
  BY HeadTailProperties
<1>2. w[1].node \in Node /\ w[1].depth \in 1..(MAX_DEPTH + 1)
  BY <1>1 DEF Entries
<1>3. OpenAround(w, 1) = op
  BY AroundTop
<1>4. op \in SUBSET Node
  <2>1. \A j \in Markers(w) : w[j].node \in Node
    <3> SUFFICES ASSUME NEW j \in Markers(w) PROVE w[j].node \in Node
      OBVIOUS
    <3>1. w[j] \in Entries /\ w[j].tag = "CLOSE"
      BY DEF Markers
    <3> QED  BY <3>1 DEF Entries
  <2> QED  BY <2>1 DEF IsOpenPath
<1>5. w[1].depth \in Nat
  BY <1>2, DepthAssumption
<1> QED  BY <1>2, <1>3, <1>4, <1>5 DEF PlaceOf, Places, Heaps

\* Each iteration of _prevalidate keeps the invariant: the entry it takes off
\* fits, and its children are on the stack.
LEMMA PrevalidateStep ==
    ASSUME ProfileInv, PrevalidateClose \/ PrevalidateScalar \/ PrevalidateContainer
    PROVE  WalkInv'
<1>1. /\ stage = "prevalidate" /\ pwork # <<>> /\ pwork \in Seq(Entries) /\ UNCHANGED fp2vars
      /\ Head(pwork) = pwork[1] /\ heap \in Heaps /\ Tail(pwork) \in Seq(Entries)
  <2>1. stage = "prevalidate" /\ pwork # <<>> /\ UNCHANGED fp2vars
    BY DEF PrevalidateClose, PrevalidateScalar, PrevalidateContainer, Prevalidating
  <2>2. pwork \in Seq(Entries) /\ heap \in Heaps
    BY DEF ProfileInv, WalkInv, TypeOK
  <2> QED  BY <2>1, <2>2, HeadTailProperties
<1>2. /\ result = "none" /\ verdict = "running" /\ work = <<Value(root, 1)>> /\ open = {}
      /\ IsOpenPath(heap, root, pwork, open_ids)
      /\ StackSound(heap, pwork) => <<root, 1, {}>> \in Sound(heap)
  BY <1>1 DEF ProfileInv, WalkInv
<1>3. ASSUME stage' = "done", result' \notin {"none", "digest", "Fp2Canonicalization"},
             pwork' = Tail(pwork)
      PROVE  WalkInv'
  BY <1>1, <1>3 DEF WalkInv
<1>4. ASSUME stage' = stage, result' = result, pwork' \in Seq(Entries),
             IsOpenPath(heap, root, pwork', open_ids'),
             StackSound(heap, pwork') => StackSound(heap, pwork)
      PROVE  WalkInv'
  BY <1>1, <1>2, <1>4 DEF WalkInv, fp2vars
<1>5. CASE PrevalidateClose
  <2>1. /\ pwork[1].tag = "CLOSE" /\ open_ids' = open_ids \ {pwork[1].node}
        /\ pwork' = Tail(pwork) /\ stage' = stage /\ result' = result
    BY <1>1, <1>5 DEF PrevalidateClose, Prevalidating
  <2>2. IsOpenPath(heap, root, pwork', open_ids')
    BY <1>1, <1>2, <2>1, TailIsOpenPath
  <2>3. StackSound(heap, pwork') => StackSound(heap, pwork)
    BY <1>1, <2>1, TailSound
  <2> QED  BY <1>1, <1>4, <2>1, <2>2, <2>3
<1>6. ASSUME pwork[1].tag = "VALUE"
      PROVE  /\ pwork[1].node \in Node /\ pwork[1].depth \in 1..(MAX_DEPTH + 1)
             /\ PlaceOf(pwork, 1) = <<pwork[1].node, pwork[1].depth, open_ids>>
             /\ PlaceOf(pwork, 1) \in Places
             /\ heap[pwork[1].node] \in Objects /\ WellFormed(heap[pwork[1].node])
  BY <1>1, <1>2, <1>6, TopPlace
<1>7. CASE PrevalidateScalar
  <2>1. PICK o : o = heap[pwork[1].node]
    OBVIOUS
  <2>2. /\ pwork[1].tag = "VALUE" /\ ~IsContainer(o) /\ pwork' = Tail(pwork) /\ open_ids' = open_ids
        /\ IF ScalarError(o) = "none" THEN stage' = stage /\ result' = result
           ELSE result' = ScalarError(o) /\ stage' = "done"
    BY <1>1, <1>7, <2>1 DEF PrevalidateScalar, Prevalidating, Refuse
  <2>3. CASE ScalarError(o) # "none"
    <3>1. result' \notin {"none", "digest", "Fp2Canonicalization"}
      BY <2>2, <2>3 DEF ScalarError
    <3> QED  BY <1>3, <2>2, <2>3, <3>1
  <2>4. CASE ScalarError(o) = "none"
    <3>1. Fits(heap, PlaceOf(pwork, 1))
      BY <1>6, <2>1, <2>2, <2>4 DEF Fits, ScalarError
    <3>2. PlaceOf(pwork, 1) \in Sound(heap)
      <4>1. PICK place : place = PlaceOf(pwork, 1)
        OBVIOUS
      <4>2. place \in Places /\ Fits(heap, place) /\ ~IsContainer(heap[place[1]])
        BY <1>6, <2>1, <2>2, <3>1, <4>1
      <4> QED  BY <4>1, <4>2, SoundFolds
    <3>3. StackSound(heap, pwork') => StackSound(heap, pwork)
      BY <1>1, <2>2, <3>2, TailSound
    <3>4. IsOpenPath(heap, root, pwork', open_ids')
      BY <1>1, <1>2, <2>2, TailIsOpenPath
    <3> QED  BY <1>1, <1>4, <2>2, <2>4, <3>3, <3>4
  <2> QED  BY <2>3, <2>4
<1>8. CASE PrevalidateContainer
  <2>1. PICK n, d, o : n = pwork[1].node /\ d = pwork[1].depth /\ o = heap[n]
    OBVIOUS
  <2>2. /\ pwork[1].tag = "VALUE" /\ IsContainer(o)
        /\ IF ContainerError(o, n, d) = "none"
           THEN /\ open_ids' = open_ids \cup {n} /\ pwork' = ProfileChildren(o, n, d) \o Tail(pwork)
                /\ stage' = stage /\ result' = result
           ELSE /\ result' = ContainerError(o, n, d) /\ stage' = "done" /\ pwork' = Tail(pwork)
    BY <1>1, <1>8, <2>1 DEF PrevalidateContainer, Prevalidating, Refuse
  <2>3. CASE ContainerError(o, n, d) # "none"
    <3>1. result' \notin {"none", "digest", "Fp2Canonicalization"}
      BY <2>2, <2>3 DEF ContainerError
    <3> QED  BY <1>3, <2>2, <2>3, <3>1
  <2>4. CASE ContainerError(o, n, d) = "none"
    <3>1. /\ n \in Node /\ d \in 1..(MAX_DEPTH + 1) /\ o \in Objects
          /\ PlaceOf(pwork, 1) = <<n, d, open_ids>> /\ PlaceOf(pwork, 1) \in Places
      BY <1>6, <2>1, <2>2
    <3>2. /\ d \in 1..MAX_DEPTH /\ n \notin open_ids
          /\ \A i \in DOMAIN o.keys : o.keys[i].type # "other"
      BY <2>4, <3>1, DepthAssumption DEF ContainerError
    <3>3. PICK p : p = ProfileChildren(o, n, d)
      OBVIOUS
    <3>4. /\ p \in Seq(Entries) /\ Len(p) >= 1 /\ p[Len(p)] = Close(n)
          /\ Len(p) = Len(o.kids) + 1
          /\ \A i \in 1..(Len(p) - 1) :
                p[i].tag = "VALUE" /\ p[i].depth = d + 1 /\ p[i].node = o.kids[Len(p) - i]
      <4>1. o \in Objects /\ n \in Node /\ d \in 1..MAX_DEPTH
        BY <3>1, <3>2
      <4>2. PushedChildren(p, o, n, d)
        BY ONLY <3>3, <4>1, ProfileShape
      <4> QED  BY <4>2 DEF PushedChildren
    <3>5. /\ \A i \in 1..(Len(p) - 1) : p[i].node \in Kids(heap, n)
          /\ \A kid \in Kids(heap, n) : \E i \in 1..(Len(p) - 1) : p[i].node = kid
      <4>1. Kids(heap, n) = {o.kids[m] : m \in DOMAIN o.kids}
        BY <2>1 DEF Kids
      <4>2. DOMAIN o.kids = 1..Len(o.kids) /\ Len(o.kids) \in Nat
        BY <3>1 DEF Objects
      <4>3. ASSUME NEW i \in 1..(Len(p) - 1)
            PROVE  p[i].node \in Kids(heap, n)
        <5>1. Len(p) - i \in DOMAIN o.kids
          BY <3>4, <4>2
        <5> QED  BY <3>4, <4>1, <5>1
      <4>4. ASSUME NEW kid \in Kids(heap, n)
            PROVE  \E i \in 1..(Len(p) - 1) : p[i].node = kid
        <5>1. PICK m \in DOMAIN o.kids : kid = o.kids[m]
          BY <4>1
        <5>2. Len(p) - m \in 1..(Len(p) - 1) /\ Len(p) - (Len(p) - m) = m
          <6>1. m \in 1..Len(o.kids) /\ Len(o.kids) \in Nat /\ Len(p) = Len(o.kids) + 1
            BY <3>4, <4>2
          <6> QED  BY ONLY <6>1
        <5> QED  BY <3>4, <5>1, <5>2
      <4> QED  BY <4>3, <4>4
    <3>6. pwork' = p \o Tail(pwork) /\ pwork' \in Seq(Entries)
      BY <1>1, <2>2, <2>4, <3>3, <3>4, ConcatProperties
    <3>7. IsOpenPath(heap, root, pwork', open_ids')
      <4>1. /\ pwork[1].node \notin open_ids /\ p[Len(p)] = Close(pwork[1].node)
            /\ \A i \in 1..(Len(p) - 1) :
                  p[i].tag = "VALUE" /\ p[i].node \in Kids(heap, pwork[1].node)
        BY <2>1, <3>2, <3>4, <3>5
      <4>2. p \in Seq(Entries) /\ Len(p) >= 1 /\ pwork[1].tag = "VALUE"
        BY <2>2, <3>4
      <4>3. IsOpenPath(heap, root, p \o Tail(pwork), open_ids \cup {pwork[1].node})
        BY ONLY <1>1, <1>2, <4>1, <4>2, PushIsOpenPath
      <4> QED  BY <2>1, <2>2, <2>4, <3>6, <4>3
    <3>8. ASSUME StackSound(heap, pwork')
          PROVE  StackSound(heap, pwork)
      <4>1. \A i \in 1..(Len(p) - 1) : p[i].tag # "CLOSE"
        BY <3>4
      <4>2. /\ StackSound(heap, Tail(pwork))
            /\ \A i \in 1..(Len(p) - 1) : p[i].tag = "VALUE" =>
                  <<p[i].node, p[i].depth, OpenAround(pwork, 1) \cup {n}>> \in Sound(heap)
        BY <1>1, <2>2, <3>4, <3>6, <3>8, <4>1, PushSound
      <4>3. OpenAround(pwork, 1) = open_ids
        BY <1>1, <1>2, <2>2, AroundTop
      <4>4. PICK place : place = <<n, d, open_ids>>
        OBVIOUS
      <4>5. \A kid \in Kids(heap, n) : Below(place, kid) \in Sound(heap)
        <5> SUFFICES ASSUME NEW kid \in Kids(heap, n) PROVE Below(place, kid) \in Sound(heap)
          OBVIOUS
        <5>1. PICK i \in 1..(Len(p) - 1) : p[i].node = kid
          BY <3>5
        <5>2. Below(place, kid) = <<p[i].node, p[i].depth, OpenAround(pwork, 1) \cup {n}>>
          BY <3>4, <4>3, <4>4, <5>1 DEF Below
        <5> QED  BY <3>4, <4>2, <5>2
      <4>6. place \in Places /\ Fits(heap, place) /\ place[1] = n
        BY <2>1, <2>2, <3>1, <3>2, <4>4 DEF Fits, IsContainer, ContainerTypes
      <4>7. place \in Sound(heap)
        BY <4>5, <4>6, SoundFolds
      <4> QED  BY <1>1, <3>1, <4>2, <4>4, <4>7, TailSound
    <3> QED  BY <1>1, <1>4, <2>2, <2>4, <3>6, <3>7, <3>8
  <2> QED  BY <2>3, <2>4
<1> QED  BY <1>5, <1>7, <1>8

\* A step of fp2 behind the profile leaves only sound entries, and refuses
\* only what the profile left to it.
LEMMA Fp2StepSound ==
    ASSUME ProfileInv, Fp2Next, stage = "fp2", UNCHANGED profilevars
    PROVE  WalkInv'
<1>1. /\ verdict \in LeftToFp2 /\ heap \in Heaps /\ work \in Seq(Entries)
      /\ verdict = "running" => StackSound(heap, work) /\ IsOpenPath(heap, root, work, open)
      /\ pwork \in Seq(Entries)
  BY DEF ProfileInv, WalkInv, TypeOK, OpenContainersArePath
<1>2. work # <<>> => Head(work) = work[1] /\ Tail(work) \in Seq(Entries)
  BY <1>1, HeadTailProperties
<1> SUFFICES verdict' \in LeftToFp2 /\ (verdict' = "running" => StackSound(heap', work'))
  BY <1>1 DEF WalkInv, profilevars
<1>3. ASSUME work # <<>>, verdict = "running", work' = Tail(work), heap' = heap
      PROVE  StackSound(heap', work')
  BY <1>1, <1>3, TailSound
<1>4. ASSUME work # <<>>, verdict = "running", work[1].tag = "VALUE"
      PROVE  /\ work[1].node \in Node /\ work[1].depth \in 1..(MAX_DEPTH + 1)
             /\ PlaceOf(work, 1) = <<work[1].node, work[1].depth, open>>
             /\ heap[work[1].node] \in Objects /\ WellFormed(heap[work[1].node])
             /\ PlaceOf(work, 1) \in Sound(heap) /\ Fits(heap, PlaceOf(work, 1))
  <2>1. PlaceOf(work, 1) \in Sound(heap)
    BY <1>1, <1>4, TailSound
  <2>2. Fits(heap, PlaceOf(work, 1))
    BY <2>1, SoundSustained
  <2> QED  BY <1>1, <1>4, <2>1, <2>2, TopPlace
<1>5. CASE PopEmit
  BY <1>1, <1>3, <1>5 DEF PopEmit, Popping
<1>6. CASE PopClose
  BY <1>1, <1>3, <1>6 DEF PopClose, Popping
<1>7. CASE PopScalar
  <2>1. PICK o : o = heap[work[1].node]
    OBVIOUS
  <2>2. /\ work # <<>> /\ verdict = "running" /\ work[1].tag = "VALUE" /\ work' = Tail(work)
        /\ heap' = heap /\ verdict' \in {verdict, EncodeScalar(o)}
    BY <1>2, <1>7, <2>1 DEF PopScalar, Popping
  <2>3. o.type # "unsafe_int"
    BY <1>4, <2>1, <2>2 DEF Fits
  <2>4. EncodeScalar(o) \in {"ok", "non_finite", "lone_surrogate"}
    BY <2>3 DEF EncodeScalar
  <2> QED  BY <1>3, <2>2, <2>4 DEF LeftToFp2
<1>8. CASE OpenContainer
  <2>1. PICK n, d, o : n = work[1].node /\ d = work[1].depth /\ o = heap[n]
    OBVIOUS
  <2>2. /\ work # <<>> /\ verdict = "running" /\ work[1].tag = "VALUE" /\ heap' = heap
        /\ IsContainer(o)
        /\ IF OpenVerdict(o, n, d) = "ok"
           THEN work' = Pending(o, n, d) \o Tail(work) /\ verdict' = verdict
           ELSE verdict' = OpenVerdict(o, n, d)
    BY <1>2, <1>8, <2>1 DEF OpenContainer, Popping
  <2>3. /\ n \in Node /\ d \in 1..(MAX_DEPTH + 1) /\ o \in Objects /\ WellFormed(o)
        /\ PlaceOf(work, 1) = <<n, d, open>> /\ PlaceOf(work, 1) \in Sound(heap)
        /\ d <= MAX_DEPTH /\ n \notin open /\ \A i \in DOMAIN o.keys : o.keys[i].type # "other"
    BY <1>4, <2>1, <2>2 DEF Fits
  <2>4. OpenVerdict(o, n, d) \in {"ok", "lone_surrogate"}
    BY <2>3, DepthAssumption DEF OpenVerdict, KeysVerdict
  <2>5. CASE OpenVerdict(o, n, d) # "ok"
    BY <2>2, <2>4, <2>5 DEF LeftToFp2
  <2>6. CASE OpenVerdict(o, n, d) = "ok"
    <3>1. PICK p : p = Pending(o, n, d)
      OBVIOUS
    <3>2. d \in 1..MAX_DEPTH
      BY <2>3, DepthAssumption
    <3>3. /\ p \in Seq(Entries) /\ Len(p) >= 1 /\ p[Len(p)] = Close(n)
          /\ \A i \in 1..(Len(p) - 1) :
                \/ p[i].tag = "EMIT"
                \/ /\ p[i].tag = "VALUE" /\ p[i].depth = d + 1
                   /\ \E m \in DOMAIN o.kids : p[i].node = o.kids[m]
      <4>1. /\ p \in Seq(Entries) /\ Len(p) >= 2 /\ p[Len(p)] = Close(n)
            /\ \A i \in 1..(Len(p) - 1) :
                  \/ p[i].tag = "EMIT"
                  \/ /\ p[i].tag = "VALUE" /\ p[i].depth = d + 1
                     /\ \E m \in DOMAIN o.kids : p[i].node = o.kids[m]
        BY <2>2, <2>3, <3>1, <3>2, PendingShape
      <4> QED  BY <4>1, LenProperties
    <3>4. \A i \in 1..(Len(p) - 1) : p[i].tag # "CLOSE"
      BY <3>3
    <3>5. OpenAround(work, 1) = open
      BY <1>1, <2>2, AroundTop
    <3>6. \A i \in 1..(Len(p) - 1) : p[i].tag = "VALUE" =>
             <<p[i].node, p[i].depth, OpenAround(work, 1) \cup {n}>> \in Sound(heap)
      <4> SUFFICES ASSUME NEW i \in 1..(Len(p) - 1), p[i].tag = "VALUE"
                   PROVE  <<p[i].node, p[i].depth, OpenAround(work, 1) \cup {n}>> \in Sound(heap)
        OBVIOUS
      <4>1. PICK place : place = <<n, d, open>>
        OBVIOUS
      <4>2. place \in Sound(heap) /\ IsContainer(heap[place[1]]) /\ place[1] = n
        BY <2>1, <2>2, <2>3, <4>1
      <4>3. \A kid \in Kids(heap, n) : Below(place, kid) \in Sound(heap)
        BY <4>2, SoundSustained
      <4>4. p[i].node \in Kids(heap, n) /\ p[i].depth = d + 1
        <5>1. Kids(heap, n) = {o.kids[m] : m \in DOMAIN o.kids}
          BY <2>1 DEF Kids
        <5> QED  BY <3>3, <5>1
      <4>5. Below(place, p[i].node) = <<p[i].node, p[i].depth, OpenAround(work, 1) \cup {n}>>
        BY <3>5, <4>1, <4>4 DEF Below
      <4> QED  BY <4>3, <4>4, <4>5
    <3>7. StackSound(heap, Tail(work))
      BY <1>1, <2>2, TailSound
    <3>8. StackSound(heap, p \o Tail(work))
      BY <1>1, <2>2, <3>3, <3>4, <3>6, <3>7, PushSound
    <3> QED  BY <1>1, <2>2, <2>6, <3>1, <3>8
  <2> QED  BY <2>5, <2>6
<1>9. CASE PopUnsupported
  <2>1. /\ work # <<>> /\ verdict = "running" /\ work[1].tag = "VALUE"
        /\ heap[work[1].node].type = "other"
    BY <1>2, <1>9 DEF PopUnsupported, Popping
  <2> QED  BY <1>4, <2>1 DEF Fits
<1>10. CASE Return
  BY <1>10 DEF Return, LeftToFp2
<1> QED  BY <1>5, <1>6, <1>7, <1>8, <1>9, <1>10 DEF Fp2Next

\* The encoder and the profile before it keep their invariant, whichever of
\* the two is entered.
THEOREM ProfileInvariance == ProfileSpec => []ProfileInv
<1>1. ProfileInit \/ DirectInit => ProfileInv
  <2> SUFFICES ASSUME ProfileInit \/ DirectInit PROVE ProfileInv
    OBVIOUS
  <2>1. Fp2Init
    BY DEF ProfileInit, DirectInit
  <2>2. TypeOK /\ OpenContainersArePath
    BY <2>1, InitInv
  <2>3. CASE ProfileInit
    <3>1. /\ pwork = <<Value(root, 1)>> /\ stage = "prevalidate" /\ result = "none" /\ open_ids = {}
          /\ work = <<Value(root, 1)>> /\ open = {} /\ verdict = "running"
      BY <2>3 DEF ProfileInit, Fp2Init
    <3>2. pwork \in Seq(Entries)
      BY <2>2, <3>1 DEF TypeOK
    <3>3. /\ IsOpenPath(heap, root, pwork, {})
          /\ StackSound(heap, pwork) => <<root, 1, {}>> \in Sound(heap)
      BY <3>1, RootAlone
    <3> QED  BY <2>2, <3>1, <3>2, <3>3 DEF ProfileInv, WalkInv
  <2>4. CASE DirectInit
    BY <2>2, <2>4 DEF DirectInit, ProfileInv, WalkInv
  <2> QED  BY <2>3, <2>4
<1>2. ProfileInv /\ [ProfileNext]_profilestate => ProfileInv'
  <2> SUFFICES ASSUME ProfileInv, [ProfileNext]_profilestate PROVE ProfileInv'
    OBVIOUS
  <2>1. [Fp2Next]_fp2vars
    BY DEF ProfileNext, profilestate, PrevalidateClose, PrevalidateScalar, PrevalidateContainer,
           CallFp2, Fp2Step, Finish
  <2>2. (TypeOK /\ OpenContainersArePath)'
    BY <2>1, TypeStep, PathStep DEF ProfileInv
  <2>3. WalkInv'
    <3>1. CASE PrevalidateClose \/ PrevalidateScalar \/ PrevalidateContainer
      BY <3>1, PrevalidateStep
    <3>2. CASE CallFp2
      <4>1. /\ stage = "prevalidate" /\ pwork = <<>> /\ stage' = "fp2"
            /\ UNCHANGED <<fp2vars, pwork, open_ids, result>>
        BY <3>2 DEF CallFp2
      <4>2. StackSound(heap, pwork)
        BY <4>1 DEF StackSound
      <4>3. StackSound(heap, work) /\ verdict = "running" /\ pwork \in Seq(Entries)
        BY <4>1, <4>2, RootAlone DEF ProfileInv, WalkInv
      <4> QED  BY <4>1, <4>3 DEF WalkInv, LeftToFp2, fp2vars
    <3>3. CASE Fp2Step
      <4>1. CASE stage = "fp2"
        BY <3>3, <4>1, Fp2StepSound DEF Fp2Step
      <4>2. CASE stage = "direct"
        BY <3>3, <4>2 DEF Fp2Step, profilevars, ProfileInv, WalkInv
      <4> QED  BY <3>3, <4>1, <4>2 DEF Fp2Step
    <3>4. CASE Finish
      BY <3>4 DEF Finish, ProfileInv, WalkInv, fp2vars
    <3>5. CASE UNCHANGED profilestate
      BY <3>5 DEF profilestate, profilevars, fp2vars, ProfileInv, WalkInv
    <3> QED  BY <3>1, <3>2, <3>3, <3>4, <3>5 DEF ProfileNext
  <2> QED  BY <2>2, <2>3 DEF ProfileInv
<1> QED  BY <1>1, <1>2, PTL DEF ProfileSpec, profilestate

\* The promise of the docstring of _canonical_bytes, for every object graph
\* and nesting limit: what _prevalidate lets through, fp2 refuses only for a
\* non-finite number or a lone surrogate.
THEOREM ProfileLeavesTextAndNonFinite == ProfileSpec => []Fp2RefusesOnlyTextAndNonFinite
<1>1. ProfileInv => Fp2RefusesOnlyTextAndNonFinite
  BY DEF ProfileInv, WalkInv, LeftToFp2, Fp2RefusesOnlyTextAndNonFinite
<1> QED  BY <1>1, ProfileInvariance, PTL
=============================================================================
