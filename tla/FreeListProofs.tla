--------------------------- MODULE FreeListProofs ---------------------------
(***************************************************************************)
(* What the two updates of a free list do to its consistency, for any set  *)
(* of slots.                                                               *)
(***************************************************************************)
EXTENDS FreeList, TLAPS

\* Taking the first slot off the list and marking it keeps the list consistent.
LEMMA TakeOK ==
  ASSUME NEW Slots, NEW free, NEW used, FreeListOK(free, used, Slots), free # <<>>
  PROVE  /\ FreeListOK(Tail(free), used \cup {Head(free)}, Slots)
         /\ Head(free) \in Slots \ used
<1>. USE DEF FreeListOK
<1>1. Head(free) \in Slots /\ Head(free) = free[1] /\ Len(free) \in Nat /\ Len(free) >= 1
  OBVIOUS
<1>2. /\ Tail(free) \in Seq(Slots) /\ Len(Tail(free)) = Len(free) - 1
      /\ \A i \in 1 .. Len(Tail(free)) : Tail(free)[i] = free[i + 1]
  OBVIOUS
<1>3. \A i, j \in 1 .. Len(Tail(free)) : Tail(free)[i] = Tail(free)[j] => i = j
  BY <1>1, <1>2
<1>4. ASSUME NEW s \in Slots
      PROVE  s \in used \cup {Head(free)} \equiv ~(\E i \in 1 .. Len(Tail(free)) : Tail(free)[i] = s)
  <2>1. CASE s = Head(free)
    BY <1>1, <1>2, <2>1
  <2>2. CASE s # Head(free)
    <3>1. (\E i \in 1 .. Len(free) : free[i] = s) => \E i \in 1 .. Len(Tail(free)) : Tail(free)[i] = s
      <4>1. SUFFICES ASSUME NEW i \in 1 .. Len(free), free[i] = s
                     PROVE  \E k \in 1 .. Len(Tail(free)) : Tail(free)[k] = s
        OBVIOUS
      <4>2. i - 1 \in 1 .. Len(Tail(free)) /\ Tail(free)[i - 1] = s
        BY <1>1, <1>2, <2>2, <4>1
      <4>. QED
        BY <4>2
    <3>. QED
      BY <1>1, <1>2, <2>2, <3>1
  <2>. QED
    BY <2>1, <2>2
<1>5. Head(free) \notin used
  BY <1>1
<1>. QED
  BY <1>1, <1>2, <1>3, <1>4, <1>5

\* Marking a slot free and putting it in front keeps the list consistent.
LEMMA PutOK ==
  ASSUME NEW Slots, NEW free, NEW used, NEW s \in used, FreeListOK(free, used, Slots)
  PROVE  FreeListOK(PushFree(free, s), used \ {s}, Slots)
<1>. USE DEF FreeListOK, PushFree
<1>. DEFINE q == <<s>> \o free
<1>1. /\ q \in Seq(Slots) /\ Len(q) = Len(free) + 1 /\ Len(free) \in Nat
      /\ q[1] = s
      /\ \A i \in 2 .. Len(q) : q[i] = free[i - 1]
  OBVIOUS
<1>2. \A i \in 1 .. Len(free) : free[i] # s /\ q[i + 1] = free[i]
  BY <1>1
<1>. HIDE DEF q
<1>3. \A i, j \in 1 .. Len(q) : q[i] = q[j] => i = j
  <2>1. SUFFICES ASSUME NEW i \in 1 .. Len(q), NEW j \in 1 .. Len(q), q[i] = q[j] PROVE i = j
    OBVIOUS
  <2>2. CASE i = 1 \/ j = 1
    BY <1>1, <1>2, <2>1, <2>2
  <2>3. CASE i # 1 /\ j # 1
    <3>1. i - 1 \in 1 .. Len(free) /\ j - 1 \in 1 .. Len(free) /\ free[i - 1] = free[j - 1]
      BY <1>1, <2>1, <2>3
    <3>. QED
      BY <3>1
  <2>. QED
    BY <2>2, <2>3
<1>4. ASSUME NEW t \in Slots
      PROVE  t \in used \ {s} \equiv ~(\E i \in 1 .. Len(q) : q[i] = t)
  <2>1. CASE t = s
    BY <1>1, <2>1
  <2>2. CASE t # s
    <3>1. (\E i \in 1 .. Len(q) : q[i] = t) => \E k \in 1 .. Len(free) : free[k] = t
      <4>1. SUFFICES ASSUME NEW i \in 1 .. Len(q), q[i] = t
                     PROVE  \E k \in 1 .. Len(free) : free[k] = t
        OBVIOUS
      <4>2. i - 1 \in 1 .. Len(free) /\ free[i - 1] = t
        BY <1>1, <2>2, <4>1
      <4>. QED
        BY <4>2
    <3>2. (\E k \in 1 .. Len(free) : free[k] = t) => \E i \in 1 .. Len(q) : q[i] = t
      <4>1. SUFFICES ASSUME NEW k \in 1 .. Len(free), free[k] = t
                     PROVE  \E i \in 1 .. Len(q) : q[i] = t
        OBVIOUS
      <4>2. k + 1 \in 1 .. Len(q) /\ q[k + 1] = t
        BY <1>1, <1>2, <4>1
      <4>. QED
        BY <4>2
    <3>. QED
      BY <2>2, <3>1, <3>2
  <2>. QED
    BY <2>1, <2>2
<1>. QED
  BY <1>1, <1>3, <1>4 DEF q

=============================================================================
