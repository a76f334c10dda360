------------------------ MODULE BsdMitmServiceProofs ------------------------
(***************************************************************************)
(* The emulated sockets under every interleaving of the game's threads and *)
(* the worker, for every number of threads, descriptors, sockets and ports.*)
(* First what AllocatePort and ReturnPort do to a list of ports in use;    *)
(* then what each socket operation does to the sockets, which are many to  *)
(* a call; then the invariant, one lemma for each kind of step.            *)
(***************************************************************************)
EXTENDS BsdMitmService, SequenceTheorems, WellFoundedInduction, TLAPS

(***************************************************************************)
(* The list of ephemeral ports in use.                                     *)
(***************************************************************************)
\* A set of natural numbers that is not empty has a least element.
LEMMA LeastNumber ==
    ASSUME NEW T \in SUBSET Nat, T # {}
    PROVE  \E m \in T : \A k \in T : m <= k
<1>1. \E m \in T : \A k \in T : ~ (<<k, m>> \in OpToRel(<, Nat))
  BY NatLessThanWellFounded, WFMin
<1>2. PICK m \in T : \A k \in T : ~ (<<k, m>> \in OpToRel(<, Nat))
  BY <1>1
<1>3. \A k \in T : ~(k < m)
  BY <1>2 DEF OpToRel
<1> QED BY <1>3

\* The candidate port, while it stays below the modulus and when it wraps.
LEMMA PortAtIs ==
    ASSUME NEW i \in Nat \ {0}
    PROVE  /\ EphemeralBase + i - 1 < PortModulus => PortAt(i) = EphemeralBase + i - 1
           /\ EphemeralBase + i - 1 = PortModulus => PortAt(i) = 0
BY PortAssumption DEF PortAt

\* The lists the pool keeps.
PoolOK(list) == list \in Seq(EphemeralPorts) /\ Sorted(list)

\* The range is one of numbers, 0 being outside it.
LEMMA RangeType == /\ EphemeralBase \in Nat /\ EphemeralEnd \in Nat /\ PortModulus \in Nat
                   /\ 0 < EphemeralBase /\ EphemeralBase <= EphemeralEnd
                   /\ EphemeralEnd < PortModulus
BY PortAssumption

\* Every entry has room for those before it and for those behind it.
LEMMA EntriesSpread ==
    ASSUME NEW list, PoolOK(list), NEW i \in 1 .. Len(list)
    PROVE  /\ Len(list) \in Nat /\ i \in Nat /\ list[i] \in Nat
           /\ EphemeralBase + i - 1 <= list[i]
           /\ list[i] + (Len(list) - i) <= EphemeralEnd
<1> DEFINE n == Len(list)
<1>1. n \in Nat /\ \A k \in 1 .. n : list[k] \in EphemeralPorts
  BY DEF PoolOK
<1>2. \A k \in 1 .. n : list[k] \in Nat /\ EphemeralBase <= list[k] /\ list[k] <= EphemeralEnd
  BY <1>1, RangeType DEF EphemeralPorts
<1> HIDE DEF n
<1>3. 1 \in 1 .. n /\ n \in 1 .. n
  BY <1>1 DEF n
<1>4. \A k, j \in 1 .. n : k < j => list[k] + (j - k) <= list[j]
  BY DEF PoolOK, Sorted, n
<1>5. i \in 1 .. n
  BY DEF n
<1>6. EphemeralBase + i - 1 <= list[i]
  <2>1. CASE i = 1
    BY <1>2, <1>5, <2>1, RangeType
  <2>2. CASE i # 1
    <3>1. list[1] + (i - 1) <= list[i]
      BY <1>1, <1>3, <1>4, <1>5, <2>2
    <3> QED BY <1>1, <1>2, <1>3, <1>5, <3>1, RangeType
  <2> QED BY <2>1, <2>2
<1>7. list[i] + (n - i) <= EphemeralEnd
  <2>1. CASE i = n
    BY <1>1, <1>2, <1>5, <2>1, RangeType
  <2>2. CASE i # n
    <3>1. list[i] + (n - i) <= list[n]
      BY <1>1, <1>3, <1>4, <1>5, <2>2
    <3> QED BY <1>1, <1>2, <1>3, <1>5, <3>1, RangeType
  <2> QED BY <2>1, <2>2
<1> QED BY <1>1, <1>2, <1>5, <1>6, <1>7 DEF n

\* The candidate is EphemeralBase + i - 1 until the range is used up, and the
\* test for that is exact although the increment may wrap to 0.
LEMMA Candidate ==
    ASSUME NEW i \in Nat \ {0}, EphemeralBase + i - 1 <= EphemeralEnd + 1
    PROVE  /\ EphemeralBase + i - 1 <= EphemeralEnd => PortAt(i) = EphemeralBase + i - 1
           /\ Exhausted(PortAt(i)) <=> EphemeralBase + i - 1 = EphemeralEnd + 1
<1>1. CASE EphemeralBase + i - 1 <= EphemeralEnd
  BY <1>1, PortAtIs, RangeType DEF Exhausted, NoPort
<1>2. CASE EphemeralBase + i - 1 = EphemeralEnd + 1 /\ EphemeralEnd + 1 = PortModulus
  BY <1>2, PortAtIs, RangeType DEF Exhausted, NoPort
<1>3. CASE EphemeralBase + i - 1 = EphemeralEnd + 1 /\ EphemeralEnd + 1 < PortModulus
  BY <1>3, PortAtIs, RangeType DEF Exhausted, NoPort
<1> QED BY <1>1, <1>2, <1>3, RangeType

\* Where the pass ends, and what it has seen before.
LEMMA WhereItStops ==
    ASSUME NEW list, PoolOK(list)
    PROVE  LET f == FirstStop(list)
               n == Len(list)
           IN  /\ n \in Nat /\ f \in 1 .. n + 1
               /\ \A j \in 1 .. n : j < f => list[j] = EphemeralBase + j - 1
               /\ f <= n => /\ PortAt(f) = EphemeralBase + f - 1
                            /\ \/ list[f] > EphemeralBase + f - 1
                               \/ /\ list[f] = EphemeralBase + f - 1
                                  /\ EphemeralBase + f - 1 = EphemeralEnd
               /\ f = n + 1 => /\ EphemeralBase + n <= EphemeralEnd
                               /\ PortAt(f) = EphemeralBase + n
                               /\ ~Exhausted(PortAt(f))
<1> DEFINE f == FirstStop(list)
           n == Len(list)
<1>1. n \in Nat
  BY DEF PoolOK
<1>2. ASSUME NEW j \in 1 .. n
      PROVE  /\ list[j] \in Nat /\ j \in Nat \ {0} /\ EphemeralBase + j - 1 <= list[j]
             /\ list[j] <= EphemeralEnd
             /\ PortAt(j) = EphemeralBase + j - 1
             /\ Exhausted(PortAt(j + 1)) <=> EphemeralBase + j - 1 = EphemeralEnd
  <2>1. /\ list[j] \in Nat /\ j \in Nat \ {0} /\ EphemeralBase + j - 1 <= list[j]
        /\ list[j] <= EphemeralEnd
    BY <1>1, EntriesSpread, RangeType
  <2>2. PortAt(j) = EphemeralBase + j - 1
    BY <2>1, Candidate, RangeType
  <2>3. j + 1 \in Nat \ {0} /\ EphemeralBase + (j + 1) - 1 <= EphemeralEnd + 1
    BY <2>1, RangeType
  <2>4. Exhausted(PortAt(j + 1)) <=> EphemeralBase + (j + 1) - 1 = EphemeralEnd + 1
    BY <2>3, Candidate
  <2> QED BY <2>1, <2>2, <2>4, RangeType
<1>3. Stops(list) \subseteq 1 .. n
  BY DEF Stops
<1>4. \A j \in 1 .. n : j \in Stops(list) <=> \/ list[j] > EphemeralBase + j - 1
                                               \/ EphemeralBase + j - 1 = EphemeralEnd
  BY <1>2 DEF Stops
<1>5. CASE Stops(list) = {}
  <2>1. f = n + 1
    BY <1>5 DEF FirstStop
  <2>2. ASSUME NEW j \in 1 .. n
        PROVE  list[j] = EphemeralBase + j - 1 /\ EphemeralBase + j - 1 # EphemeralEnd
    <3>1. list[j] \in Nat /\ j \in Nat /\ EphemeralBase + j - 1 <= list[j]
      BY <1>2
    <3>2. ~(list[j] > EphemeralBase + j - 1) /\ EphemeralBase + j - 1 # EphemeralEnd
      BY <1>4, <1>5
    <3> QED BY <3>1, <3>2, RangeType
  <2>3. EphemeralBase + n <= EphemeralEnd
    <3>1. CASE n = 0
      BY <3>1, RangeType
    <3>2. CASE n # 0
      <4>1. n \in 1 .. n
        BY <1>1, <3>2
      <4> QED BY <1>1, <1>2, <2>2, <4>1, RangeType
    <3> QED BY <3>1, <3>2
  <2>4. PortAt(n + 1) = EphemeralBase + n /\ ~Exhausted(PortAt(n + 1))
    <3>1. n + 1 \in Nat \ {0} /\ EphemeralBase + (n + 1) - 1 = EphemeralBase + n
      BY <1>1, RangeType
    <3> QED BY <1>1, <2>3, <3>1, Candidate, RangeType
  <2> QED BY <1>1, <2>1, <2>2, <2>3, <2>4
<1>6. CASE Stops(list) # {}
  <2>1. f \in Stops(list) /\ \A j \in Stops(list) : f <= j
    <3>1. \E m \in Stops(list) : \A k \in Stops(list) : m <= k
      BY <1>1, <1>3, <1>6, LeastNumber
    <3> QED BY <1>6, <3>1 DEF FirstStop
  <2>2. f \in 1 .. n
    BY <1>3, <2>1
  <2>3. \A j \in 1 .. n : j < f => list[j] = EphemeralBase + j - 1
    <3> SUFFICES ASSUME NEW j \in 1 .. n, j < f PROVE list[j] = EphemeralBase + j - 1
      OBVIOUS
    <3>1. j \notin Stops(list)
      BY <1>1, <2>1, <2>2
    <3>2. list[j] \in Nat /\ j \in Nat /\ EphemeralBase + j - 1 <= list[j]
      BY <1>2
    <3>3. ~(list[j] > EphemeralBase + j - 1)
      BY <1>4, <3>1
    <3> QED BY <3>2, <3>3, RangeType
  <2>4. \/ list[f] > EphemeralBase + f - 1
        \/ list[f] = EphemeralBase + f - 1 /\ EphemeralBase + f - 1 = EphemeralEnd
    <3>1. list[f] \in Nat /\ f \in Nat /\ EphemeralBase + f - 1 <= list[f] /\ list[f] <= EphemeralEnd
      BY <1>2, <2>2
    <3>2. list[f] > EphemeralBase + f - 1 \/ EphemeralBase + f - 1 = EphemeralEnd
      BY <1>4, <2>1, <2>2
    <3> HIDE DEF f
    <3> QED BY <3>1, <3>2, RangeType
  <2> HIDE DEF f
  <2>5. PortAt(f) = EphemeralBase + f - 1
    BY <1>2, <2>2
  <2>6. f \in 1 .. n + 1 /\ f <= n /\ f # n + 1
    BY <1>1, <2>2
  <2> QED BY <1>1, <2>3, <2>4, <2>5, <2>6 DEF f
<1> QED BY <1>5, <1>6
\* A port the pass ends with is the one above the entries before it, and every
\* entry from there on is larger.
LEMMA FreeCandidate ==
    ASSUME NEW list, PoolOK(list), AllocatePort(list) # NoPort
    PROVE  LET f == FirstStop(list)
               n == Len(list)
           IN  /\ n \in Nat /\ f \in 1 .. n + 1
               /\ AllocatePort(list) = EphemeralBase + f - 1
               /\ PortAt(f) = EphemeralBase + f - 1
               /\ EphemeralBase + f - 1 <= EphemeralEnd
               /\ \A j \in 1 .. n : /\ list[j] \in Nat
                                    /\ j < f => list[j] = EphemeralBase + j - 1
                                    /\ j >= f => list[j] > EphemeralBase + f - 1
<1> DEFINE f == FirstStop(list)
           n == Len(list)
<1>1. /\ n \in Nat /\ f \in 1 .. n + 1
      /\ \A j \in 1 .. n : j < f => list[j] = EphemeralBase + j - 1
      /\ f <= n => /\ PortAt(f) = EphemeralBase + f - 1
                   /\ \/ list[f] > EphemeralBase + f - 1
                      \/ /\ list[f] = EphemeralBase + f - 1
                         /\ EphemeralBase + f - 1 = EphemeralEnd
      /\ f = n + 1 => /\ EphemeralBase + n <= EphemeralEnd
                      /\ PortAt(f) = EphemeralBase + n
                      /\ ~Exhausted(PortAt(f))
  BY WhereItStops
<1>2. \A j \in 1 .. n : /\ list[j] \in Nat /\ EphemeralBase + j - 1 <= list[j]
                        /\ list[j] <= EphemeralEnd
  <2> SUFFICES ASSUME NEW j \in 1 .. n
               PROVE  /\ list[j] \in Nat /\ EphemeralBase + j - 1 <= list[j]
                      /\ list[j] <= EphemeralEnd
    OBVIOUS
  <2>1. /\ n \in Nat /\ j \in Nat /\ list[j] \in Nat /\ EphemeralBase + j - 1 <= list[j]
        /\ list[j] + (n - j) <= EphemeralEnd
    BY EntriesSpread
  <2> QED BY <2>1, RangeType
<1>3. AllocatePort(list) = IF f <= n THEN IF list[f] > PortAt(f) THEN PortAt(f) ELSE NoPort
                           ELSE IF Exhausted(PortAt(f)) THEN NoPort ELSE PortAt(f)
  BY DEF AllocatePort
<1> HIDE DEF f, n
<1>4. f \in Nat /\ n \in Nat /\ 1 <= f /\ f <= n + 1
  BY <1>1
<1>5. CASE f <= n
  <2>1. f \in 1 .. n /\ f # n + 1
    BY <1>4, <1>5
  <2>2. PortAt(f) = EphemeralBase + f - 1 /\ list[f] \in Nat /\ list[f] <= EphemeralEnd
    BY <1>1, <1>2, <1>5, <2>1
  <2>3. list[f] > EphemeralBase + f - 1 /\ AllocatePort(list) = EphemeralBase + f - 1
    BY <1>3, <1>5, <2>2
  <2>4. EphemeralBase + f - 1 <= EphemeralEnd
    BY <1>4, <2>2, <2>3, RangeType
  <2>5. ASSUME NEW j \in 1 .. n, j >= f
        PROVE  list[j] > EphemeralBase + f - 1
    <3>1. CASE j = f
      BY <2>3, <3>1
    <3>2. CASE j # f
      <4>1. list[j] \in Nat /\ EphemeralBase + j - 1 <= list[j]
        BY <1>2
      <4> QED BY <1>4, <2>5, <3>2, <4>1, RangeType
    <3> QED BY <3>1, <3>2
  <2> QED BY <1>1, <1>2, <2>2, <2>3, <2>4, <2>5 DEF f, n
<1>6. CASE f = n + 1
  <2>1. /\ EphemeralBase + f - 1 <= EphemeralEnd
        /\ PortAt(f) = EphemeralBase + f - 1
        /\ ~Exhausted(PortAt(f)) /\ ~(f <= n)
    BY <1>1, <1>4, <1>6, RangeType
  <2>2. AllocatePort(list) = EphemeralBase + f - 1
    BY <1>3, <2>1
  <2>3. \A j \in 1 .. n : ~(j >= f)
    BY <1>4, <1>6
  <2> QED BY <1>1, <1>2, <2>1, <2>2, <2>3 DEF f, n
<1> QED BY <1>4, <1>5, <1>6

\* AllocatePort returns a port of the range that is not in use.
THEOREM AllocatesFreePort ==
    ASSUME NEW list, PoolOK(list), AllocatePort(list) # NoPort
    PROVE  AllocatePort(list) \in EphemeralPorts /\ AllocatePort(list) \notin InUse(list)
<1> DEFINE f == FirstStop(list)
           n == Len(list)
<1>1. /\ n \in Nat /\ f \in 1 .. n + 1
      /\ AllocatePort(list) = EphemeralBase + f - 1
      /\ EphemeralBase + f - 1 <= EphemeralEnd
      /\ \A j \in 1 .. n : /\ list[j] \in Nat
                           /\ j < f => list[j] = EphemeralBase + j - 1
                           /\ j >= f => list[j] > EphemeralBase + f - 1
  BY FreeCandidate
<1> HIDE DEF f, n
<1>2. f \in Nat /\ 1 <= f
  BY <1>1
<1>3. AllocatePort(list) \in EphemeralPorts
  BY <1>1, <1>2, RangeType DEF EphemeralPorts
<1>4. ASSUME NEW j \in 1 .. n PROVE list[j] # AllocatePort(list)
  <2>1. j \in Nat /\ list[j] \in Nat
    BY <1>1
  <2>2. CASE j < f
    BY <1>1, <1>2, <2>1, <2>2, RangeType
  <2>3. CASE j >= f
    BY <1>1, <1>2, <2>1, <2>3, RangeType
  <2> QED BY <1>2, <2>1, <2>2, <2>3
<1> QED BY <1>3, <1>4 DEF InUse, n

\* AllocatePort returns no port only when every port of the range is in use.
THEOREM NoPortMeansFull ==
    ASSUME NEW list, PoolOK(list), AllocatePort(list) = NoPort
    PROVE  InUse(list) = EphemeralPorts /\ AfterAllocate(list) = list
<1> DEFINE f == FirstStop(list)
           n == Len(list)
<1>1. /\ n \in Nat /\ f \in 1 .. n + 1
      /\ \A j \in 1 .. n : j < f => list[j] = EphemeralBase + j - 1
      /\ f <= n => /\ PortAt(f) = EphemeralBase + f - 1
                   /\ \/ list[f] > EphemeralBase + f - 1
                      \/ /\ list[f] = EphemeralBase + f - 1
                         /\ EphemeralBase + f - 1 = EphemeralEnd
      /\ f = n + 1 => /\ EphemeralBase + n <= EphemeralEnd
                      /\ PortAt(f) = EphemeralBase + n
                      /\ ~Exhausted(PortAt(f))
  BY WhereItStops
<1>2. AllocatePort(list) = IF f <= n THEN IF list[f] > PortAt(f) THEN PortAt(f) ELSE NoPort
                           ELSE IF Exhausted(PortAt(f)) THEN NoPort ELSE PortAt(f)
  BY DEF AllocatePort
<1> HIDE DEF f, n
<1>3. f \in Nat /\ n \in Nat /\ 1 <= f /\ f <= n + 1
  BY <1>1
<1>4. f <= n /\ list[f] = EphemeralBase + f - 1 /\ EphemeralBase + f - 1 = EphemeralEnd
  <2>1. CASE f = n + 1
    <3>1. ~(f <= n) /\ ~Exhausted(PortAt(f))
      BY <1>1, <1>3, <2>1
    <3>2. AllocatePort(list) = PortAt(f) /\ PortAt(f) # NoPort
      BY <1>2, <3>1 DEF Exhausted
    <3> QED BY <3>2
  <2>2. CASE f <= n
    <3>1. ~(list[f] > PortAt(f)) \/ PortAt(f) = NoPort
      BY <1>2, <2>2
    <3>2. PortAt(f) = EphemeralBase + f - 1 /\ PortAt(f) # NoPort
      BY <1>1, <1>3, <2>2, RangeType DEF NoPort
    <3> QED BY <1>1, <2>2, <3>1, <3>2
  <2> QED BY <1>3, <2>1, <2>2
<1>5. ASSUME NEW q \in EphemeralPorts PROVE q \in InUse(list)
  <2> DEFINE k == q - EphemeralBase + 1
  <2>1. q \in Nat /\ EphemeralBase <= q /\ q <= EphemeralEnd
    BY RangeType DEF EphemeralPorts
  <2>2. k \in Nat /\ 1 <= k /\ k <= f /\ k \in 1 .. n /\ EphemeralBase + k - 1 = q
    BY <1>3, <1>4, <2>1, RangeType
  <2> HIDE DEF k
  <2>3. list[k] = EphemeralBase + k - 1
    BY <1>1, <1>3, <1>4, <2>2
  <2> QED BY <2>2, <2>3 DEF InUse, n
<1>6. InUse(list) \subseteq EphemeralPorts
  BY DEF InUse, PoolOK
<1>7. AfterAllocate(list) = list
  BY DEF AfterAllocate
<1> QED BY <1>5, <1>6, <1>7

\* AllocatePort leaves a sorted list whose ports are those it had and the new one.
THEOREM AllocateKeepsSorted ==
    ASSUME NEW list, PoolOK(list), AllocatePort(list) # NoPort
    PROVE  /\ PoolOK(AfterAllocate(list))
           /\ InUse(AfterAllocate(list)) = InUse(list) \cup {AllocatePort(list)}
<1> DEFINE f == FirstStop(list)
           n == Len(list)
           after == AfterAllocate(list)
           port == AllocatePort(list)
<1>1. /\ n \in Nat /\ f \in 1 .. n + 1
      /\ port = EphemeralBase + f - 1
      /\ PortAt(f) = port
      /\ \A j \in 1 .. n : /\ list[j] \in Nat
                           /\ j < f => list[j] = EphemeralBase + j - 1
                           /\ j >= f => list[j] > EphemeralBase + f - 1
  BY FreeCandidate
<1>2. after = [j \in 1 .. n + 1 |-> IF j < f THEN list[j]
                                    ELSE IF j = f THEN PortAt(f) ELSE list[j - 1]]
  BY DEF AfterAllocate
<1>3. port \in EphemeralPorts
  BY AllocatesFreePort
<1>4. \A j \in 1 .. n : list[j] \in EphemeralPorts
  BY DEF PoolOK
<1>5. \A i, j \in 1 .. n : i < j => list[i] + (j - i) <= list[j]
  BY DEF PoolOK, Sorted
<1>6. f \in Nat /\ 1 <= f /\ f <= n + 1 /\ n + 1 \in Nat
  BY <1>1
<1>10. InUse(list) = {list[i] : i \in 1 .. n}
  BY DEF InUse
<1> HIDE DEF f, n, after, port
<1>7. ASSUME NEW j \in 1 .. n + 1
      PROVE  /\ j \in Nat /\ after[j] = IF j < f THEN list[j] ELSE IF j = f THEN port ELSE list[j - 1]
             /\ after[j] \in EphemeralPorts
             /\ j < f => j \in 1 .. n
             /\ j > f => j - 1 \in 1 .. n /\ j - 1 >= f
  <2>1. after[j] = IF j < f THEN list[j] ELSE IF j = f THEN port ELSE list[j - 1]
    BY <1>1, <1>2
  <2>2. j \in Nat /\ (j < f => j \in 1 .. n) /\ (j > f => j - 1 \in 1 .. n /\ j - 1 >= f)
    BY <1>1, <1>6
  <2>3. after[j] \in EphemeralPorts
    BY <1>3, <1>4, <1>6, <2>1, <2>2
  <2> QED BY <2>1, <2>2, <2>3
<1>8. after \in Seq(EphemeralPorts) /\ Len(after) = n + 1
  <2>1. after \in [1 .. n + 1 -> EphemeralPorts]
    BY <1>2, <1>7
  <2> QED BY <1>6, <2>1
<1>9. ASSUME NEW i \in 1 .. n + 1, NEW j \in 1 .. n + 1, i < j
      PROVE  after[i] + (j - i) <= after[j]
  <2>1. i \in Nat /\ j \in Nat
    OBVIOUS
  <2>2. CASE j < f
    <3>1. after[i] = list[i] /\ after[j] = list[j] /\ i \in 1 .. n /\ j \in 1 .. n
      BY <1>6, <1>7, <1>9, <2>1, <2>2
    <3> QED BY <1>5, <1>9, <3>1
  <2>3. CASE j = f
    <3>1. after[i] = list[i] /\ i \in 1 .. n /\ after[j] = port
      BY <1>6, <1>7, <1>9, <2>1, <2>3
    <3>2. list[i] = EphemeralBase + i - 1
      BY <1>1, <1>9, <2>3, <3>1
    <3> QED BY <1>1, <1>6, <2>1, <2>3, <3>1, <3>2, RangeType
  <2>4. CASE j > f
    <3>1. after[j] = list[j - 1] /\ j - 1 \in 1 .. n /\ j - 1 >= f /\ list[j - 1] \in Nat
      BY <1>1, <1>6, <1>7, <2>1, <2>4
    <3>2. CASE i > f
      <4>1. after[i] = list[i - 1] /\ i - 1 \in 1 .. n /\ list[i - 1] \in Nat
        BY <1>1, <1>6, <1>7, <2>1, <3>2
      <4>2. list[i - 1] + ((j - 1) - (i - 1)) <= list[j - 1]
        BY <1>5, <1>9, <2>1, <3>1, <4>1
      <4> QED BY <2>1, <3>1, <4>1, <4>2
    <3>3. CASE i = f
      <4>1. after[i] = port /\ f \in 1 .. n
        BY <1>1, <1>6, <1>7, <2>1, <2>4, <3>1, <3>3
      <4>2. list[f] > port /\ list[f] \in Nat
        BY <1>1, <1>6, <4>1
      <4>3. list[f] + ((j - 1) - f) <= list[j - 1]
        <5>1. CASE j - 1 = f
          BY <1>6, <2>1, <4>2, <5>1
        <5>2. CASE j - 1 # f
          BY <1>5, <1>6, <2>1, <3>1, <4>1, <5>2
        <5> QED BY <5>1, <5>2
      <4> QED BY <1>1, <1>6, <2>1, <3>1, <3>3, <4>1, <4>2, <4>3, RangeType
    <3>4. CASE i < f
      <4>1. after[i] = list[i] /\ i \in 1 .. n /\ list[i] \in Nat
        BY <1>1, <1>6, <1>7, <2>1, <3>4
      <4>2. list[i] = EphemeralBase + i - 1
        BY <1>1, <3>4, <4>1
      <4>3. EphemeralBase + (j - 1) - 1 <= list[j - 1]
        BY <3>1, EntriesSpread DEF n
      <4>4. list[j - 1] > EphemeralBase + f - 1
        BY <1>1, <3>1
      <4>5. EphemeralBase + j - 1 <= list[j - 1]
        <5>1. CASE j - 1 = f
          BY <1>6, <2>1, <3>1, <4>4, <5>1, RangeType
        <5>2. CASE j - 1 # f
          <6>1. f \in 1 .. n /\ list[f] \in Nat /\ list[f] > EphemeralBase + f - 1
            BY <1>1, <1>6, <2>1, <3>1
          <6>2. list[f] + ((j - 1) - f) <= list[j - 1]
            BY <1>5, <1>6, <2>1, <3>1, <5>2, <6>1
          <6> QED BY <1>6, <2>1, <3>1, <6>1, <6>2, RangeType
        <5> QED BY <5>1, <5>2
      <4> QED BY <2>1, <3>1, <4>1, <4>2, <4>5, RangeType
    <3> QED BY <1>6, <2>1, <3>2, <3>3, <3>4
  <2> QED BY <1>6, <2>1, <2>2, <2>3, <2>4
<1>11. InUse(after) = InUse(list) \cup {port}
  <2>1. InUse(after) = {after[j] : j \in 1 .. n + 1}
    BY <1>8 DEF InUse
  <2>2. ASSUME NEW j \in 1 .. n + 1 PROVE after[j] \in InUse(list) \cup {port}
    BY <1>6, <1>7, <1>10
  <2>3. port \in InUse(after)
    <3>1. f \in 1 .. n + 1 /\ after[f] = port
      BY <1>6, <1>7
    <3> QED BY <2>1, <3>1
  <2>4. ASSUME NEW j \in 1 .. n PROVE list[j] \in InUse(after)
    <3>1. CASE j < f
      <4>1. j \in 1 .. n + 1 /\ after[j] = list[j]
        BY <1>1, <1>7, <3>1
      <4> QED BY <2>1, <4>1
    <3>2. CASE j >= f
      <4>1. j + 1 \in 1 .. n + 1 /\ (j + 1) - 1 = j /\ ~(j + 1 < f) /\ j + 1 # f
        BY <1>1, <1>6, <3>2
      <4>2. after[j + 1] = list[j]
        BY <1>7, <4>1
      <4> QED BY <2>1, <4>1, <4>2
    <3> QED BY <1>6, <3>1, <3>2
  <2> QED BY <1>10, <2>1, <2>2, <2>3, <2>4
<1>12. PoolOK(after)
  BY <1>8, <1>9 DEF PoolOK, Sorted
<1> QED BY <1>11, <1>12 DEF after, port

\* ReturnPort leaves a sorted list whose ports are those it had except the one
\* given back; giving back a port that is not in use changes nothing.
THEOREM ReturnKeepsSorted ==
    ASSUME NEW list, PoolOK(list), NEW port
    PROVE  /\ PoolOK(ReturnPort(list, port))
           /\ InUse(ReturnPort(list, port)) = InUse(list) \ {port}
<1> DEFINE n == Len(list)
           At == {i \in 1 .. n : list[i] = port}
           k == CHOOSE i \in At : \A j \in At : i <= j
           after == ReturnPort(list, port)
<1>1. n \in Nat /\ \A j \in 1 .. n : list[j] \in EphemeralPorts /\ list[j] \in Nat
  BY RangeType DEF PoolOK, EphemeralPorts
<1>2. \A i, j \in 1 .. n : i < j => list[i] + (j - i) <= list[j]
  BY DEF PoolOK, Sorted
<1>3. after = IF At = {} THEN list
              ELSE [j \in 1 .. n - 1 |-> IF j < k THEN list[j] ELSE list[j + 1]]
  BY DEF ReturnPort
<1>4. InUse(list) = {list[j] : j \in 1 .. n}
  BY DEF InUse
<1>5. CASE At = {}
  <2>1. after = list
    BY <1>3, <1>5
  <2>2. port \notin InUse(list)
    BY <1>4, <1>5
  <2> QED BY <2>1, <2>2
<1>6. CASE At # {}
  <2>1. k \in At
    <3>1. \E m \in At : \A j \in At : m <= j
      <4>1. At \in SUBSET Nat
        BY <1>1
      <4> HIDE DEF At
      <4> QED BY <1>6, <4>1, LeastNumber
    <3> HIDE DEF At
    <3> QED BY <3>1
  <2>2. k \in 1 .. n /\ list[k] = port
    BY <2>1
  <2>3. after = [j \in 1 .. n - 1 |-> IF j < k THEN list[j] ELSE list[j + 1]]
    BY <1>3, <1>6
  <2> HIDE DEF k, n, after, At
  <2>4. n - 1 \in Nat /\ k \in Nat /\ k <= n /\ 1 <= k
    BY <1>1, <2>2
  <2> DEFINE From(j) == IF j < k THEN j ELSE j + 1
  <2>5. ASSUME NEW j \in 1 .. n - 1
        PROVE  /\ From(j) \in 1 .. n /\ From(j) \in Nat /\ From(j) # k
               /\ after[j] = list[From(j)]
    BY <1>1, <2>3, <2>4
  <2>6. ASSUME NEW i \in 1 .. n - 1, NEW j \in 1 .. n - 1, i < j
        PROVE  From(i) < From(j) /\ j - i <= From(j) - From(i)
    BY <1>1, <2>4, <2>6
  <2>7. ASSUME NEW j \in 1 .. n, j # k
        PROVE  \E i \in 1 .. n - 1 : From(i) = j
    <3>1. CASE j < k
      <4>1. j \in 1 .. n - 1 /\ From(j) = j
        BY <1>1, <2>4, <3>1
      <4> QED BY <4>1
    <3>2. CASE j > k
      <4>1. j - 1 \in 1 .. n - 1 /\ From(j - 1) = j
        BY <1>1, <2>4, <3>2
      <4> QED BY <4>1
    <3> QED BY <1>1, <2>4, <2>7, <3>1, <3>2
  <2> HIDE DEF From
  <2>8. after \in Seq(EphemeralPorts) /\ Len(after) = n - 1
    <3>1. after \in [1 .. n - 1 -> EphemeralPorts]
      BY <1>1, <2>3, <2>5
    <3> QED BY <2>4, <3>1
  <2>9. ASSUME NEW i \in 1 .. n - 1, NEW j \in 1 .. n - 1, i < j
        PROVE  after[i] + (j - i) <= after[j]
    <3>1. /\ From(i) \in 1 .. n /\ From(j) \in 1 .. n
          /\ after[i] = list[From(i)] /\ after[j] = list[From(j)]
      BY <2>5
    <3>2. From(i) < From(j) /\ j - i <= From(j) - From(i)
      BY <2>6, <2>9
    <3>3. after[i] + (From(j) - From(i)) <= after[j]
      BY <1>2, <3>1, <3>2
    <3>4. after[i] \in Nat /\ after[j] \in Nat /\ From(i) \in Nat /\ From(j) \in Nat
      BY <1>1, <2>5, <3>1
    <3> QED BY <2>4, <3>2, <3>3, <3>4
  <2>10. PoolOK(after)
    BY <2>8, <2>9 DEF PoolOK, Sorted
  <2>11. ASSUME NEW j \in 1 .. n, j # k
         PROVE  list[j] # port
    <3>1. CASE j < k
      <4>1. list[j] + (k - j) <= list[k] /\ list[j] \in Nat /\ j \in Nat
        BY <1>1, <1>2, <2>2, <3>1
      <4> QED BY <2>2, <2>4, <3>1, <4>1
    <3>2. CASE j > k
      <4>1. list[k] + (j - k) <= list[j] /\ list[k] \in Nat /\ j \in Nat
        BY <1>1, <1>2, <2>2, <3>2
      <4>2. list[j] \in Nat
        BY <1>1
      <4> QED BY <2>2, <2>4, <3>2, <4>1, <4>2
    <3> QED BY <1>1, <2>4, <2>11, <3>1, <3>2
  <2>12. InUse(after) = InUse(list) \ {port}
    <3>1. InUse(after) = {after[j] : j \in 1 .. n - 1}
      BY <2>8 DEF InUse
    <3>2. ASSUME NEW j \in 1 .. n - 1 PROVE after[j] \in InUse(list) \ {port}
      <4>1. From(j) \in 1 .. n /\ From(j) # k /\ after[j] = list[From(j)]
        BY <2>5
      <4> QED BY <1>4, <2>11, <4>1
    <3>3. ASSUME NEW j \in 1 .. n, list[j] # port PROVE list[j] \in InUse(after)
      <4>1. j # k
        BY <2>2, <3>3
      <4>2. PICK i \in 1 .. n - 1 : From(i) = j
        BY <2>7, <4>1
      <4> QED BY <2>5, <3>1, <4>2
    <3> QED BY <1>4, <3>1, <3>2, <3>3
  <2> QED BY <2>10, <2>12 DEF after
<1> QED BY <1>5, <1>6

(***************************************************************************)
(* The inductive invariant.  It is stated of a network n, a table e and    *)
(* calls c, since a call applies several socket operations one after the   *)
(* other.                                                                  *)
(***************************************************************************)
PortValues == EphemeralPorts \cup ExplicitPorts \cup {NoPort}

SocketStates ==
    [life : {"unused", "open", "closed", "deleted"}, proto : Protocols \cup {NoProtocol},
     bound : BOOLEAN, port : PortValues, listening : BOOLEAN, connecting : BOOLEAN,
     connected : BOOLEAN, blocking : BOOLEAN, broadcast : BOOLEAN,
     readShutdown : BOOLEAN, acceptEvent : BOOLEAN, connectEvent : BOOLEAN,
     receiveEvent : BOOLEAN,
     requests : Seq([dest : {"local", "broadcast"}, port : PortValues]),
     queue : Seq(Int), children : SUBSET Sockets]

NetStates == [sock : [Sockets -> SocketStates], registered : [Sockets -> 0 .. 2],
              ports : [Protocols -> Seq(EphemeralPorts)]]

CallStates ==
    {Returned} \cup [op : {"sendto", "select", "connect", "receive", "accept",
                           "acceptLock", "acceptRegister"},
                     fd : Fds, s : Sockets, peek : BOOLEAN]

IsOpen(n, s) == n.sock[s].life = "open"

\* Each list of ports is one that EphemeralPortPool keeps.
PortsOK(n) == \A proto \in Protocols : PoolOK(n.ports[proto])

\* Ports that come from the pools only.
PoolPorts == EphemeralPorts \ ExplicitPorts

\* Socket s has such a port of its protocol's pool.
HasPort(n, s) == /\ IsOpen(n, s) /\ n.sock[s].proto \in Protocols
                 /\ n.sock[s].port \in PoolPorts

\* What EphemeralPortsUnique says, of the sockets in S.
UniqueIn(n, S) ==
    \A s \in S : HasPort(n, s) =>
       /\ n.sock[s].port \in InUse(n.ports[n.sock[s].proto])
       /\ \A r \in S \ {s} : IsOpen(n, r) /\ n.sock[r].proto = n.sock[s].proto =>
                                n.sock[r].port # n.sock[s].port

\* The proxy and its worker know the open sockets.
Routed(n) ==
    /\ proxy = "up" => \A s \in Sockets : n.registered[s] > 0 <=> IsOpen(n, s)
    /\ worker \in [pkt : Packets \cup {NoPacket}, todo : [Sockets -> 0 .. 2]]
    /\ worker.pkt \in Packets \/ worker = WorkerIdle
    /\ \A s \in Sockets : worker.todo[s] > 0 => IsOpen(n, s)

\* The sockets of the descriptors are open, and different; accepted sockets are
\* none of them.
TableOK(n, e) ==
    /\ e \in [Fds -> Entries]
    /\ \A fd \in Fds : e[fd].vsock # NoSocket => IsOpen(n, e[fd].vsock)
    /\ \A fd, gd \in Fds : e[fd].vsock = e[gd].vsock /\ e[fd].vsock # NoSocket => fd = gd
    /\ \A s \in Sockets : \A c \in n.sock[s].children :
          n.sock[c].life # "unused" /\ \A fd \in Fds : e[fd].vsock # c

\* What the waiting threads rely on.
CallsOK(n, c) ==
    /\ c \in [Threads -> CallStates]
    /\ \A t \in Threads : c[t].op \in {"connect", "receive"} => IsOpen(n, c[t].s)

RequestsOK(n, c) ==
    \A s \in Sockets :
       IsOpen(n, s) /\ n.sock[s].requests # <<>> =>
          \/ n.sock[s].acceptEvent
          \/ \E t \in Threads : c[t].op = "acceptLock" /\ c[t].s = s

NetInv(n, e, c) ==
    /\ n \in NetStates /\ PortsOK(n) /\ UniqueIn(n, Sockets)
    /\ Routed(n) /\ TableOK(n, e) /\ CallsOK(n, c) /\ RequestsOK(n, c)

(***************************************************************************)
(* Operations on one open socket.                                          *)
(***************************************************************************)
\* m is n with another state of s, which lives and belongs as before.
Local(n, m, s) ==
    /\ m \in NetStates /\ m.registered = n.registered
    /\ \A r \in Sockets : r # s => m.sock[r] = n.sock[r]
    /\ m.sock[s].life = n.sock[s].life /\ m.sock[s].proto = n.sock[s].proto
    /\ m.sock[s].children = n.sock[s].children

SameRequests(n, m, s) == /\ m.sock[s].requests = n.sock[s].requests
                         /\ m.sock[s].acceptEvent = n.sock[s].acceptEvent
SamePort(n, m, s) == m.sock[s].port = n.sock[s].port /\ m.ports = n.ports

\* An operation that concerns neither ports nor requests.
Quiet(n, m, s) == Local(n, m, s) /\ SameRequests(n, m, s) /\ SamePort(n, m, s)

\* One socket gets another state.
LEMMA ReplaceSocket ==
    ASSUME NEW n \in NetStates, NEW s \in Sockets, NEW x \in SocketStates,
           x.life = n.sock[s].life, x.proto = n.sock[s].proto,
           x.children = n.sock[s].children
    PROVE  LET m == [n EXCEPT !.sock[s] = x]
           IN  Local(n, m, s) /\ m.sock[s] = x /\ m.ports = n.ports
BY DEF NetStates, Local

\* The same, when it concerns neither port nor requests.
LEMMA QuietReplace ==
    ASSUME NEW n \in NetStates, NEW s \in Sockets, NEW x \in SocketStates,
           x.life = n.sock[s].life, x.proto = n.sock[s].proto,
           x.children = n.sock[s].children, x.port = n.sock[s].port,
           x.requests = n.sock[s].requests, x.acceptEvent = n.sock[s].acceptEvent
    PROVE  Quiet(n, [n EXCEPT !.sock[s] = x], s)
BY ReplaceSocket DEF Quiet, SameRequests, SamePort

\* Two such operations, one after the other.
LEMMA LocalTrans ==
    ASSUME NEW n, NEW m, NEW k, NEW s, Local(n, m, s), Local(m, k, s)
    PROVE  /\ Local(n, k, s)
           /\ SameRequests(n, m, s) /\ SameRequests(m, k, s) => SameRequests(n, k, s)
           /\ SamePort(n, m, s) /\ SamePort(m, k, s) => SamePort(n, k, s)
BY DEF Local, SameRequests, SamePort

\* An operation that does nothing.
LEMMA QuietRefl == ASSUME NEW n \in NetStates, NEW s PROVE Quiet(n, n, s)
BY DEF Quiet, Local, SameRequests, SamePort

\* Each socket has a state.
LEMMA SocketState == ASSUME NEW n \in NetStates, NEW s \in Sockets
                     PROVE  n.sock[s] \in SocketStates
BY DEF NetStates

\* The fields that only the socket itself looks at.
LEMMA FlagsQuiet ==
    ASSUME NEW n \in NetStates, NEW s \in Sockets, NEW b \in BOOLEAN
    PROVE  /\ Quiet(n, [n EXCEPT !.sock[s].bound = b], s)
           /\ Quiet(n, [n EXCEPT !.sock[s].blocking = b], s)
           /\ Quiet(n, [n EXCEPT !.sock[s].broadcast = b], s)
           /\ Quiet(n, [n EXCEPT !.sock[s].listening = b], s)
           /\ Quiet(n, [n EXCEPT !.sock[s].connecting = b], s)
           /\ Quiet(n, [n EXCEPT !.sock[s].connected = b], s)
           /\ Quiet(n, [n EXCEPT !.sock[s].readShutdown = b], s)
           /\ Quiet(n, [n EXCEPT !.sock[s].connectEvent = b], s)
           /\ Quiet(n, [n EXCEPT !.sock[s].receiveEvent = b], s)
<1> DEFINE x == n.sock[s]
<1>1. x \in SocketStates
  BY SocketState
<1>2. Quiet(n, [n EXCEPT !.sock[s].bound = b], s)
  BY <1>1, QuietReplace DEF SocketStates
<1>3. Quiet(n, [n EXCEPT !.sock[s].blocking = b], s)
  BY <1>1, QuietReplace DEF SocketStates
<1>4. Quiet(n, [n EXCEPT !.sock[s].broadcast = b], s)
  BY <1>1, QuietReplace DEF SocketStates
<1>5. Quiet(n, [n EXCEPT !.sock[s].listening = b], s)
  BY <1>1, QuietReplace DEF SocketStates
<1>6. Quiet(n, [n EXCEPT !.sock[s].connecting = b], s)
  BY <1>1, QuietReplace DEF SocketStates
<1>7. Quiet(n, [n EXCEPT !.sock[s].connected = b], s)
  BY <1>1, QuietReplace DEF SocketStates
<1>8. Quiet(n, [n EXCEPT !.sock[s].readShutdown = b], s)
  BY <1>1, QuietReplace DEF SocketStates
<1>9. Quiet(n, [n EXCEPT !.sock[s].connectEvent = b], s)
  BY <1>1, QuietReplace DEF SocketStates
<1>10. Quiet(n, [n EXCEPT !.sock[s].receiveEvent = b], s)
  BY <1>1, QuietReplace DEF SocketStates
<1> QED BY <1>2, <1>3, <1>4, <1>5, <1>6, <1>7, <1>8, <1>9, <1>10

\* What a socket has received and not yet handed to the game.
LEMMA QueueQuiet ==
    ASSUME NEW n \in NetStates, NEW s \in Sockets, NEW q \in Seq(Int)
    PROVE  Quiet(n, [n EXCEPT !.sock[s].queue = q], s)
<1>1. n.sock[s] \in SocketStates
  BY SocketState
<1> QED BY <1>1, QuietReplace DEF SocketStates

\* Two quiet operations, one after the other.
LEMMA QuietTrans ==
    ASSUME NEW n, NEW m, NEW k, NEW s, Quiet(n, m, s), Quiet(m, k, s)
    PROVE  Quiet(n, k, s)
BY LocalTrans DEF Quiet

\* Listen and Shutdown set flags.
LEMMA ListenQuiet ==
    ASSUME NEW n \in NetStates, NEW s \in Sockets
    PROVE  Quiet(n, Listen(n, s), s)
BY FlagsQuiet, QuietRefl DEF Listen

\* Shutdown sets two.
LEMMA ShutdownQuiet ==
    ASSUME NEW n \in NetStates, NEW s \in Sockets
    PROVE  Quiet(n, Shutdown(n, s), s)
<1> DEFINE m == [n EXCEPT !.sock[s].readShutdown = TRUE]
           k == [m EXCEPT !.sock[s].receiveEvent = TRUE]
<1>1. Quiet(n, m, s)
  BY FlagsQuiet
<1>2. m \in NetStates
  BY <1>1 DEF Quiet, Local
<1>3. k = Shutdown(n, s)
  BY DEF Shutdown
<1> HIDE DEF m
<1>4. Quiet(m, k, s)
  BY <1>2, FlagsQuiet
<1> QED BY <1>1, <1>3, <1>4, QuietTrans

\* ReceiveFrom takes from the queue only.
LEMMA ReceiveQuiet ==
    ASSUME NEW n \in NetStates, NEW s \in Sockets, NEW peek
    PROVE  /\ n.sock[s].queue # <<>> => Quiet(n, ReceiveAtOnce(n, s, BufferSize, peek), s)
           /\ Quiet(n, ReceiveAfterWait(n, s, peek), s)
<1> DEFINE q == n.sock[s].queue
<1>1. q \in Seq(Int)
  BY SocketState DEF SocketStates
<1>2. ASSUME q # <<>>
      PROVE  Head(q) \in Int /\ Tail(q) \in Seq(Int) /\ <<Head(q) - BufferSize>> \o Tail(q) \in Seq(Int)
  BY <1>1, <1>2 DEF BufferSize
<1>3. ASSUME q # <<>> PROVE Quiet(n, ReceiveAtOnce(n, s, BufferSize, peek), s)
  <2> DEFINE split == <<Head(q) - BufferSize>> \o Tail(q)
             m == ReceiveAtOnce(n, s, BufferSize, peek)
  <2>1. \/ m = n
        \/ m = [n EXCEPT !.sock[s].queue = split]
        \/ m = [n EXCEPT !.sock[s].queue = Tail(q)]
    BY DEF ReceiveAtOnce
  <2>2. split \in Seq(Int) /\ Tail(q) \in Seq(Int)
    BY <1>2, <1>3
  <2> HIDE DEF m, split, q
  <2>3. /\ Quiet(n, [n EXCEPT !.sock[s].queue = split], s)
        /\ Quiet(n, [n EXCEPT !.sock[s].queue = Tail(q)], s)
    BY <2>2, QueueQuiet
  <2>4. Quiet(n, m, s)
    BY <2>1, <2>3, QuietRefl
  <2> QED BY <2>4 DEF m
<1>4. Quiet(n, ReceiveAfterWait(n, s, peek), s)
  BY <1>1, <1>2, QueueQuiet, QuietRefl DEF ReceiveAfterWait
<1> QED BY <1>3, <1>4

\* An answer to a connection request changes how the socket is connected.
LEMMA ResponseQuiet ==
    ASSUME NEW n \in NetStates, NEW s \in Sockets, NEW accepted \in BOOLEAN
    PROVE  Quiet(n, HandleConnectResponse(n, s, accepted), s)
<1> DEFINE x == n.sock[s]
           y == [x EXCEPT !.connecting = FALSE, !.connected = @ \/ accepted,
                          !.connectEvent = TRUE]
<1>1. x \in SocketStates
  BY SocketState
<1>2. x.connected \/ accepted \in BOOLEAN
  OBVIOUS
<1>3. /\ y \in SocketStates
      /\ y.life = x.life /\ y.proto = x.proto /\ y.children = x.children
      /\ y.port = x.port /\ y.requests = x.requests /\ y.acceptEvent = x.acceptEvent
  BY <1>1, <1>2 DEF SocketStates
<1>4. ~x.connecting \/ HandleConnectResponse(n, s, accepted) = [n EXCEPT !.sock[s] = y]
  BY DEF HandleConnectResponse, NetStates
<1>5. ~x.connecting => HandleConnectResponse(n, s, accepted) = n
  BY DEF HandleConnectResponse
<1> HIDE DEF y
<1>6. Quiet(n, [n EXCEPT !.sock[s] = y], s)
  BY <1>3, QuietReplace
<1> QED BY <1>4, <1>5, <1>6, QuietRefl

\* Data goes to the queue.
LEMMA DataQuiet ==
    ASSUME NEW n \in NetStates, NEW s \in Sockets, NEW pkt \in Packets
    PROVE  Quiet(n, IncomingData(n, s, pkt), s)
<1> DEFINE q == Append(n.sock[s].queue, pkt.size)
           m == [n EXCEPT !.sock[s].queue = q]
           k == [m EXCEPT !.sock[s].receiveEvent = TRUE]
<1>1. q \in Seq(Int)
  <2>1. n.sock[s].queue \in Seq(Int)
    BY SocketState DEF SocketStates
  <2>2. pkt.size \in Int
    <3>1. pkt.size \in Sizes \cup {0}
      BY DEF Packets
    <3>2. \A z \in Sizes \cup {0} : z \in Int
      BY SizesAssumption
    <3> QED BY <3>1, <3>2
  <2> QED BY <2>1, <2>2
<1>2. Quiet(n, m, s) /\ m \in NetStates
  <2> HIDE DEF q
  <2>1. Quiet(n, m, s)
    BY <1>1, QueueQuiet
  <2> HIDE DEF m
  <2> QED BY <2>1 DEF Quiet, Local
<1>3. IncomingData(n, s, pkt) = n \/ IncomingData(n, s, pkt) = k
  BY DEF IncomingData
<1> HIDE DEF m
<1>4. Quiet(m, k, s)
  BY <1>2, FlagsQuiet
<1> QED BY <1>2, <1>3, <1>4, QuietTrans, QuietRefl

\* A connection request sets the event.
LEMMA RequestLocal ==
    ASSUME NEW n \in NetStates, NEW s \in Sockets, NEW pkt \in Packets
    PROVE  LET m == IncomingConnectionRequest(n, s, pkt)
           IN  Local(n, m, s) /\ SamePort(n, m, s) /\ m.sock[s].acceptEvent
<1> DEFINE x == n.sock[s]
           q == Append(x.requests, [dest |-> pkt.dest, port |-> pkt.port])
           y == [x EXCEPT !.requests = q, !.acceptEvent = TRUE]
<1>1. x \in SocketStates
  BY SocketState
<1>2. q \in Seq([dest : {"local", "broadcast"}, port : PortValues])
  BY <1>1 DEF SocketStates, Packets, PortValues
<1>3. /\ y \in SocketStates /\ y.acceptEvent
      /\ y.life = x.life /\ y.proto = x.proto /\ y.children = x.children /\ y.port = x.port
  BY <1>1, <1>2 DEF SocketStates
<1>4. IncomingConnectionRequest(n, s, pkt) = [n EXCEPT !.sock[s] = y]
  BY DEF IncomingConnectionRequest
<1> HIDE DEF y
<1>5. Local(n, [n EXCEPT !.sock[s] = y], s) /\ [n EXCEPT !.sock[s] = y].sock[s] = y
      /\ [n EXCEPT !.sock[s] = y].ports = n.ports
  BY <1>3, ReplaceSocket
<1> QED BY <1>3, <1>4, <1>5 DEF SamePort

(***************************************************************************)
(* Operations that change the port of a socket.                            *)
(***************************************************************************)
\* An operation on an open socket that keeps the lists of ports in order and the
\* ports of the sockets different.
Ported(n, m, s) ==
    /\ Local(n, m, s) /\ SameRequests(n, m, s) /\ PortsOK(m)
    /\ IsOpen(n, s) /\ UniqueIn(n, Sockets) => UniqueIn(m, Sockets)

\* Port 0 is not ephemeral, and the first of the range is.
LEMMA NoPortIsNone == /\ NoPort \notin EphemeralPorts /\ EphemeralBase \in EphemeralPorts
                      /\ PoolPorts \subseteq EphemeralPorts /\ NoPort \notin PoolPorts
BY RangeType DEF NoPort, EphemeralPorts, PoolPorts

\* Socket s gets a port that is in use for it alone, or one of no pool.
LEMMA UniqueAdd ==
    ASSUME NEW n, NEW m, NEW s \in Sockets, Local(n, m, s), UniqueIn(n, Sockets \ {s}),
           \A proto \in Protocols : InUse(n.ports[proto]) \subseteq InUse(m.ports[proto]),
           HasPort(m, s) => /\ m.sock[s].port \in InUse(m.ports[m.sock[s].proto])
                            /\ m.sock[s].port \notin InUse(n.ports[m.sock[s].proto])
    PROVE  UniqueIn(m, Sockets)
<1>1. ASSUME NEW r \in Sockets \ {s}, HasPort(m, r)
      PROVE  /\ m.sock[r].port \in InUse(m.ports[m.sock[r].proto])
             /\ m.sock[r].port \in InUse(n.ports[m.sock[r].proto])
             /\ \A q \in Sockets \ {s, r} :
                   IsOpen(m, q) /\ m.sock[q].proto = m.sock[r].proto =>
                      m.sock[q].port # m.sock[r].port
  <2>1. \A q \in Sockets \ {s} : m.sock[q] = n.sock[q]
    BY DEF Local
  <2>2. HasPort(n, r) /\ m.sock[r].proto \in Protocols
    BY <1>1, <2>1 DEF HasPort, IsOpen
  <2>3. /\ n.sock[r].port \in InUse(n.ports[n.sock[r].proto])
        /\ \A q \in (Sockets \ {s}) \ {r} :
              IsOpen(n, q) /\ n.sock[q].proto = n.sock[r].proto =>
                 n.sock[q].port # n.sock[r].port
    BY <2>2 DEF UniqueIn
  <2>4. m.sock[r].port \in InUse(n.ports[m.sock[r].proto])
    BY <2>1, <2>3
  <2>5. m.sock[r].port \in InUse(m.ports[m.sock[r].proto])
    BY <2>2, <2>4
  <2>6. ASSUME NEW q \in Sockets \ {s, r}, IsOpen(m, q),
               m.sock[q].proto = m.sock[r].proto
        PROVE  m.sock[q].port # m.sock[r].port
    BY <2>1, <2>3, <2>6 DEF IsOpen
  <2> QED BY <2>4, <2>5, <2>6
<1>2. ASSUME NEW r \in Sockets \ {s}, IsOpen(m, s), IsOpen(m, r),
             m.sock[r].proto = m.sock[s].proto, m.sock[r].port = m.sock[s].port,
             HasPort(m, r) \/ HasPort(m, s)
      PROVE  FALSE
  <2>1. HasPort(m, r) /\ HasPort(m, s)
    BY <1>2 DEF HasPort
  <2> QED BY <1>1, <1>2, <2>1
<1> QED BY <1>1, <1>2 DEF UniqueIn, HasPort

\* Socket s gives its port back.
LEMMA UniqueDrop ==
    ASSUME NEW n, NEW m, NEW s \in Sockets, IsOpen(n, s), m.sock = n.sock,
           UniqueIn(n, Sockets),
           \A proto \in Protocols :
              proto # n.sock[s].proto => m.ports[proto] = n.ports[proto],
           n.sock[s].proto \in Protocols =>
              InUse(n.ports[n.sock[s].proto]) \ {n.sock[s].port}
                 \subseteq InUse(m.ports[n.sock[s].proto])
    PROVE  UniqueIn(m, Sockets \ {s})
<1>1. ASSUME NEW r \in Sockets \ {s}, HasPort(m, r)
      PROVE  m.sock[r].port \in InUse(m.ports[m.sock[r].proto])
  <2>1. HasPort(n, r) /\ n.sock[r].port \in InUse(n.ports[n.sock[r].proto])
    BY <1>1 DEF UniqueIn, HasPort, IsOpen
  <2>2. CASE n.sock[r].proto = n.sock[s].proto
    BY <2>1, <2>2 DEF UniqueIn, HasPort
  <2>3. CASE n.sock[r].proto # n.sock[s].proto
    BY <2>1, <2>3 DEF HasPort
  <2> QED BY <2>2, <2>3
<1> QED BY <1>1 DEF UniqueIn, HasPort, IsOpen

\* The port of a bound socket goes back: the others keep theirs.
LEMMA GiveUpOK ==
    ASSUME NEW n \in NetStates, PortsOK(n), NEW s \in Sockets
    PROVE  LET m == GiveUpPort(n, s)
           IN  /\ m \in NetStates /\ PortsOK(m)
               /\ m.sock = n.sock /\ m.registered = n.registered
               /\ IsOpen(n, s) /\ UniqueIn(n, Sockets) => UniqueIn(m, Sockets \ {s})
<1> DEFINE x == n.sock[s]
           list == ReturnPort(n.ports[x.proto], x.port)
           m == [n EXCEPT !.ports[x.proto] = list]
<1>1. CASE GiveUpPort(n, s) = n
  BY <1>1 DEF UniqueIn
<1>2. CASE GiveUpPort(n, s) # n
  <2>1. x.proto \in Protocols /\ GiveUpPort(n, s) = m
    BY <1>2 DEF GiveUpPort, ReturnEphemeralPort
  <2>2. PoolOK(list) /\ InUse(list) = InUse(n.ports[x.proto]) \ {x.port}
    BY <2>1, ReturnKeepsSorted DEF PortsOK
  <2> HIDE DEF list
  <2>3. /\ m.ports[x.proto] = list
        /\ \A proto \in Protocols : proto # x.proto => m.ports[proto] = n.ports[proto]
        /\ m.sock = n.sock /\ m.registered = n.registered
    BY <2>1 DEF NetStates
  <2>4. m \in NetStates
    BY <2>1, <2>2 DEF NetStates, PoolOK
  <2> HIDE DEF m
  <2>5. PortsOK(m)
    BY <2>2, <2>3 DEF PortsOK
  <2>6. IsOpen(n, s) /\ UniqueIn(n, Sockets) => UniqueIn(m, Sockets \ {s})
    BY <2>1, <2>2, <2>3, UniqueDrop
  <2> QED BY <2>1, <2>3, <2>4, <2>5, <2>6
<1> QED BY <1>1, <1>2

\* The port of s is replaced.
LEMMA PortExcept ==
    ASSUME NEW n \in NetStates, NEW s \in Sockets, NEW port \in PortValues
    PROVE  LET m == [n EXCEPT !.sock[s].port = port]
           IN  /\ Local(n, m, s) /\ SameRequests(n, m, s) /\ m.ports = n.ports
               /\ m.sock[s].port = port
<1> DEFINE x == n.sock[s]
           y == [x EXCEPT !.port = port]
<1>1. x \in SocketStates
  BY SocketState
<1>2. /\ y \in SocketStates /\ y.port = port
      /\ y.life = x.life /\ y.proto = x.proto /\ y.children = x.children
      /\ y.requests = x.requests /\ y.acceptEvent = x.acceptEvent
  BY <1>1 DEF SocketStates
<1>3. [n EXCEPT !.sock[s].port = port] = [n EXCEPT !.sock[s] = y]
  OBVIOUS
<1> HIDE DEF y
<1>4. /\ Local(n, [n EXCEPT !.sock[s] = y], s)
      /\ [n EXCEPT !.sock[s] = y].sock[s] = y /\ [n EXCEPT !.sock[s] = y].ports = n.ports
  BY <1>2, ReplaceSocket
<1> QED BY <1>2, <1>3, <1>4 DEF SameRequests

\* The socket gets a port that no other has, or none when all are in use.
LEMMA GetOK ==
    ASSUME NEW n \in NetStates, PortsOK(n), NEW s \in Sockets
    PROVE  LET m == GetEphemeralPort(n, s)
           IN  /\ Local(n, m, s) /\ SameRequests(n, m, s) /\ PortsOK(m)
               /\ UniqueIn(n, Sockets \ {s}) => UniqueIn(m, Sockets)
<1> DEFINE proto == n.sock[s].proto
           list == n.ports[proto]
           port == AllocatePort(list)
           after == AfterAllocate(list)
<1>1. CASE proto \in Protocols
  <2>1. PoolOK(list)
    BY <1>1 DEF PortsOK
  <2>2. /\ PoolOK(after) /\ InUse(list) \subseteq InUse(after)
        /\ port \in PortValues
        /\ port # NoPort => port \in InUse(after) /\ port \notin InUse(list)
    BY <2>1, AllocatesFreePort, NoPortMeansFull, AllocateKeepsSorted DEF PortValues
  <2> DEFINE k == [n EXCEPT !.sock[s].port = port]
             m == [k EXCEPT !.ports[proto] = after]
  <2>3. GetEphemeralPort(n, s) = m
    BY <1>1 DEF GetEphemeralPort
  <2> HIDE DEF port, after
  <2>4. /\ Local(n, k, s) /\ SameRequests(n, k, s) /\ k.ports = n.ports
        /\ k.sock[s].port = port /\ k \in NetStates
    BY <2>2, PortExcept DEF Local
  <2> HIDE DEF k
  <2>5. /\ m.sock = k.sock /\ m.registered = k.registered /\ m.ports[proto] = after
        /\ \A other \in Protocols : other # proto => m.ports[other] = n.ports[other]
    BY <1>1, <2>4 DEF NetStates
  <2>6. m \in NetStates
    BY <1>1, <2>2, <2>4 DEF NetStates, PoolOK
  <2> HIDE DEF m
  <2>7. Local(n, m, s) /\ SameRequests(n, m, s)
    BY <2>4, <2>5, <2>6 DEF Local, SameRequests
  <2>8. PortsOK(m)
    BY <2>2, <2>5 DEF PortsOK
  <2>9. \A other \in Protocols : InUse(n.ports[other]) \subseteq InUse(m.ports[other])
    BY <2>2, <2>5
  <2>10. HasPort(m, s) => /\ m.sock[s].port \in InUse(m.ports[m.sock[s].proto])
                          /\ m.sock[s].port \notin InUse(n.ports[m.sock[s].proto])
    BY <2>2, <2>4, <2>5, <2>7, NoPortIsNone DEF HasPort, Local
  <2>11. UniqueIn(n, Sockets \ {s}) => UniqueIn(m, Sockets)
    BY <2>7, <2>9, <2>10, UniqueAdd
  <2> QED BY <2>3, <2>7, <2>8, <2>11
<1>2. CASE proto \notin Protocols
  <2> DEFINE m == [n EXCEPT !.sock[s].port = EphemeralBase]
  <2>1. GetEphemeralPort(n, s) = m
    BY <1>2 DEF GetEphemeralPort
  <2>2. Local(n, m, s) /\ SameRequests(n, m, s) /\ m.ports = n.ports
    BY PortExcept, NoPortIsNone DEF PortValues
  <2> HIDE DEF m
  <2>3. ~HasPort(m, s)
    BY <1>2, <2>2 DEF HasPort, Local
  <2>4. UniqueIn(n, Sockets \ {s}) => UniqueIn(m, Sockets)
    BY <2>2, <2>3, UniqueAdd
  <2> QED BY <2>1, <2>2, <2>4 DEF PortsOK
<1> QED BY <1>1, <1>2

\* A quiet operation does not change ports.
LEMMA QuietPorted ==
    ASSUME NEW n, PortsOK(n), NEW m, NEW s \in Sockets, Quiet(n, m, s)
    PROVE  Ported(n, m, s)
<1>1. ASSUME UniqueIn(n, Sockets) PROVE UniqueIn(m, Sockets)
  BY <1>1 DEF UniqueIn, HasPort, IsOpen, Quiet, Local, SamePort
<1> QED BY <1>1 DEF Ported, Quiet, SamePort, PortsOK

\* Two operations on ports, one after the other.
LEMMA PortedTrans ==
    ASSUME NEW n, NEW m, NEW k, NEW s, Ported(n, m, s), Ported(m, k, s)
    PROVE  Ported(n, k, s)
BY LocalTrans DEF Ported, Local, IsOpen

\* EnsureLocalEndpoint, which may replace the port.
LEMMA EnsureOK ==
    ASSUME NEW n \in NetStates, PortsOK(n), NEW s \in Sockets, NEW replace
    PROVE  Ported(n, EnsureLocalEndpoint(n, s, replace), s)
<1> DEFINE g == GiveUpPort(n, s)
           m == GetEphemeralPort(g, s)
<1>1. /\ g \in NetStates /\ PortsOK(g)
      /\ g.sock = n.sock /\ g.registered = n.registered
      /\ IsOpen(n, s) /\ UniqueIn(n, Sockets) => UniqueIn(g, Sockets \ {s})
  BY GiveUpOK
<1> HIDE DEF g
<1>2. /\ Local(g, m, s) /\ SameRequests(g, m, s) /\ PortsOK(m)
      /\ UniqueIn(g, Sockets \ {s}) => UniqueIn(m, Sockets)
  BY <1>1, GetOK
<1> HIDE DEF m
<1>3. Ported(n, m, s)
  BY <1>1, <1>2 DEF Ported, Local, SameRequests
<1>4. EnsureLocalEndpoint(n, s, replace) = n \/ EnsureLocalEndpoint(n, s, replace) = m
  BY DEF EnsureLocalEndpoint, m, g
<1> QED BY <1>3, <1>4, QuietRefl, QuietPorted

\* Bind, to a port of the pool or to one the game has chosen.
LEMMA BindOK ==
    ASSUME NEW n \in NetStates, PortsOK(n), NEW s \in Sockets,
           NEW port \in ExplicitPorts \cup {NoPort}
    PROVE  Ported(n, Bind(n, s, port), s)
<1> DEFINE g == GiveUpPort(n, s)
           b == IF port = NoPort THEN GetEphemeralPort(g, s)
                ELSE [g EXCEPT !.sock[s].port = port]
           m == [b EXCEPT !.sock[s].bound = TRUE]
<1>1. /\ g \in NetStates /\ PortsOK(g)
      /\ g.sock = n.sock /\ g.registered = n.registered
      /\ IsOpen(n, s) /\ UniqueIn(n, Sockets) => UniqueIn(g, Sockets \ {s})
  BY GiveUpOK
<1> HIDE DEF g
<1>2. /\ Local(g, b, s) /\ SameRequests(g, b, s) /\ PortsOK(b)
      /\ UniqueIn(g, Sockets \ {s}) => UniqueIn(b, Sockets)
  <2>1. CASE port = NoPort
    BY <1>1, <2>1, GetOK
  <2>2. CASE port # NoPort
    <3>1. /\ Local(g, b, s) /\ SameRequests(g, b, s) /\ b.ports = g.ports
          /\ b.sock[s].port = port
      BY <1>1, <2>2, PortExcept DEF PortValues
    <3>2. b = [g EXCEPT !.sock[s].port = port]
      BY <2>2
    <3> HIDE DEF b
    <3>3. ~HasPort(b, s)
      BY <2>2, <3>1 DEF HasPort, PoolPorts
    <3>4. UniqueIn(g, Sockets \ {s}) => UniqueIn(b, Sockets)
      BY <3>1, <3>3, UniqueAdd
    <3> QED BY <1>1, <3>1, <3>4 DEF PortsOK
  <2> QED BY <2>1, <2>2
<1> HIDE DEF b
<1>3. Ported(n, b, s) /\ b \in NetStates
  BY <1>1, <1>2 DEF Ported, Local, SameRequests
<1>4. Quiet(b, m, s)
  BY <1>3, FlagsQuiet
<1>5. Ported(b, m, s)
  BY <1>3, <1>4, QuietPorted DEF Ported
<1> HIDE DEF m
<1>6. Bind(n, s, port) = m
  BY DEF Bind, m, b, g
<1> QED BY <1>3, <1>5, <1>6, PortedTrans

\* Connect, which always replaces the port.
LEMMA ConnectOK ==
    ASSUME NEW n \in NetStates, PortsOK(n), NEW s \in Sockets
    PROVE  Ported(n, RequestConnection(n, s), s)
<1> DEFINE m == EnsureLocalEndpoint(n, s, TRUE)
           k == [m EXCEPT !.sock[s].connecting = TRUE]
<1>1. Ported(n, m, s)
  BY EnsureOK
<1>2. k = RequestConnection(n, s)
  BY DEF RequestConnection
<1> HIDE DEF m
<1>3. Quiet(m, k, s)
  BY <1>1, FlagsQuiet DEF Ported, Local
<1>4. Ported(m, k, s)
  BY <1>1, <1>3, QuietPorted DEF Ported
<1> QED BY <1>1, <1>2, <1>4, PortedTrans

\* SendTo, which gets a port when the socket has none.
LEMMA SendOK ==
    ASSUME NEW n \in NetStates, PortsOK(n), NEW s \in Sockets
    PROVE  Ported(n, SendTo(n, s), s)
BY EnsureOK, QuietRefl, QuietPorted DEF SendTo

(***************************************************************************)
(* What these operations do to the invariant.                              *)
(***************************************************************************)
LEMMA NoSocketIsNone == NoSocket \notin Sockets
BY SocketsAssumption DEF NoSocket

\* The memory that is taken next was not used before.
LEMMA FreshOK == ASSUME Unallocated # {} PROVE Fresh \in Sockets /\ net.sock[Fresh].life = "unused"
<1>1. Unallocated \in SUBSET Nat
  BY SocketsAssumption DEF Unallocated
<1>2. \E s \in Unallocated : \A r \in Unallocated : s <= r
  BY <1>1, LeastNumber
<1>3. Fresh \in Unallocated
  BY <1>2 DEF Fresh
<1> QED BY <1>3 DEF Unallocated

\* An operation on one socket that keeps its place in the invariant.
LEMMA LocalKeeps ==
    ASSUME NEW n, NEW m, NEW e, NEW c, NEW s \in Sockets, NetInv(n, e, c), Local(n, m, s)
    PROVE  /\ m \in NetStates /\ Routed(m) /\ TableOK(m, e) /\ CallsOK(m, c)
           /\ SameRequests(n, m, s) => RequestsOK(m, c)
<1>1. \A r \in Sockets : /\ IsOpen(m, r) <=> IsOpen(n, r)
                         /\ m.sock[r].life = n.sock[r].life
                         /\ m.sock[r].children = n.sock[r].children
  BY DEF Local, IsOpen
<1>2. m \in NetStates
  BY DEF Local
<1>3. Routed(m)
  BY <1>1 DEF NetInv, Routed, Local
<1>4. TableOK(m, e)
  <2>1. \A fd \in Fds : e[fd].vsock # NoSocket => e[fd].vsock \in Sockets
    BY DEF NetInv, TableOK, Entries
  <2>2. \A r \in Sockets : m.sock[r].children \subseteq Sockets
    BY <1>2, SocketState DEF SocketStates
  <2> QED BY <1>1, <2>1, <2>2 DEF NetInv, TableOK
<1>5. CallsOK(m, c)
  <2>1. \A t \in Threads : c[t].op \in {"connect", "receive"} => c[t].s \in Sockets
    BY DEF NetInv, CallsOK, CallStates, Returned
  <2> QED BY <1>1, <2>1 DEF NetInv, CallsOK
<1>6. SameRequests(n, m, s) => RequestsOK(m, c)
  BY <1>1 DEF NetInv, RequestsOK, SameRequests, Local
<1> QED BY <1>2, <1>3, <1>4, <1>5, <1>6

\* An operation on the port of an open socket keeps the invariant.
LEMMA PortedKeeps ==
    ASSUME NEW n, NEW m, NEW e, NEW c, NEW s \in Sockets, NetInv(n, e, c), IsOpen(n, s),
           Ported(n, m, s)
    PROVE  NetInv(m, e, c)
BY LocalKeeps DEF Ported, NetInv

\* So does one that concerns neither port nor requests.
LEMMA QuietKeeps ==
    ASSUME NEW n, NEW m, NEW e, NEW c, NEW s \in Sockets, NetInv(n, e, c), Quiet(n, m, s)
    PROVE  NetInv(m, e, c)
<1>1. Ported(n, m, s)
  BY QuietPorted DEF NetInv
<1>2. UniqueIn(n, Sockets) => UniqueIn(m, Sockets)
  BY DEF UniqueIn, HasPort, IsOpen, Quiet, Local, SamePort
<1> QED BY <1>1, <1>2, LocalKeeps DEF NetInv, Ported

\* The constructor, on memory nobody has used before.
LEMMA ConstructOK ==
    ASSUME NEW n, NEW e, NEW c, NetInv(n, e, c), proxy = "up",
           NEW s \in Sockets, n.sock[s].life = "unused", NEW proto \in Protocols \cup {NoProtocol}
    PROVE  LET m == Construct(n, s, proto)
           IN  /\ NetInv(m, e, c) /\ m.sock[s] = NewSocket(proto) /\ m.registered[s] = 1
               /\ \A r \in Sockets : r # s => m.sock[r] = n.sock[r]
<1> DEFINE m == Construct(n, s, proto)
           k == [n EXCEPT !.sock[s] = NewSocket(proto)]
<1>1. NewSocket(proto) \in SocketStates
  BY DEF NewSocket, SocketStates, PortValues
<1>2. NewSocket(proto).life = "open" /\ NewSocket(proto).port = NoPort
      /\ NewSocket(proto).children = {} /\ NewSocket(proto).requests = <<>>
  BY DEF NewSocket
<1>3. n \in NetStates /\ n.registered[s] = 0
  BY DEF NetInv, Routed, IsOpen, NetStates
<1> HIDE DEF NewSocket
<1>4. /\ m.sock[s] = NewSocket(proto) /\ m.registered[s] = 1 /\ m.ports = n.ports
      /\ \A r \in Sockets : r # s => m.sock[r] = n.sock[r] /\ m.registered[r] = n.registered[r]
  BY <1>3 DEF Construct, RegisterSocket, NetStates
<1>5. m \in NetStates
  <2>1. k \in NetStates /\ k.registered = n.registered
    BY <1>1, <1>3 DEF NetStates
  <2> HIDE DEF k
  <2>2. k.registered[s] + 1 \in 0 .. 2
    BY <1>3, <2>1
  <2>3. [k EXCEPT !.registered[s] = k.registered[s] + 1] \in NetStates
    BY <2>1, <2>2 DEF NetStates
  <2> QED BY <2>3 DEF Construct, RegisterSocket, k
<1> HIDE DEF m
<1>6. IsOpen(m, s) /\ ~IsOpen(n, s)
      /\ \A r \in Sockets : r # s => (IsOpen(m, r) <=> IsOpen(n, r))
  BY <1>2, <1>4 DEF IsOpen
<1>7. PortsOK(m)
  BY <1>4 DEF PortsOK, NetInv
<1>8. UniqueIn(n, Sockets) => UniqueIn(m, Sockets)
  BY <1>2, <1>4, <1>6, NoPortIsNone DEF UniqueIn, HasPort
<1>9. Routed(m)
  BY <1>4, <1>6 DEF Routed, NetInv
<1>10. TableOK(m, e)
  <2>1. \A fd \in Fds : e[fd].vsock # NoSocket => e[fd].vsock \in Sockets
    BY DEF NetInv, TableOK, Entries
  <2>2. \A r \in Sockets : m.sock[r].children \subseteq Sockets
    BY <1>5, SocketState DEF SocketStates
  <2>3. \A r \in Sockets : m.sock[r].life = "unused" => n.sock[r].life = "unused" /\ r # s
    BY <1>2, <1>4
  <2> QED BY <1>2, <1>4, <1>6, <2>1, <2>2, <2>3 DEF NetInv, TableOK
<1>11. CallsOK(m, c)
  <2>1. \A t \in Threads : c[t].op \in {"connect", "receive"} => c[t].s \in Sockets
    BY DEF NetInv, CallsOK, CallStates, Returned
  <2> QED BY <1>6, <2>1 DEF NetInv, CallsOK
<1>12. RequestsOK(m, c)
  BY <1>2, <1>4, <1>6 DEF NetInv, RequestsOK
<1> QED BY <1>4, <1>5, <1>7, <1>8, <1>9, <1>10, <1>11, <1>12 DEF NetInv, m

\* Registering an open socket once more.
LEMMA RegisterOK ==
    ASSUME NEW n, NEW e, NEW c, NetInv(n, e, c), NEW s \in Sockets, IsOpen(n, s),
           n.registered[s] = 1
    PROVE  LET m == RegisterSocket(n, s) IN NetInv(m, e, c) /\ m.sock = n.sock
<1> DEFINE m == RegisterSocket(n, s)
<1>1. n \in NetStates
  BY DEF NetInv
<1>2. /\ m \in NetStates /\ m.sock = n.sock /\ m.ports = n.ports /\ m.registered[s] = 2
      /\ \A r \in Sockets : r # s => m.registered[r] = n.registered[r]
  <2>1. n.registered[s] + 1 = 2 /\ 2 \in 0 .. 2
    OBVIOUS
  <2>2. m = [n EXCEPT !.registered[s] = 2]
    BY <2>1 DEF RegisterSocket
  <2> HIDE DEF m
  <2>3. m \in NetStates
    BY <1>1, <2>1, <2>2 DEF NetStates
  <2>4. m.sock = n.sock /\ m.ports = n.ports
    BY <1>1, <2>2 DEF NetStates
  <2>5. m.registered = [n.registered EXCEPT ![s] = 2]
    BY <1>1, <2>2 DEF NetStates
  <2>6. n.registered \in [Sockets -> 0 .. 2]
    BY <1>1 DEF NetStates
  <2> QED BY <2>3, <2>4, <2>5, <2>6
<1> HIDE DEF m
<1>3. PortsOK(m) /\ (UniqueIn(n, Sockets) => UniqueIn(m, Sockets))
  BY <1>2 DEF NetInv, PortsOK, UniqueIn, HasPort, IsOpen
<1>4. Routed(m)
  BY <1>2 DEF NetInv, Routed, IsOpen
<1>5. TableOK(m, e) /\ CallsOK(m, c) /\ RequestsOK(m, c)
  BY <1>2 DEF NetInv, TableOK, CallsOK, RequestsOK, IsOpen
<1> QED BY <1>2, <1>3, <1>4, <1>5 DEF NetInv, m

\* GetVirtualSocket: the socket of the descriptor is open, and a new one is in no
\* other entry.
LEMMA GetSocketOK ==
    ASSUME NetInv(net, entry, call), NEW fd \in Fds, CanGet(fd), NEW type \in {"Real", "Virtual"},
           NEW e, e = [entry EXCEPT ![fd].type = type, ![fd].vsock = VirtualSocket(fd)]
    PROVE  /\ VirtualSocket(fd) \in Sockets /\ IsOpen(GetVirtualSocket(fd), VirtualSocket(fd))
           /\ NetInv(GetVirtualSocket(fd), e, call)
<1> DEFINE n == GetVirtualSocket(fd)
           s == VirtualSocket(fd)
<1>1. entry \in [Fds -> Entries]
  BY DEF NetInv, TableOK
<1>2. ASSUME s \in Sockets
      PROVE  /\ e \in [Fds -> Entries] /\ e[fd].vsock = s
             /\ \A gd \in Fds : gd # fd => e[gd] = entry[gd]
  <2> DEFINE x == [entry[fd] EXCEPT !.type = type, !.vsock = s]
  <2>1. x \in Entries /\ x.vsock = s
    BY <1>1, <1>2 DEF Entries
  <2>2. e = [entry EXCEPT ![fd] = x]
    BY <1>1
  <2> HIDE DEF s, x
  <2> QED BY <1>1, <2>1, <2>2
<1>3. CASE entry[fd].vsock # NoSocket
  <2>1. s \in Sockets /\ n = net /\ s = entry[fd].vsock
    BY <1>1, <1>3 DEF Entries, VirtualSocket, GetVirtualSocket
  <2> HIDE DEF s, n
  <2>2. \A gd \in Fds : e[gd].vsock = entry[gd].vsock
    BY <1>2, <2>1
  <2>3. TableOK(net, e)
    BY <1>2, <2>1, <2>2 DEF NetInv, TableOK
  <2>4. IsOpen(net, s)
    BY <1>3, <2>1 DEF NetInv, TableOK
  <2> QED BY <2>1, <2>3, <2>4 DEF NetInv, s, n
<1>4. CASE entry[fd].vsock = NoSocket
  <2> DEFINE k == Construct(net, s, entry[fd].proto)
  <2>1. /\ proxy = "up" /\ s = Fresh /\ s \in Sockets /\ net.sock[s].life = "unused"
        /\ n = RegisterSocket(k, s)
    BY <1>4, FreshOK DEF CanGet, VirtualSocket, GetVirtualSocket
  <2>2. entry[fd].proto \in Protocols \cup {NoProtocol}
    BY <1>1 DEF Entries
  <2> HIDE DEF s, n
  <2>3. /\ NetInv(k, entry, call) /\ k.sock[s] = NewSocket(entry[fd].proto) /\ k.registered[s] = 1
        /\ \A r \in Sockets : r # s => k.sock[r] = net.sock[r]
    BY <2>1, <2>2, ConstructOK
  <2> HIDE DEF k
  <2>4. IsOpen(k, s)
    BY <2>3 DEF IsOpen, NewSocket
  <2>5. NetInv(n, entry, call) /\ n.sock = k.sock
    BY <2>1, <2>3, <2>4, RegisterOK
  <2>6. IsOpen(n, s) /\ n.sock[s].children = {} /\ (\A r \in Sockets : r # s => n.sock[r] = net.sock[r])
    BY <2>3, <2>4, <2>5 DEF IsOpen, NewSocket
  <2>7. \A gd \in Fds : entry[gd].vsock # s
    BY <2>1, NoSocketIsNone DEF NetInv, TableOK, IsOpen
  <2>8. \A r \in Sockets : s \notin n.sock[r].children
    BY <2>1, <2>6 DEF NetInv, TableOK
  <2>9. TableOK(n, e)
    <3>1. /\ e \in [Fds -> Entries] /\ e[fd].vsock = s
          /\ \A gd \in Fds : gd # fd => e[gd] = entry[gd]
      BY <1>2, <2>1
    <3>2. \A gd \in Fds : e[gd].vsock # NoSocket => IsOpen(n, e[gd].vsock)
      BY <2>5, <2>6, <3>1 DEF NetInv, TableOK
    <3>3. \A gd, hd \in Fds : e[gd].vsock = e[hd].vsock /\ e[gd].vsock # NoSocket => gd = hd
      BY <2>7, <3>1 DEF NetInv, TableOK
    <3>4. \A r \in Sockets : \A q \in n.sock[r].children :
             n.sock[q].life # "unused" /\ \A gd \in Fds : e[gd].vsock # q
      BY <2>5, <2>8, <3>1 DEF NetInv, TableOK
    <3> QED BY <3>1, <3>2, <3>3, <3>4 DEF TableOK
  <2> QED BY <2>1, <2>5, <2>6, <2>9 DEF NetInv, s, n
<1> QED BY <1>3, <1>4

\* close deletes the socket of a descriptor, and closes the sockets it accepted.
LEMMA DeleteOK ==
    ASSUME NEW n, NEW c, NetInv(n, entry, c), NEW fd \in Fds, NEW v, v = entry[fd].vsock,
           v # NoSocket, worker = WorkerIdle,
           \A t \in Threads : c[t].op \notin {"connect", "receive"},
           NEW e, e = [entry EXCEPT ![fd] = EmptyEntry]
    PROVE  NetInv(Delete(UnregisterSocket(n, {v}), v), e, c)
<1> DEFINE u == UnregisterSocket(n, {v})
           k == Close(u, v)
           d == Delete(u, v)
           gone == {v} \cup n.sock[v].children
<1>1. n \in NetStates /\ entry \in [Fds -> Entries] /\ v \in Sockets
  BY DEF NetInv, TableOK, Entries
<1>2. u \in NetStates /\ u.sock = n.sock /\ u.ports = n.ports
      /\ \A r \in Sockets : u.registered[r] = IF r = v THEN 0 ELSE n.registered[r]
  <2>1. \A r \in Sockets : (IF r \in {v} THEN 0 ELSE n.registered[r]) \in 0 .. 2
    BY <1>1 DEF NetStates
  <2> QED BY <1>1, <2>1 DEF UnregisterSocket, NetStates
<1> HIDE DEF u
<1> DEFINE Shut(x) == [x EXCEPT !.life = "closed", !.connected = FALSE,
                                !.listening = FALSE, !.children = {}]
           sock == [r \in Sockets |-> IF r \notin gone \/ u.sock[r].life # "open"
                                      THEN u.sock[r] ELSE Shut(u.sock[r])]
           reg == [r \in Sockets |-> IF r \in gone THEN 0 ELSE u.registered[r]]
<1>3. \A x \in SocketStates : /\ Shut(x) \in SocketStates /\ Shut(x).life = "closed"
                              /\ Shut(x).children = {}
  <2> TAKE x \in SocketStates
  <2>1. Shut(x).life = "closed" /\ Shut(x).children = {}
    BY DEF SocketStates
  <2>2. Shut(x) \in SocketStates
    BY DEF SocketStates
  <2> QED BY <2>1, <2>2
<1> HIDE DEF Shut
<1>4. \A r \in Sockets : u.sock[r] \in SocketStates
  BY <1>2, SocketState
<1>5. k = [[u EXCEPT !.registered = reg] EXCEPT !.sock = sock]
  BY <1>2 DEF Close, UnregisterSocket, Shut
<1>6. sock \in [Sockets -> SocketStates]
  BY <1>3, <1>4
<1>7. reg \in [Sockets -> 0 .. 2]
  BY <1>2 DEF NetStates
<1> DEFINE dead == [Unused EXCEPT !.life = "deleted"]
<1>8. dead \in SocketStates /\ dead.life = "deleted" /\ dead.children = {}
  <2>1. NewSocket("tcp") \in SocketStates /\ NewSocket("tcp").children = {}
    BY DEF NewSocket, SocketStates, PortValues, Protocols
  <2>2. dead = [NewSocket("tcp") EXCEPT !.life = "deleted"]
    BY <2>1 DEF Unused, SocketStates
  <2> HIDE DEF NewSocket, dead
  <2> QED BY <2>1, <2>2 DEF SocketStates
<1>9. d = [k EXCEPT !.sock[v] = dead]
  BY DEF Delete
<1> HIDE DEF dead
<1>10. /\ d \in NetStates /\ d.ports = n.ports /\ d.registered = reg /\ d.sock[v] = dead
       /\ \A r \in Sockets : r # v => d.sock[r] = sock[r]
  <2> HIDE DEF sock, reg
  <2>1. k \in NetStates /\ k.ports = u.ports /\ k.registered = reg /\ k.sock = sock
    BY <1>2, <1>5, <1>6, <1>7 DEF NetStates
  <2> HIDE DEF k
  <2>2. /\ d.ports = k.ports /\ d.registered = k.registered /\ d.sock[v] = dead
        /\ \A r \in Sockets : r # v => d.sock[r] = k.sock[r]
    BY <1>1, <1>9, <2>1 DEF NetStates
  <2>3. d \in NetStates
    <3>1. [k EXCEPT !.sock[v] = dead] \in NetStates
      BY <1>8, <2>1 DEF NetStates
    <3> QED BY <1>9, <3>1
  <2> QED BY <1>2, <2>1, <2>2, <2>3
<1> HIDE DEF d, k
<1>11. ASSUME NEW r \in Sockets
       PROVE  /\ IsOpen(d, r) <=> IsOpen(n, r) /\ r \notin gone
              /\ IsOpen(d, r) => d.sock[r] = n.sock[r]
              /\ d.registered[r] = IF r \in gone THEN 0 ELSE n.registered[r]
              /\ d.sock[r].children # {} => d.sock[r].children = n.sock[r].children
              /\ d.sock[r].life = "unused" => n.sock[r].life = "unused"
  <2>1. CASE r = v
    BY <1>8, <1>10, <2>1 DEF IsOpen
  <2>2. CASE r # v /\ (r \notin gone \/ n.sock[r].life # "open")
    BY <1>2, <1>10, <2>2 DEF IsOpen
  <2>3. CASE r # v /\ r \in gone /\ n.sock[r].life = "open"
    <3>1. d.sock[r] = Shut(u.sock[r])
      BY <1>2, <1>10, <2>3
    <3> QED BY <1>3, <1>4, <1>10, <2>3, <3>1 DEF IsOpen
  <2> QED BY <2>1, <2>2, <2>3
<1> HIDE DEF sock, reg
<1>12. PortsOK(d)
  BY <1>10 DEF PortsOK, NetInv
<1>13. UniqueIn(n, Sockets) => UniqueIn(d, Sockets)
  BY <1>10, <1>11 DEF UniqueIn, HasPort
<1>14. Routed(d)
  <2>1. \A r \in Sockets : worker.todo[r] = 0
    BY DEF WorkerIdle, NoTodo
  <2> QED BY <1>11, <2>1 DEF NetInv, Routed
<1>15. TableOK(d, e)
  <2>1. /\ e \in [Fds -> Entries] /\ e[fd].vsock = NoSocket
        /\ \A gd \in Fds : gd # fd => e[gd] = entry[gd]
    BY <1>1 DEF EmptyEntry, Entries
  <2>2. ASSUME NEW gd \in Fds, e[gd].vsock # NoSocket
        PROVE  gd # fd /\ e[gd] = entry[gd] /\ e[gd].vsock \in Sockets /\ e[gd].vsock \notin gone
    <3>1. gd # fd /\ e[gd] = entry[gd] /\ e[gd].vsock \in Sockets
      BY <2>1, <2>2 DEF Entries
    <3>2. entry[gd].vsock # v
      BY <2>2, <3>1 DEF NetInv, TableOK
    <3>3. entry[gd].vsock \notin n.sock[v].children
      BY <1>1 DEF NetInv, TableOK
    <3> QED BY <3>1, <3>2, <3>3
  <2>3. \A gd \in Fds : e[gd].vsock # NoSocket => IsOpen(d, e[gd].vsock)
    BY <1>11, <2>2 DEF NetInv, TableOK
  <2>4. \A gd, hd \in Fds : e[gd].vsock = e[hd].vsock /\ e[gd].vsock # NoSocket => gd = hd
    BY <2>2 DEF NetInv, TableOK
  <2>5. ASSUME NEW r \in Sockets, NEW q \in d.sock[r].children
        PROVE  d.sock[q].life # "unused" /\ \A gd \in Fds : e[gd].vsock # q
    <3>1. q \in n.sock[r].children /\ q \in Sockets
      BY <1>1, <1>11, <2>5, SocketState DEF SocketStates
    <3>2. n.sock[q].life # "unused" /\ \A gd \in Fds : entry[gd].vsock # q
      BY <3>1 DEF NetInv, TableOK
    <3> QED BY <1>11, <2>2, <3>1, <3>2, NoSocketIsNone
  <2> QED BY <2>1, <2>3, <2>4, <2>5 DEF TableOK
<1>16. CallsOK(d, c)
  BY DEF NetInv, CallsOK
<1>17. RequestsOK(d, c)
  BY <1>11 DEF NetInv, RequestsOK
<1> QED BY <1>10, <1>12, <1>13, <1>14, <1>15, <1>16, <1>17 DEF NetInv, d, u

\* A thread that has not been woken by _acceptEvent goes on to v.
LEMMA CallKeeps ==
    ASSUME NEW n, NEW e, NEW c, NetInv(n, e, c), NEW t \in Threads, c[t].op # "acceptLock",
           NEW v \in CallStates, v.op \in {"connect", "receive"} => IsOpen(n, v.s)
    PROVE  NetInv(n, e, [c EXCEPT ![t] = v])
<1> DEFINE d == [c EXCEPT ![t] = v]
<1>1. c \in [Threads -> CallStates]
  BY DEF NetInv, CallsOK
<1>2. d \in [Threads -> CallStates] /\ d[t] = v /\ \A u \in Threads : u # t => d[u] = c[u]
  BY <1>1
<1> HIDE DEF d
<1>3. CallsOK(n, d)
  BY <1>2 DEF NetInv, CallsOK
<1>4. RequestsOK(n, d)
  BY <1>2 DEF NetInv, RequestsOK
<1> QED BY <1>3, <1>4 DEF NetInv, d

\* A call returns.
LEMMA ReturnKeeps ==
    ASSUME NEW n, NEW e, NEW c, NetInv(n, e, c), NEW t \in Threads, c[t].op # "acceptLock"
    PROVE  NetInv(n, e, [c EXCEPT ![t] = Returned])
BY CallKeeps DEF CallStates, Returned

\* The table forgets the socket of a descriptor, or changes nothing but types
\* and protocols.
LEMMA EntryKeeps ==
    ASSUME NEW n, NEW e, NEW f, NEW c, NetInv(n, e, c), f \in [Fds -> Entries],
           \A fd \in Fds : f[fd].vsock \in {e[fd].vsock, NoSocket}
    PROVE  NetInv(n, f, c)
<1>1. \A fd \in Fds : f[fd].vsock # NoSocket => IsOpen(n, f[fd].vsock)
  BY DEF NetInv, TableOK
<1>2. \A fd, gd \in Fds : f[fd].vsock = f[gd].vsock /\ f[fd].vsock # NoSocket => fd = gd
  BY DEF NetInv, TableOK
<1>3. \A s \in Sockets : \A q \in n.sock[s].children :
         n.sock[q].life # "unused" /\ \A fd \in Fds : f[fd].vsock # q
  <2>1. \A s \in Sockets : \A q \in n.sock[s].children : q # NoSocket
    BY NoSocketIsNone, SocketState DEF NetInv, SocketStates
  <2> QED BY <2>1 DEF NetInv, TableOK
<1> QED BY <1>1, <1>2, <1>3 DEF NetInv, TableOK

\* An entry is emptied: by socket, and by close.
LEMMA ResetKeeps ==
    ASSUME NEW n, NEW e, NEW c, NetInv(n, e, c), NEW fd \in Fds,
           NEW proto \in Protocols \cup {NoProtocol}
    PROVE  NetInv(n, [e EXCEPT ![fd] = [EmptyEntry EXCEPT !.proto = proto]], c)
<1> DEFINE x == [EmptyEntry EXCEPT !.proto = proto]
           f == [e EXCEPT ![fd] = x]
<1>1. x \in Entries /\ x.vsock = NoSocket
  BY DEF EmptyEntry, Entries
<1>2. e \in [Fds -> Entries]
  BY DEF NetInv, TableOK
<1> HIDE DEF x
<1>3. f \in [Fds -> Entries] /\ \A gd \in Fds : f[gd].vsock \in {e[gd].vsock, NoSocket}
  BY <1>1, <1>2
<1> HIDE DEF f
<1>4. NetInv(n, f, c)
  BY <1>3, EntryKeeps
<1> QED BY <1>4 DEF f, x

BsdInv == NetInv(net, entry, call) /\ opened \subseteq Fds

\* A step that leaves the worker and the proxy alone.
LEMMA Settle ==
    ASSUME NetInv(net', entry', call'), opened' \subseteq Fds, UNCHANGED <<worker, proxy>>
    PROVE  BsdInv'
<1>1. Routed(net)'
  BY DEF NetInv, Routed, IsOpen, WorkerIdle, NoTodo, NoPacket
<1> QED BY <1>1 DEF NetInv, BsdInv

(***************************************************************************)
(* The game's calls.                                                       *)
(***************************************************************************)
\* What a call that uses the emulated socket of its descriptor starts from.
LEMMA Stage ==
    ASSUME BsdInv, NEW fd \in Fds, CanGet(fd), NEW type \in {"Real", "Virtual"},
           KeepsSocket(fd, type)
    PROVE  LET n == GetVirtualSocket(fd)
               s == VirtualSocket(fd)
           IN  /\ s \in Sockets /\ IsOpen(n, s) /\ NetInv(n, entry', call)
               /\ n \in NetStates /\ PortsOK(n)
               /\ \A m : Ported(n, m, s) \/ Quiet(n, m, s) => NetInv(m, entry', call)
<1> DEFINE n == GetVirtualSocket(fd)
           s == VirtualSocket(fd)
<1>1. entry' = [entry EXCEPT ![fd].type = type, ![fd].vsock = VirtualSocket(fd)]
  BY DEF KeepsSocket
<1>2. s \in Sockets /\ IsOpen(n, s) /\ NetInv(n, entry', call)
  BY <1>1, GetSocketOK DEF BsdInv
<1> HIDE DEF n, s
<1>3. \A m : Ported(n, m, s) \/ Quiet(n, m, s) => NetInv(m, entry', call)
  BY <1>2, PortedKeeps, QuietKeeps
<1>4. n \in NetStates /\ PortsOK(n)
  BY <1>2 DEF NetInv
<1> QED BY <1>2, <1>3, <1>4 DEF n, s

\* A thread that has returned waits for something.
LEMMA WaitKeeps ==
    ASSUME NEW n, NEW e, NetInv(n, e, call), NEW t \in Threads, call[t] = Returned,
           NEW fd \in Fds, NEW s \in Sockets, IsOpen(n, s), NEW peek \in BOOLEAN,
           NEW op \in {"sendto", "select", "connect", "receive", "accept"}
    PROVE  NetInv(n, e, [call EXCEPT ![t] = Waiting(op, fd, s, peek)])
<1>1. Waiting(op, fd, s, peek) \in CallStates
  BY DEF CallStates, Waiting
<1>2. call[t].op # "acceptLock"
  BY DEF Returned
<1>3. Waiting(op, fd, s, peek).s = s
  BY DEF Waiting
<1> QED BY <1>1, <1>2, <1>3, CallKeeps

\* socket enters its descriptor without an emulated socket.
LEMMA SocketKeeps ==
    ASSUME BsdInv, NEW t \in Threads, NEW fd \in Fds, NEW proto \in Protocols \cup {NoProtocol},
           Socket(t, fd, proto)
    PROVE  BsdInv'
<1>1. NetInv(net, entry', call)
  BY ResetKeeps DEF Socket, BsdInv
<1> QED BY <1>1, Settle DEF Socket, BsdInv

\* The calls that end at once.
LEMMA SimpleCallKeeps ==
    ASSUME BsdInv, NEW t \in Threads, NEW fd \in Fds,
           \/ \E port \in ExplicitPorts \cup {NoPort} : BindVirtual(t, fd, port)
           \/ ListenVirtual(t, fd) \/ ShutdownVirtual(t, fd) \/ SendVirtual(t, fd)
           \/ \E flag \in BOOLEAN : FcntlVirtual(t, fd, flag) \/ SetBroadcast(t, fd, flag)
           \/ GetSockOptVirtual(t, fd) \/ Poll(t, fd)
    PROVE  BsdInv'
<1> DEFINE n == GetVirtualSocket(fd)
           s == VirtualSocket(fd)
<1>1. CanGet(fd) /\ KeepsSocket(fd, "Virtual") /\ UNCHANGED <<worker, proxy, opened, call>>
  BY DEF BindVirtual, ListenVirtual, ShutdownVirtual, SendVirtual, FcntlVirtual,
         SetBroadcast, GetSockOptVirtual, Poll, Calls
<1>2. /\ s \in Sockets /\ IsOpen(n, s) /\ NetInv(n, entry', call)
      /\ n \in NetStates /\ PortsOK(n)
      /\ \A m : Ported(n, m, s) \/ Quiet(n, m, s) => NetInv(m, entry', call)
  BY <1>1, Stage
<1>3. Ported(n, net', s) \/ Quiet(n, net', s)
  <2>1. CASE \E port \in ExplicitPorts \cup {NoPort} : BindVirtual(t, fd, port)
    <3>1. PICK port \in ExplicitPorts \cup {NoPort} : net' = Bind(n, s, port)
      BY <2>1 DEF BindVirtual
    <3> HIDE DEF n, s
    <3> QED BY <1>2, <3>1, BindOK
  <2>2. CASE ListenVirtual(t, fd)
    <3>1. net' = Listen(n, s)
      BY <2>2 DEF ListenVirtual
    <3> HIDE DEF n, s
    <3> QED BY <1>2, <3>1, ListenQuiet
  <2>3. CASE ShutdownVirtual(t, fd)
    <3>1. net' = Shutdown(n, s)
      BY <2>3 DEF ShutdownVirtual
    <3> HIDE DEF n, s
    <3> QED BY <1>2, <3>1, ShutdownQuiet
  <2>4. CASE SendVirtual(t, fd)
    <3>1. net' = n \/ net' = SendTo(n, s)
      BY <2>4 DEF SendVirtual
    <3> HIDE DEF n, s
    <3> QED BY <1>2, <3>1, SendOK, QuietRefl
  <2>5. CASE \E flag \in BOOLEAN : FcntlVirtual(t, fd, flag) \/ SetBroadcast(t, fd, flag)
    <3>1. PICK flag \in BOOLEAN : \/ net' = [n EXCEPT !.sock[s].blocking = flag]
                                  \/ net' = [n EXCEPT !.sock[s].broadcast = flag]
      BY <2>5 DEF FcntlVirtual, SetBroadcast
    <3> HIDE DEF n, s
    <3> QED BY <1>2, <3>1, FlagsQuiet
  <2>6. CASE GetSockOptVirtual(t, fd) \/ Poll(t, fd)
    <3>1. net' = n
      BY <2>6 DEF GetSockOptVirtual, Poll
    <3> HIDE DEF n, s
    <3> QED BY <1>2, <3>1, QuietRefl
  <2> QED BY <2>1, <2>2, <2>3, <2>4, <2>5, <2>6
<1> HIDE DEF n, s
<1>4. NetInv(net', entry', call)
  BY <1>2, <1>3
<1> QED BY <1>1, <1>4, Settle DEF BsdInv

\* close, with and without an emulated socket to delete.
LEMMA CloseKeeps ==
    ASSUME BsdInv, NEW t \in Threads, NEW fd \in Fds, CloseFd(t, fd)
    PROVE  BsdInv'
<1> DEFINE v == entry[fd].vsock
<1>1. UNCHANGED <<worker, proxy, call>> /\ opened' \subseteq Fds
  BY DEF CloseFd, Calls, BsdInv
<1>2. CASE ~IsVirtual(fd)
  BY <1>1, <1>2, Settle DEF CloseFd, BsdInv
<1>3. CASE IsVirtual(fd) /\ v = NoSocket
  <2>1. [EmptyEntry EXCEPT !.proto = NoProtocol] = EmptyEntry
    BY DEF EmptyEntry
  <2>2. NetInv(net, entry', call)
    BY <1>3, <2>1, ResetKeeps DEF CloseFd, BsdInv
  <2> QED BY <1>1, <1>3, <2>2, Settle DEF CloseFd
<1>4. CASE IsVirtual(fd) /\ v # NoSocket
  <2>1. /\ worker = WorkerIdle /\ \A u \in Threads : call[u].op \notin {"connect", "receive"}
        /\ entry' = [entry EXCEPT ![fd] = EmptyEntry]
        /\ net' = Delete(UnregisterSocket(net, {v}), v)
    BY <1>4 DEF CloseFd, SocketsMutexFree, MapMutexFree
  <2>2. NetInv(net', entry', call)
    BY <1>4, <2>1, DeleteOK DEF BsdInv
  <2> QED BY <1>1, <2>2, Settle
<1> QED BY <1>2, <1>3, <1>4

\* recv of what is in the queue.
LEMMA ReceiveAtOnceKeeps ==
    ASSUME BsdInv, NEW t \in Threads, NEW fd \in Fds, NEW peek \in BOOLEAN,
           RecvAtOnce(t, fd, peek)
    PROVE  BsdInv'
<1> DEFINE v == entry[fd].vsock
<1>1. /\ UNCHANGED <<worker, proxy, entry, opened, call>> /\ v # NoSocket
      /\ net.sock[v].queue # <<>> /\ net' = ReceiveAtOnce(net, v, BufferSize, peek)
  BY DEF RecvAtOnce, Calls
<1>2. v \in Sockets /\ net \in NetStates
  BY <1>1 DEF BsdInv, NetInv, TableOK, Entries
<1>3. NetInv(net', entry, call)
  BY <1>1, <1>2, ReceiveQuiet, QuietKeeps DEF BsdInv
<1> QED BY <1>1, <1>3, Settle DEF BsdInv

\* The calls that go on to wait.
LEMMA WaitingCallKeeps ==
    ASSUME BsdInv, NEW t \in Threads, NEW fd \in Fds,
           \/ SendToLookup(t, fd) \/ Select(t, fd) \/ ConnectVirtual(t, fd)
           \/ \E peek \in BOOLEAN : RecvWaits(t, fd, peek)
           \/ AcceptVirtual(t, fd)
    PROVE  BsdInv'
<1> DEFINE n == GetVirtualSocket(fd)
           s == VirtualSocket(fd)
<1>1. /\ CanGet(fd) /\ call[t] = Returned /\ UNCHANGED <<worker, proxy, opened>>
      /\ KeepsSocket(fd, "Virtual") \/ KeepsSocket(fd, entry[fd].type)
  BY DEF SendToLookup, Select, ConnectVirtual, RecvWaits, AcceptVirtual, Calls
<1>2. entry[fd].type \in {"Real", "Virtual"}
  BY DEF BsdInv, NetInv, TableOK, Entries
<1>3. /\ s \in Sockets /\ IsOpen(n, s) /\ NetInv(n, entry', call)
      /\ n \in NetStates /\ PortsOK(n)
      /\ \A m : Ported(n, m, s) \/ Quiet(n, m, s) => NetInv(m, entry', call)
  BY <1>1, <1>2, Stage
<1>4. /\ net' = n \/ net' = RequestConnection(n, s)
      /\ \/ call' = call
         \/ \E op \in {"sendto", "select", "connect", "receive", "accept"}, peek \in BOOLEAN :
               call' = [call EXCEPT ![t] = Waiting(op, fd, s, peek)]
  <2> HIDE DEF s, n
  <2>2. CASE SendToLookup(t, fd)
    BY <2>2 DEF SendToLookup, s, n
  <2>3. CASE Select(t, fd)
    BY <2>3 DEF Select, s, n
  <2>4. CASE ConnectVirtual(t, fd)
    BY <2>4 DEF ConnectVirtual, s, n
  <2>5. CASE \E peek \in BOOLEAN : RecvWaits(t, fd, peek)
    BY <2>5 DEF RecvWaits, s, n
  <2>6. CASE AcceptVirtual(t, fd)
    BY <2>6 DEF AcceptVirtual, s, n
  <2> QED BY <2>2, <2>3, <2>4, <2>5, <2>6
<1> HIDE DEF n, s
<1>5. NetInv(net', entry', call) /\ IsOpen(net', s)
  <2>1. Ported(n, net', s) \/ Quiet(n, net', s)
    BY <1>3, <1>4, ConnectOK, QuietRefl
  <2> QED BY <1>3, <2>1 DEF Ported, Quiet, Local, IsOpen
<1>6. NetInv(net', entry', call')
  <2>1. CASE call' = call
    BY <1>5, <2>1
  <2>2. CASE call' # call
    <3>1. PICK op \in {"sendto", "select", "connect", "receive", "accept"}, peek \in BOOLEAN :
             call' = [call EXCEPT ![t] = Waiting(op, fd, s, peek)]
      BY <1>4, <2>2
    <3>2. NetInv(net', entry', [call EXCEPT ![t] = Waiting(op, fd, s, peek)])
      BY <1>1, <1>3, <1>5, WaitKeeps
    <3> QED BY <3>1, <3>2
  <2> QED BY <2>1, <2>2
<1> QED BY <1>1, <1>6, Settle DEF BsdInv

\* Every call of the game keeps the invariant.
LEMMA GameCallKeeps ==
    ASSUME BsdInv, NEW t \in Threads, NEW fd \in Fds, GameCall(t, fd)
    PROVE  BsdInv'
BY SocketKeeps, SimpleCallKeeps, CloseKeeps, ReceiveAtOnceKeeps, WaitingCallKeeps
   DEF GameCall

\* A list of no ports is in order.
LEMMA EmptyPool == PoolOK(<<>>)
BY DEF PoolOK, Sorted

(***************************************************************************)
(* Threads that go on.                                                     *)
(***************************************************************************)
\* A thread that waits has a descriptor and a socket, which may be deleted by now.
LEMMA WaiterType ==
    ASSUME BsdInv, NEW t \in Threads, call[t].op # "none"
    PROVE  /\ call[t] \in CallStates /\ call[t].fd \in Fds /\ call[t].s \in Sockets
           /\ call[t].peek \in BOOLEAN /\ net \in NetStates /\ PortsOK(net)
BY DEF BsdInv, NetInv, CallsOK, CallStates, Returned

\* What keeps the ports keeps them in order and different.
LEMMA PortsKept ==
    ASSUME NEW n, NEW m, NEW s \in Sockets, Local(n, m, s), SamePort(n, m, s)
    PROVE  /\ PortsOK(n) => PortsOK(m)
           /\ UniqueIn(n, Sockets) => UniqueIn(m, Sockets)
BY DEF PortsOK, UniqueIn, HasPort, IsOpen, Local, SamePort

\* A change of the requests of s.
LEMMA RequestsKeep ==
    ASSUME NEW n, NEW m, NEW e, NEW c, NEW d, NEW s \in Sockets, NetInv(n, e, c),
           Local(n, m, s), SamePort(n, m, s), CallsOK(n, d), RequestsOK(m, d)
    PROVE  NetInv(m, e, d)
<1>1. /\ m \in NetStates /\ Routed(m) /\ TableOK(m, e)
  BY LocalKeeps
<1>2. PortsOK(m) /\ UniqueIn(m, Sockets)
  BY PortsKept DEF NetInv
<1>3. CallsOK(m, d)
  <2>1. \A t \in Threads : d[t].op \in {"connect", "receive"} => d[t].s \in Sockets
    BY DEF CallsOK, CallStates, Returned
  <2>2. \A r \in Sockets : IsOpen(n, r) => IsOpen(m, r)
    BY DEF Local, IsOpen
  <2> QED BY <2>1, <2>2 DEF CallsOK
<1> QED BY <1>1, <1>2, <1>3 DEF NetInv

\* Waits that end without touching requests or table.
LEMMA PlainWakeKeeps ==
    ASSUME BsdInv, NEW t \in Threads,
           \/ SendToSocket(t) \/ SelectReturns(t) \/ ConnectWakes(t) \/ RecvWakes(t)
           \/ AcceptFails(t)
    PROVE  BsdInv'
<1> DEFINE s == call[t].s
<1>1. /\ call[t].op # "none" /\ call[t].op # "acceptLock"
      /\ call' = [call EXCEPT ![t] = Returned] /\ UNCHANGED <<worker, proxy, entry, opened>>
  BY DEF SendToSocket, SelectReturns, ConnectWakes, RecvWakes, AcceptFails
<1>2. s \in Sockets /\ net \in NetStates /\ PortsOK(net) /\ NetInv(net, entry, call)
  BY <1>1, WaiterType DEF BsdInv
<1>3. NetInv(net', entry, call)
  <2>1. CASE SendToSocket(t)
    <3>1. net' = SendTo(net, s) /\ IsOpen(net, s)
      BY <2>1 DEF SendToSocket, Open, IsOpen
    <3> QED BY <1>2, <3>1, SendOK, PortedKeeps
  <2>2. CASE SelectReturns(t) \/ AcceptFails(t)
    BY <1>2, <2>2 DEF SelectReturns, AcceptFails
  <2>3. CASE ConnectWakes(t)
    <3>1. Quiet(net, net', s)
      BY <1>2, <2>3, FlagsQuiet DEF ConnectWakes
    <3> QED BY <1>2, <3>1, QuietKeeps
  <2>4. CASE RecvWakes(t)
    <3> DEFINE m == [net EXCEPT !.sock[s].receiveEvent = FALSE]
    <3>1. Quiet(net, m, s)
      BY <1>2, FlagsQuiet
    <3>2. net' = ReceiveAfterWait(m, s, call[t].peek)
      BY <2>4 DEF RecvWakes
    <3> HIDE DEF m, s
    <3>3. m \in NetStates
      BY <3>1 DEF Quiet, Local
    <3>4. Quiet(m, net', s)
      BY <1>2, <3>2, <3>3, ReceiveQuiet
    <3> QED BY <1>2, <3>1, <3>4, QuietTrans, QuietKeeps
  <2> QED BY <2>1, <2>2, <2>3, <2>4
<1>4. NetInv(net', entry, call')
  BY <1>1, <1>3, ReturnKeeps
<1> QED BY <1>1, <1>4, Settle DEF BsdInv

\* The event is cleared by the thread that takes it up.
LEMMA AcceptWakesKeeps ==
    ASSUME BsdInv, NEW t \in Threads, AcceptWakes(t)
    PROVE  BsdInv'
<1> DEFINE s == call[t].s
           x == [net.sock[s] EXCEPT !.acceptEvent = FALSE]
           m == [net EXCEPT !.sock[s] = x]
<1>1. /\ call[t].op = "accept" /\ net' = m /\ UNCHANGED <<worker, proxy, entry, opened>>
      /\ call' = [call EXCEPT ![t].op = "acceptLock"]
  BY DEF AcceptWakes
<1>2. s \in Sockets /\ net \in NetStates /\ call[t] \in CallStates /\ call \in [Threads -> CallStates]
  BY <1>1, WaiterType DEF BsdInv, NetInv, CallsOK
<1>3. /\ x \in SocketStates /\ x.life = net.sock[s].life /\ x.proto = net.sock[s].proto
      /\ x.children = net.sock[s].children /\ x.port = net.sock[s].port
  <2>1. net.sock[s] \in SocketStates
    BY <1>2, SocketState
  <2> QED BY <2>1 DEF SocketStates
<1>4. call' \in [Threads -> CallStates] /\ call'[t].op = "acceptLock" /\ call'[t].s = s
      /\ \A u \in Threads : u # t => call'[u] = call[u]
  <2>1. [call[t] EXCEPT !.op = "acceptLock"] \in CallStates
        /\ [call[t] EXCEPT !.op = "acceptLock"].op = "acceptLock"
        /\ [call[t] EXCEPT !.op = "acceptLock"].s = s
    BY <1>1, <1>2 DEF CallStates, Returned
  <2>2. call' = [call EXCEPT ![t] = [call[t] EXCEPT !.op = "acceptLock"]]
    BY <1>1
  <2> QED BY <1>2, <2>1, <2>2
<1> HIDE DEF x
<1>5. Local(net, net', s) /\ SamePort(net, net', s)
  BY <1>1, <1>2, <1>3, ReplaceSocket DEF SamePort
<1>6. CallsOK(net, call')
  BY <1>4 DEF BsdInv, NetInv, CallsOK
<1>7. RequestsOK(net', call')
  BY <1>1, <1>4, <1>5 DEF BsdInv, NetInv, RequestsOK, Local, IsOpen
<1> HIDE DEF s, m
<1>8. NetInv(net', entry, call')
  BY <1>2, <1>5, <1>6, <1>7, RequestsKeep DEF BsdInv, s
<1> QED BY <1>1, <1>8, Settle DEF BsdInv

\* A thread that has looked at the queue leaves requests in it only with the
\* event set.
LEMMA TakeRequestOK ==
    ASSUME NEW x \in SocketStates
    PROVE  LET y == TakeRequest(x).sock
           IN  /\ y \in SocketStates /\ y.life = x.life /\ y.proto = x.proto
               /\ y.children = x.children /\ y.port = x.port
               /\ y.requests # <<>> => y.acceptEvent
<1> DEFINE q == x.requests
           R == [dest : {"local", "broadcast"}, port : PortValues]
           Mine == {j \in 1 .. Len(q) : q[j].dest = "local" /\ q[j].port = x.port}
           i == IF Mine = {} THEN Len(q)
                ELSE CHOOSE k \in Mine : \A j \in Mine : k <= j
           rest == SubSeq(q, i + 1, Len(q))
           event == x.acceptEvent \/ Len(q) > 1
           y == [x EXCEPT !.requests = rest, !.acceptEvent = event]
<1>1. q \in Seq(R) /\ Len(q) \in Nat
  BY DEF SocketStates
<1>2. i \in 0 .. Len(q) /\ (Len(q) > 0 => i > 0)
  <2>1. CASE Mine = {}
    BY <1>1, <2>1
  <2>2. CASE Mine # {}
    <3>1. Mine \in SUBSET Nat
      BY <1>1
    <3>2. \E k \in Mine : \A j \in Mine : k <= j
      BY <2>2, <3>1, LeastNumber
    <3>3. i \in Mine
      BY <2>2, <3>2
    <3> HIDE DEF i
    <3> QED BY <1>1, <3>3
  <2> QED BY <2>1, <2>2
<1> HIDE DEF i, R
<1>3. rest \in Seq(R) /\ (rest # <<>> => Len(q) > 1)
  <2>1. \A j \in i + 1 .. Len(q) : q[j] \in R
    BY <1>1, <1>2
  <2>2. i + 1 \in Int /\ Len(q) \in Int
    BY <1>1, <1>2
  <2>3. rest \in Seq(R)
    BY <2>1, <2>2, SubSeqProperties
  <2>4. Len(q) < i + 1 => rest = <<>>
    BY <2>2, SubSeqEmpty
  <2>5. Len(q) <= 1 => Len(q) < i + 1
    BY <1>1, <1>2
  <2> QED BY <1>1, <2>3, <2>4, <2>5
<1>4. event \in BOOLEAN /\ (rest # <<>> => event)
  BY <1>3 DEF SocketStates
<1> HIDE DEF rest, event
<1>5. /\ y \in SocketStates /\ y.life = x.life /\ y.proto = x.proto
      /\ y.children = x.children /\ y.port = x.port /\ y.requests = rest
      /\ y.acceptEvent = event
  BY <1>3, <1>4 DEF SocketStates, R
<1>6. TakeRequest(x).sock = y
  BY DEF TakeRequest, rest, event, i
<1> QED BY <1>4, <1>5, <1>6

\* The woken thread has looked at the queue: from here the event speaks for it.
LEMMA AcceptTakesKeeps ==
    ASSUME BsdInv, NEW t \in Threads, AcceptTakes(t)
    PROVE  BsdInv'
<1> DEFINE s == call[t].s
           y == TakeRequest(net.sock[s]).sock
           op == IF TakeRequest(net.sock[s]).found THEN "acceptRegister" ELSE "accept"
<1>1. /\ call[t].op = "acceptLock" /\ net' = [net EXCEPT !.sock[s] = y]
      /\ UNCHANGED <<worker, proxy, entry, opened>> /\ call' = [call EXCEPT ![t].op = op]
  BY DEF AcceptTakes
<1>2. s \in Sockets /\ net \in NetStates /\ call[t] \in CallStates /\ call \in [Threads -> CallStates]
  BY <1>1, WaiterType DEF BsdInv, NetInv, CallsOK
<1>3. /\ y \in SocketStates /\ y.life = net.sock[s].life /\ y.proto = net.sock[s].proto
      /\ y.children = net.sock[s].children /\ y.port = net.sock[s].port
      /\ y.requests # <<>> => y.acceptEvent
  BY <1>2, SocketState, TakeRequestOK
<1>4. op \in {"acceptRegister", "accept"}
  OBVIOUS
<1> HIDE DEF y, op
<1>5. call' \in [Threads -> CallStates] /\ call'[t].op = op
      /\ \A u \in Threads : u # t => call'[u] = call[u]
  <2>1. [call[t] EXCEPT !.op = op] \in CallStates /\ [call[t] EXCEPT !.op = op].op = op
    BY <1>1, <1>2, <1>4 DEF CallStates, Returned
  <2>2. call' = [call EXCEPT ![t] = [call[t] EXCEPT !.op = op]]
    BY <1>1
  <2> QED BY <1>2, <2>1, <2>2
<1>6. Local(net, net', s) /\ SamePort(net, net', s) /\ net'.sock[s] = y
  BY <1>1, <1>2, <1>3, ReplaceSocket DEF SamePort
<1>7. CallsOK(net, call')
  BY <1>4, <1>5 DEF BsdInv, NetInv, CallsOK
<1>8. RequestsOK(net', call')
  BY <1>3, <1>5, <1>6 DEF BsdInv, NetInv, RequestsOK, Local, IsOpen
<1> HIDE DEF s
<1>9. NetInv(net', entry, call')
  BY <1>2, <1>6, <1>7, <1>8, RequestsKeep DEF BsdInv, s
<1> QED BY <1>1, <1>9, Settle DEF BsdInv

\* The accepted socket, which is in no descriptor's entry, becomes a child.
LEMMA ChildKeeps ==
    ASSUME NEW n, NEW e, NEW c, NetInv(n, e, c), NEW s \in Sockets, NEW q \in Sockets,
           n.sock[q].life # "unused", \A fd \in Fds : e[fd].vsock # q
    PROVE  NetInv([n EXCEPT !.sock[s].children = @ \cup {q}], e, c)
<1> DEFINE x == [n.sock[s] EXCEPT !.children = @ \cup {q}]
           m == [n EXCEPT !.sock[s] = x]
<1>1. n \in NetStates /\ n.sock[s] \in SocketStates
  BY SocketState DEF NetInv
<1>2. /\ x \in SocketStates /\ x.life = n.sock[s].life /\ x.proto = n.sock[s].proto
      /\ x.children = n.sock[s].children \cup {q} /\ x.port = n.sock[s].port
      /\ x.requests = n.sock[s].requests /\ x.acceptEvent = n.sock[s].acceptEvent
  <2>1. n.sock[s].children \cup {q} \in SUBSET Sockets
    BY <1>1 DEF SocketStates
  <2> QED BY <1>1, <2>1 DEF SocketStates
<1>3. [n EXCEPT !.sock[s].children = @ \cup {q}] = m
  BY <1>1 DEF NetStates
<1> HIDE DEF x
<1>4. /\ m \in NetStates /\ m.sock[s] = x /\ m.ports = n.ports /\ m.registered = n.registered
      /\ \A r \in Sockets : r # s => m.sock[r] = n.sock[r]
  BY <1>1, <1>2 DEF NetStates
<1> HIDE DEF m
<1>5. \A r \in Sockets : /\ IsOpen(m, r) <=> IsOpen(n, r)
                         /\ m.sock[r].life = n.sock[r].life
                         /\ m.sock[r].proto = n.sock[r].proto
                         /\ m.sock[r].port = n.sock[r].port
                         /\ m.sock[r].requests = n.sock[r].requests
                         /\ m.sock[r].acceptEvent = n.sock[r].acceptEvent
                         /\ m.sock[r].children \subseteq n.sock[r].children \cup {q}
  BY <1>2, <1>4 DEF IsOpen
<1>6. PortsOK(m) /\ (UniqueIn(n, Sockets) => UniqueIn(m, Sockets))
  BY <1>4, <1>5 DEF NetInv, PortsOK, UniqueIn, HasPort
<1>7. Routed(m)
  BY <1>4, <1>5 DEF NetInv, Routed
<1>8. TableOK(m, e)
  <2>1. \A fd \in Fds : e[fd].vsock # NoSocket => e[fd].vsock \in Sockets
    BY DEF NetInv, TableOK, Entries
  <2>2. \A r \in Sockets : m.sock[r].children \subseteq Sockets
    BY <1>4, SocketState DEF SocketStates
  <2>3. \A r \in Sockets : \A k \in m.sock[r].children :
           m.sock[k].life # "unused" /\ \A fd \in Fds : e[fd].vsock # k
    BY <1>5, <2>2 DEF NetInv, TableOK
  <2> QED BY <1>5, <2>1, <2>3 DEF NetInv, TableOK
<1>9. CallsOK(m, c)
  <2>1. \A t \in Threads : c[t].op \in {"connect", "receive"} => c[t].s \in Sockets
    BY DEF NetInv, CallsOK, CallStates, Returned
  <2> QED BY <1>5, <2>1 DEF NetInv, CallsOK
<1>10. RequestsOK(m, c)
  BY <1>5 DEF NetInv, RequestsOK
<1> QED BY <1>3, <1>4, <1>6, <1>7, <1>8, <1>9, <1>10 DEF NetInv

\* Accept constructs the accepted socket, gives it a port and makes it a child.
LEMMA AcceptRegistersKeeps ==
    ASSUME BsdInv, NEW t \in Threads, AcceptRegisters(t)
    PROVE  BsdInv'
<1> DEFINE l == call[t].s
           n == Construct(net, Fresh, net.sock[l].proto)
           k == [n EXCEPT !.sock[Fresh].connected = TRUE]
           m == EnsureLocalEndpoint(k, Fresh, TRUE)
<1>1. /\ call[t].op = "acceptRegister" /\ proxy = "up" /\ UNCHANGED <<worker, proxy, opened>>
      /\ Unallocated # {} /\ call' = [call EXCEPT ![t] = Returned]
      /\ net' = [m EXCEPT !.sock[l].children = @ \cup {Fresh}]
      /\ entry' = [entry EXCEPT ![AcceptFd].type = "Virtual",
                                ![AcceptFd].proto = entry[call[t].fd].proto]
  BY DEF AcceptRegisters, AsAccepted
<1>2. /\ l \in Sockets /\ call[t].fd \in Fds /\ net \in NetStates
      /\ NetInv(net, entry, call) /\ entry \in [Fds -> Entries]
  BY <1>1, WaiterType DEF BsdInv, NetInv, TableOK
<1>3. Fresh \in Sockets /\ net.sock[Fresh].life = "unused" /\ \A fd \in Fds : entry[fd].vsock # Fresh
  BY <1>1, <1>2, FreshOK, NoSocketIsNone DEF NetInv, TableOK, IsOpen
<1>4. net.sock[l].proto \in Protocols \cup {NoProtocol}
  BY <1>2, SocketState DEF SocketStates
<1>5. NetInv(n, entry, call) /\ IsOpen(n, Fresh) /\ n \in NetStates
  <2> DEFINE p == net.sock[l].proto
  <2>1. /\ NetInv(net, entry, call) /\ proxy = "up" /\ Fresh \in Sockets
        /\ net.sock[Fresh].life = "unused" /\ p \in Protocols \cup {NoProtocol}
    BY <1>1, <1>2, <1>3, <1>4
  <2> HIDE DEF p
  <2>2. LET g == Construct(net, Fresh, p)
        IN  NetInv(g, entry, call) /\ g.sock[Fresh] = NewSocket(p)
    BY <2>1, ConstructOK
  <2>3. NetInv(n, entry, call) /\ n.sock[Fresh] = NewSocket(p)
    BY <2>2 DEF p
  <2> HIDE DEF n
  <2> QED BY <2>3 DEF IsOpen, NewSocket, NetInv
<1> HIDE DEF n
<1>6. NetInv(k, entry, call) /\ IsOpen(k, Fresh) /\ k \in NetStates
  <2>1. Quiet(n, k, Fresh)
    BY <1>3, <1>5, FlagsQuiet
  <2> QED BY <1>3, <1>5, <2>1, QuietKeeps DEF Quiet, Local, IsOpen
<1> HIDE DEF k
<1>7. NetInv(m, entry, call) /\ IsOpen(m, Fresh)
  <2>1. Ported(k, m, Fresh)
    BY <1>3, <1>6, EnsureOK DEF NetInv
  <2> QED BY <1>3, <1>6, <2>1, PortedKeeps DEF Ported, Local, IsOpen
<1> HIDE DEF m
<1>8. NetInv(net', entry, call)
  <2>1. m.sock[Fresh].life # "unused"
    BY <1>7 DEF IsOpen
  <2> QED BY <1>1, <1>2, <1>3, <1>7, <2>1, ChildKeeps
<1>9. entry' \in [Fds -> Entries] /\ \A fd \in Fds : entry'[fd].vsock = entry[fd].vsock
  <2>1. CASE AcceptFd \in Fds
    <3> DEFINE x == [entry[AcceptFd] EXCEPT !.type = "Virtual", !.proto = entry[call[t].fd].proto]
    <3>1. x \in Entries /\ x.vsock = entry[AcceptFd].vsock
      BY <1>2, <2>1 DEF Entries
    <3>2. entry' = [entry EXCEPT ![AcceptFd] = x]
      BY <1>1, <1>2, <2>1
    <3> HIDE DEF x
    <3> QED BY <1>2, <2>1, <3>1, <3>2
  <2>2. CASE AcceptFd \notin Fds
    BY <1>1, <1>2, <2>2
  <2> QED BY <2>1, <2>2
<1>10. NetInv(net', entry', call)
  BY <1>8, <1>9, EntryKeeps
<1>11. NetInv(net', entry', call')
  <2>1. call[t].op # "acceptLock"
    BY <1>1
  <2>2. NetInv(net', entry', [call EXCEPT ![t] = Returned])
    BY <1>10, <2>1, ReturnKeeps
  <2> QED BY <1>1, <2>2
<1> QED BY <1>1, <1>11, Settle DEF BsdInv

\* Every step of a waiting thread keeps the invariant.
LEMMA ThreadKeeps ==
    ASSUME BsdInv, NEW t \in Threads, ThreadStep(t)
    PROVE  BsdInv'
BY PlainWakeKeeps, AcceptWakesKeeps, AcceptTakesKeeps, AcceptRegistersKeeps DEF ThreadStep

(***************************************************************************)
(* The worker.                                                             *)
(***************************************************************************)
\* What the worker hands to a socket.
LEMMA HandleOK ==
    ASSUME NEW n, NEW e, NEW c, NetInv(n, e, c), NEW s \in Sockets, NEW pkt \in Packets
    PROVE  LET m == Handle(n, s, pkt)
           IN  NetInv(m, e, c) /\ \A r \in Sockets : IsOpen(m, r) <=> IsOpen(n, r)
<1> DEFINE m == Handle(n, s, pkt)
<1>1. n \in NetStates
  BY DEF NetInv
<1>2. pkt.kind \in {"connect", "accepted", "refused", "data", "disconnect"}
  BY DEF Packets
<1>3. CASE pkt.kind = "connect"
  <2>1. m = IncomingConnectionRequest(n, s, pkt)
    BY <1>3 DEF Handle
  <2>2. Local(n, m, s) /\ SamePort(n, m, s) /\ m.sock[s].acceptEvent
    BY <1>1, <2>1, RequestLocal
  <2> HIDE DEF m
  <2>3. CallsOK(n, c) /\ RequestsOK(m, c)
    BY <2>2 DEF NetInv, RequestsOK, Local, IsOpen
  <2>4. NetInv(m, e, c)
    BY <2>2, <2>3, RequestsKeep
  <2> QED BY <2>2, <2>4 DEF Local, IsOpen, m
<1>4. CASE pkt.kind # "connect"
  <2>1. Quiet(n, m, s)
    <3>1. CASE pkt.kind \in {"accepted", "refused"}
      <4>1. m = HandleConnectResponse(n, s, pkt.kind = "accepted")
        BY <3>1 DEF Handle
      <4> QED BY <1>1, <4>1, ResponseQuiet
    <3>2. CASE pkt.kind = "data"
      BY <1>1, <3>2, DataQuiet DEF Handle
    <3>3. CASE pkt.kind = "disconnect"
      BY <1>1, <3>3, FlagsQuiet DEF Handle, Disconnect
    <3> QED BY <1>2, <1>4, <3>1, <3>2, <3>3
  <2> HIDE DEF m
  <2>2. NetInv(m, e, c)
    BY <2>1, QuietKeeps
  <2> QED BY <2>1, <2>2 DEF Quiet, Local, IsOpen, m
<1> QED BY <1>3, <1>4

\* Every step of the worker, and Dispose, keep the invariant.
LEMMA WorkerKeeps == ASSUME BsdInv, WorkerStep PROVE BsdInv'
<1>1. /\ UNCHANGED <<entry, opened, call>>
      /\ NetInv(net, entry, call) /\ opened \subseteq Fds
  BY DEF WorkerStep, BsdInv
<1>2. net \in NetStates /\ Routed(net)
  BY <1>1 DEF NetInv
<1>3. ASSUME NetInv(net', entry, call), Routed(net)' PROVE BsdInv'
  BY <1>1, <1>3 DEF NetInv, BsdInv
<1>4. ASSUME NEW pkt \in Packets, ForRoutedSockets(pkt) PROVE BsdInv'
  <2>1. /\ worker' = [pkt |-> pkt, todo |-> net.registered] /\ UNCHANGED <<net, proxy>>
        /\ proxy = "up"
    BY <1>4 DEF ForRoutedSockets
  <2>2. net.registered \in [Sockets -> 0 .. 2]
    BY <1>2 DEF NetStates
  <2>3. Routed(net)'
    BY <1>2, <2>1, <2>2 DEF Routed, IsOpen
  <2> QED BY <1>1, <1>3, <2>1, <2>3
<1>5. ASSUME NEW s \in Sockets, RouteTo(s, RequestsHeld) PROVE BsdInv'
  <2>1. /\ worker.todo[s] > 0 /\ net' = Handle(net, s, worker.pkt)
        /\ worker' = [worker EXCEPT !.todo[s] = @ - 1] /\ UNCHANGED proxy
    BY <1>5 DEF RouteTo
  <2>2. worker.pkt \in Packets
    BY <1>2, <2>1 DEF Routed, WorkerIdle, NoTodo
  <2>3. NetInv(net', entry, call) /\ \A r \in Sockets : IsOpen(net', r) <=> IsOpen(net, r)
    BY <1>1, <2>1, <2>2, HandleOK
  <2>4. /\ worker \in [pkt : Packets \cup {NoPacket}, todo : [Sockets -> 0 .. 2]]
        /\ worker.todo[s] \in 1 .. 2
    BY <1>2, <2>1 DEF Routed
  <2>5. worker.todo[s] - 1 \in 0 .. 2
    BY <2>4
  <2>6. /\ worker' \in [pkt : Packets \cup {NoPacket}, todo : [Sockets -> 0 .. 2]]
        /\ worker'.pkt = worker.pkt
        /\ \A r \in Sockets : worker'.todo[r] > 0 => worker.todo[r] > 0
    <3>1. [worker.todo EXCEPT ![s] = @ - 1] \in [Sockets -> 0 .. 2]
      BY <2>4, <2>5
    <3>2. worker' = [worker EXCEPT !.todo = [worker.todo EXCEPT ![s] = @ - 1]]
      BY <2>1
    <3> QED BY <2>1, <2>4, <2>5, <3>1, <3>2
  <2>7. Routed(net)'
    <3>1. proxy = "up" => \A r \in Sockets : net'.registered[r] > 0 <=> IsOpen(net', r)
      BY <2>3 DEF NetInv, Routed
    <3>2. \A r \in Sockets : worker'.todo[r] > 0 => IsOpen(net', r)
      BY <1>2, <2>3, <2>6 DEF Routed
    <3> QED BY <2>1, <2>2, <2>6, <3>1, <3>2 DEF Routed, IsOpen
  <2> QED BY <1>3, <2>3, <2>7
<1>6. CASE RouteEnd
  <2>1. worker' = WorkerIdle /\ UNCHANGED <<net, proxy>>
    BY <1>6 DEF RouteEnd
  <2>2. /\ WorkerIdle \in [pkt : Packets \cup {NoPacket}, todo : [Sockets -> 0 .. 2]]
        /\ \A s \in Sockets : ~(WorkerIdle.todo[s] > 0)
    BY DEF WorkerIdle, NoTodo
  <2>3. Routed(net)'
    BY <1>2, <2>1, <2>2 DEF Routed, IsOpen
  <2> QED BY <1>1, <1>3, <2>1, <2>3
<1>7. CASE Dispose
  <2>1. /\ proxy' = "gone" /\ net' = [net EXCEPT !.registered = NoTodo] /\ UNCHANGED worker
        /\ worker = WorkerIdle /\ proxy = "up"
    BY <1>7 DEF Dispose
  <2>2. NoTodo \in [Sockets -> 0 .. 2]
    BY DEF NoTodo
  <2>3. net' \in NetStates /\ net'.sock = net.sock /\ net'.ports = net.ports
    BY <1>2, <2>1, <2>2 DEF NetStates
  <2>4. Routed(net)'
    BY <1>2, <2>1, <2>3 DEF Routed, IsOpen
  <2>5. PortsOK(net') /\ UniqueIn(net', Sockets)
    BY <1>1, <2>3 DEF NetInv, PortsOK, UniqueIn, HasPort, IsOpen
  <2>6. TableOK(net', entry) /\ CallsOK(net', call) /\ RequestsOK(net', call)
    BY <1>1, <2>3 DEF NetInv, TableOK, CallsOK, RequestsOK, IsOpen
  <2> QED BY <1>1, <2>3, <2>4, <2>5, <2>6 DEF NetInv, BsdInv
<1> QED BY <1>4, <1>5, <1>6, <1>7 DEF WorkerStep

(***************************************************************************)
(* The theorems.                                                           *)
(***************************************************************************)
LEMMA InitInv == ASSUME Init PROVE BsdInv
<1>1. /\ net = [sock |-> [s \in Sockets |-> Unused], registered |-> [s \in Sockets |-> 0],
                ports |-> [proto \in Protocols |-> <<>>]]
      /\ worker = WorkerIdle /\ proxy = "up" /\ opened = {}
      /\ entry = [fd \in Fds |-> EmptyEntry] /\ call = [t \in Threads |-> Returned]
  BY DEF Init, NetInit
<1>2. Unused \in SocketStates /\ Unused.life = "unused" /\ Unused.children = {}
  <2>1. NewSocket("tcp") \in SocketStates /\ NewSocket("tcp").children = {}
    BY DEF NewSocket, SocketStates, PortValues, Protocols
  <2> HIDE DEF NewSocket
  <2> QED BY <2>1 DEF Unused, SocketStates
<1>3. PoolOK(<<>>) /\ <<>> \in Seq(EphemeralPorts)
  BY EmptyPool
<1> HIDE DEF Unused
<1>4. net \in NetStates /\ PortsOK(net)
  BY <1>1, <1>2, <1>3 DEF NetStates, PortsOK
<1>5. \A s \in Sockets : net.sock[s] = Unused /\ net.registered[s] = 0 /\ ~IsOpen(net, s)
  BY <1>1, <1>2 DEF IsOpen
<1>6. UniqueIn(net, Sockets) /\ RequestsOK(net, call)
  BY <1>5 DEF UniqueIn, HasPort, RequestsOK
<1>7. Routed(net)
  <2>1. /\ WorkerIdle \in [pkt : Packets \cup {NoPacket}, todo : [Sockets -> 0 .. 2]]
        /\ \A s \in Sockets : ~(WorkerIdle.todo[s] > 0)
    BY DEF WorkerIdle, NoTodo
  <2> QED BY <1>1, <1>5, <2>1 DEF Routed
<1>8. TableOK(net, entry)
  <2>1. EmptyEntry \in Entries /\ EmptyEntry.vsock = NoSocket
    BY DEF EmptyEntry, Entries
  <2> HIDE DEF EmptyEntry
  <2> QED BY <1>1, <1>2, <1>5, <2>1 DEF TableOK
<1>9. CallsOK(net, call)
  <2>1. Returned \in CallStates /\ Returned.op = "none"
    BY DEF CallStates, Returned
  <2> HIDE DEF Returned
  <2> QED BY <1>1, <2>1 DEF CallsOK
<1> QED BY <1>1, <1>4, <1>6, <1>7, <1>8, <1>9 DEF NetInv, BsdInv

\* The inductive invariant, for every number of threads, descriptors, sockets and
\* ports: the game's calls, the ends of its waits, and the packets the worker
\* routes keep sockets, table, port lists and waiting threads consistent.
THEOREM BsdInvariant == Spec => []BsdInv
<1>1. Init => BsdInv
  BY InitInv
<1>2. BsdInv /\ [Next]_vars => BsdInv'
  <2> SUFFICES ASSUME BsdInv, [Next]_vars PROVE BsdInv'
    OBVIOUS
  <2>1. CASE WorkerStep
    BY <2>1, WorkerKeeps
  <2>2. ASSUME NEW t \in Threads, ThreadStep(t) PROVE BsdInv'
    BY <2>2, ThreadKeeps
  <2>3. ASSUME NEW t \in Threads, NEW fd \in Fds, GameCall(t, fd) PROVE BsdInv'
    BY <2>3, GameCallKeeps
  <2>4. CASE UNCHANGED vars
    <3>1. UNCHANGED <<net, worker, proxy, entry, opened, call>>
      BY <2>4 DEF vars
    <3> QED BY <3>1, Settle DEF BsdInv
  <2> QED BY <2>1, <2>2, <2>3, <2>4 DEF Next
<1> QED BY <1>1, <1>2, PTL DEF Spec

\* Sockets, table and threads keep their types; a socket is in the proxy's list
\* at most twice, once by its constructor and once by GetVirtualSocket.
THEOREM BsdTypes == Spec => []TypeOK
<1>1. BsdInv => TypeOK
  <2> SUFFICES ASSUME BsdInv PROVE TypeOK
    OBVIOUS
  <2>1. \A s \in Sockets : /\ net.sock[s].port \in PortValues /\ net.registered[s] \in 0 .. 2
                           /\ net.sock[s].children \subseteq Sockets
    BY DEF BsdInv, NetInv, NetStates, SocketStates
  <2>2. \A t \in Threads : call[t].s \in Sockets \cup {NoSocket}
    BY DEF BsdInv, NetInv, CallsOK, CallStates, Returned
  <2> QED BY <2>1, <2>2 DEF BsdInv, NetInv, TableOK, TypeOK, PortValues
<1> QED BY <1>1, BsdInvariant, PTL

\* The list _sockets holds exactly the open sockets while the proxy exists, and
\* the worker, which walks a list it has read, never comes to a socket that Close
\* or the destructor has ended: UnregisterSocket waits for _socketsMutex.
THEOREM RoutedSocketsStayOpen == Spec => []RoutedSocketsAreOpen
<1>1. BsdInv => RoutedSocketsAreOpen
  BY DEF BsdInv, NetInv, Routed, RoutedSocketsAreOpen, Open, IsOpen
<1> QED BY <1>1, BsdInvariant, PTL

\* AllocatePort always finds the lists of ports sorted, without repetition and
\* within the range, however calls and packets are interleaved.
THEOREM PortListsStaySorted == Spec => []PortListsSorted
<1>1. BsdInv => PortListsSorted
  BY DEF BsdInv, NetInv, PortsOK, PoolOK, PortListsSorted, InUse
<1> QED BY <1>1, BsdInvariant, PTL

\* No two open sockets of a protocol have the same port of the pool's, and it is in
\* use there: through every sequence of Bind, Connect, SendTo and Accept, each of
\* which may give back the port it replaces, and of Close, which does not, also when
\* the game binds other ports of the range by number.
THEOREM EphemeralPortsStayUnique == Spec => []EphemeralPortsUnique
<1>1. BsdInv => EphemeralPortsUnique
  <2> SUFFICES ASSUME BsdInv PROVE EphemeralPortsUnique
    OBVIOUS
  <2>1. UniqueIn(net, Sockets)
    BY DEF BsdInv, NetInv
  <2> QED BY <2>1 DEF UniqueIn, HasPort, PoolPorts, IsOpen, Open, EphemeralPortsUnique
<1> QED BY <1>1, BsdInvariant, PTL

\* A thread that waits in connect, recv or recvfrom finds its socket there when
\* it goes on: what deletes a socket waits for socket_map_mutex.
THEOREM WaitersKeepSockets == Spec => []WaiterKeepsSocket
<1>1. BsdInv => WaiterKeepsSocket
  <2> SUFFICES ASSUME BsdInv, NEW t \in Threads, call[t].op \in {"connect", "receive"}
               PROVE  Open(call[t].s)
    BY DEF WaiterKeepsSocket
  <2>1. call[t].s \in Sockets
    BY WaiterType
  <2> QED BY <2>1 DEF BsdInv, NetInv, CallsOK, IsOpen, Open
<1> QED BY <1>1, BsdInvariant, PTL

\* A connection request in the queue of an open socket has _acceptEvent set or a
\* woken thread on its way to the queue, for any number of threads in accept on
\* one socket: the event clears itself when it wakes a thread, and is set again
\* by the thread that leaves requests behind.
THEOREM RequestsAreNotLost == Spec => []NoLostRequest
<1>1. BsdInv => NoLostRequest
  BY DEF BsdInv, NetInv, RequestsOK, NoLostRequest, Open, IsOpen
<1> QED BY <1>1, BsdInvariant, PTL
=============================================================================
