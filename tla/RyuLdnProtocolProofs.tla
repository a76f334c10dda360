------------------------ MODULE RyuLdnProtocolProofs ------------------------
(***************************************************************************)
(* FramingInv is an invariant for every stream, negative sizes included,   *)
(* every header size and limit, and however recv() cuts the stream.        *)
(***************************************************************************)
EXTENDS RyuLdnProtocol, TLAPS

\* The data behind a header, which is as much as its size says unless that is negative.
LEMMA DataIs ==
    ASSUME NEW i \in 1 .. Packets
    PROVE  /\ Size[i] \in Int /\ Data(i) \in Nat
           /\ Size[i] >= 0 => Data(i) = Size[i]
<1>1. Size[i] \in Int
  BY StreamAssumption
<1> QED BY <1>1 DEF Data

\* Two packets do not start at the same place.
LEMMA StartInjective ==
    ASSUME NEW i \in 1 .. Packets, NEW j \in 1 .. Packets + 1,
           Start[i] = Start[j]
    PROVE  i = j
<1>1. i \in Int /\ j \in Int /\ Start[i] \in Nat /\ Start[j] \in Nat /\ HeaderSize \in Nat \ {0}
      /\ Data(i) \in Nat
  BY StreamAssumption, DataIs
<1>2. ~(i < j)
  BY <1>1, StreamAssumption
<1>3. j < i => j \in 1 .. Packets /\ Data(j) \in Nat /\ Start[j] + HeaderSize + Data(j) <= Start[i]
  BY <1>1, StreamAssumption, DataIs
<1> QED BY <1>1, <1>2, <1>3

\* A packet starts behind another exactly when its header starts behind the
\* other's data.
LEMMA StartOrder ==
    ASSUME NEW i \in 1 .. Packets, NEW j \in 1 .. Packets + 1,
           Start[i] < Start[j]
    PROVE  i < j /\ Start[i] + HeaderSize + Data(i) <= Start[j]
<1>1. i \in Int /\ j \in Int /\ Start[i] \in Nat /\ Start[j] \in Nat /\ HeaderSize \in Nat \ {0}
  BY StreamAssumption
<1>2. j < i => j \in 1 .. Packets /\ Data(j) \in Nat /\ Start[j] + HeaderSize + Data(j) <= Start[i]
  BY <1>1, StreamAssumption, DataIs
<1>3. i < j
  BY <1>1, <1>2
<1> QED BY <1>3, StreamAssumption

\* A header that starts inside the stream and is complete belongs to a packet
\* that lies in it.
LEMMA InStream ==
    /\ End \in Nat
    /\ \A i \in 1 .. Packets : /\ Start[i] \in Nat /\ Data(i) \in Nat
                               /\ Start[i] + HeaderSize + Data(i) <= End
<1>1. Packets \in Nat /\ Start \in [1 .. Packets + 1 -> Nat]
  BY StreamAssumption
<1>2. Packets + 1 \in 1 .. Packets + 1 /\ End \in Nat
  BY <1>1 DEF End
<1>3. ASSUME NEW i \in 1 .. Packets
      PROVE  /\ Start[i] \in Nat /\ Data(i) \in Nat
             /\ Start[i] + HeaderSize + Data(i) <= End
  <2>1. i \in 1 .. Packets + 1 /\ i < Packets + 1
    BY <1>1
  <2>2. Start[i] \in Nat
    BY <1>1, <2>1
  <2>3. Start[i] + HeaderSize + Data(i) <= Start[Packets + 1]
    BY <1>2, <2>1, StreamAssumption
  <2> QED BY <2>2, <2>3, DataIs DEF End
<1> QED BY <1>2, <1>3

LEMMA EndOfPacket ==
    ASSUME NEW i \in 1 .. Packets
    PROVE  Start[i] + HeaderSize + Data(i) \in Int
BY InStream, StreamAssumption

LEMMA LeastIs ==
    ASSUME NEW a \in Int, NEW b \in Int
    PROVE  /\ Least(a, b) \in Int /\ Least(a, b) <= a /\ Least(a, b) <= b
           /\ Least(a, b) = a \/ Least(a, b) = b
BY DEF Least

LEMMA HandledType ==
    ASSUME NEW S, NEW h \in Seq(S)
    PROVE  Len(h) \in Nat /\ \A k \in 1 .. Len(h) : h[k] \in S
OBVIOUS

\* A packet that starts at the header goes behind those already handled.
LEMMA HandlesNext ==
    ASSUME FramingInv, ~undefined, NEW i \in 1 .. Packets, HeaderAt = Start[i]
    PROVE  LET h == Append(handled, i)
           IN  /\ h \in Seq(1 .. Packets) /\ Len(h) = Len(handled) + 1
               /\ \A k \in 1 .. Len(handled) : h[k] = handled[k]
               /\ h[Len(handled) + 1] = i
               /\ \A k \in 1 .. Len(handled) : handled[k] < i
               /\ i \notin dropped
               /\ dropped = {} => i = Len(handled) + 1
<1> USE DEF FramingInv, TypeOK
<1>1. /\ Append(handled, i) \in Seq(1 .. Packets)
      /\ Len(Append(handled, i)) = Len(handled) + 1
      /\ \A k \in 1 .. Len(handled) : Append(handled, i)[k] = handled[k]
      /\ Append(handled, i)[Len(handled) + 1] = i
  OBVIOUS
<1>2. ASSUME NEW k \in 1 .. Len(handled) PROVE handled[k] < i
  <2>1. handled[k] \in 1 .. Packets
    BY HandledType
  <2>2. Start[handled[k]] + HeaderSize + Data(handled[k]) <= Start[i]
    BY DEF DealtWithIsBehind
  <2>3. Start[handled[k]] < Start[i]
    <3>1. Start[handled[k]] \in Nat /\ Data(handled[k]) \in Nat /\ HeaderSize \in Nat \ {0}
      BY <2>1, InStream, StreamAssumption
    <3> QED BY <3>1, <2>2, InStream
  <2>4. i \in 1 .. Packets + 1
    BY StreamAssumption
  <2> QED BY <2>1, <2>3, <2>4, StartOrder
<1>3. i \notin dropped
  BY InStream, StreamAssumption DEF DealtWithIsBehind
<1>4. dropped = {} => i = Len(handled) + 1
  <2> SUFFICES ASSUME dropped = {} PROVE i = Len(handled) + 1
    OBVIOUS
  <2>1. Start[i] = Start[Len(handled) + 1]
    BY DEF FramingExact
  <2>2. CASE Len(handled) + 1 \in 1 .. Packets + 1
    BY <2>1, <2>2, StartInjective
  <2>3. CASE Len(handled) + 1 \notin 1 .. Packets + 1
    <3>0. Len(handled) \in Nat /\ Packets \in Nat
      BY StreamAssumption, HandledType
    <3>1. Len(handled) \in Nat /\ Len(handled) > Packets /\ Packets \in Nat
      BY <2>3, <3>0
    <3>2. Len(handled) \in 1 .. Len(handled)
      BY <3>1
    <3>3. handled[Len(handled)] = Len(handled)
      BY <3>2 DEF FramingExact
    <3>4. handled[Len(handled)] \in 1 .. Packets
      BY <3>2, HandledType
    <3> QED BY <3>1, <3>3, <3>4
  <2> QED BY <2>2, <2>3
<1> QED BY <1>1, <1>2, <1>3, <1>4

\* Without a drop, a header that has begun is that of the next packet.
LEMMA ReadsNextHeader ==
    ASSUME FramingInv, ~undefined, dropped = {}, header > 0
    PROVE  Len(handled) + 1 \in 1 .. Packets /\ IsHeaderOf(Len(handled) + 1)
<1> USE DEF FramingInv, TypeOK
<1>1. Len(handled) \in Nat /\ Packets \in Nat /\ HeaderSize \in Nat \ {0}
  BY StreamAssumption, HandledType
<1>2. HeaderAt = Start[Len(handled) + 1]
  BY DEF FramingExact
<1>3. Len(handled) <= Packets
  <2> SUFFICES ASSUME Len(handled) > Packets PROVE FALSE
    BY <1>1
  <2>1. Len(handled) \in 1 .. Len(handled)
    BY <1>1
  <2>2. handled[Len(handled)] = Len(handled) /\ handled[Len(handled)] \in 1 .. Packets
    BY <2>1, HandledType DEF FramingExact
  <2> QED BY <1>1, <2>2
<1>4. Len(handled) # Packets
  <2> SUFFICES ASSUME Len(handled) = Packets PROVE FALSE
    OBVIOUS
  <2>1. HeaderAt = End
    BY <1>2 DEF End
  <2>2. pos \in Nat /\ left \in Nat /\ bufferEnd \in Nat /\ header \in Nat /\ End \in Nat
        /\ pos + left <= End
    BY <1>1, InStream
  <2> QED BY <2>1, <2>2 DEF HeaderAt
<1> QED BY <1>1, <1>2, <1>3, <1>4 DEF IsHeaderOf

\* A step that moves neither the header's place nor the two records of packets.
LEMMA SamePlace ==
    ASSUME FramingInv, ~undefined, HeaderAt' = HeaderAt, handled' = handled, dropped' = dropped
    PROVE  FramingExact' /\ HandledInOrder' /\ DealtWithIsBehind'
BY DEF FramingInv, FramingExact, HandledInOrder, DealtWithIsBehind

\* A step that moves on in the stream without handling a packet, once one has
\* been dropped.
LEMMA MovesOn ==
    ASSUME FramingInv, ~undefined, HeaderAt \in Int, HeaderAt' \in Int, HeaderAt <= HeaderAt',
           handled' = handled, dropped' = dropped, dropped # {}
    PROVE  FramingExact' /\ HandledInOrder' /\ DealtWithIsBehind'
<1> USE DEF FramingInv, TypeOK
<1>1. FramingExact' /\ HandledInOrder'
  BY DEF FramingExact, HandledInOrder
<1>2. ASSUME NEW k \in 1 .. Len(handled)
      PROVE  Start[handled[k]] + HeaderSize + Data(handled[k]) <= HeaderAt'
  <2>1. handled[k] \in 1 .. Packets
    BY HandledType
  <2>2. Start[handled[k]] + HeaderSize + Data(handled[k]) \in Int
    BY <2>1, EndOfPacket
  <2> QED BY <2>2 DEF DealtWithIsBehind
<1>3. ASSUME NEW i \in dropped PROVE Start[i] + HeaderSize <= HeaderAt'
  <2>1. Start[i] + HeaderSize \in Int
    BY InStream, StreamAssumption
  <2> QED BY <2>1 DEF DealtWithIsBehind
<1>4. DealtWithIsBehind'
  BY <1>2, <1>3 DEF DealtWithIsBehind
<1> QED BY <1>1, <1>4

\* A step that drops the packet at the header and moves behind that.
LEMMA DropsPacket ==
    ASSUME FramingInv, ~undefined, HeaderAt \in Int, HeaderAt' \in Int,
           NEW i \in 1 .. Packets, HeaderAt = Start[i],
           HeaderAt + HeaderSize <= HeaderAt',
           handled' = handled, dropped' = dropped \cup {i}
    PROVE  FramingExact' /\ HandledInOrder' /\ DealtWithIsBehind'
<1> USE DEF FramingInv, TypeOK
<1>0. HeaderSize \in Nat \ {0}
  BY StreamAssumption
<1>1. FramingExact'
  BY DEF FramingExact
<1>2. \A k \in 1 .. Len(handled) : handled[k] < i
  BY HandlesNext
<1>3. \A k \in 1 .. Len(handled) : handled[k] # i
  BY <1>2, HandledType
<1>4. HandledInOrder'
  BY <1>3 DEF HandledInOrder
<1>5. ASSUME NEW k \in 1 .. Len(handled)
      PROVE  Start[handled[k]] + HeaderSize + Data(handled[k]) <= HeaderAt'
  <2>1. handled[k] \in 1 .. Packets
    BY HandledType
  <2>2. Start[handled[k]] + HeaderSize + Data(handled[k]) \in Int
    BY <2>1, EndOfPacket
  <2>3. Start[handled[k]] + HeaderSize + Data(handled[k]) <= HeaderAt
    BY DEF DealtWithIsBehind
  <2> QED BY <1>0, <2>2, <2>3
<1>6. ASSUME NEW j \in dropped' PROVE Start[j] + HeaderSize <= HeaderAt'
  <2>1. CASE j = i
    BY <2>1
  <2>2. CASE j \in dropped
    <3>0. j \in 1 .. Packets
      BY <2>2
    <3>3. Start[j] \in Nat
      BY <3>0, InStream
    <3>4. HeaderSize \in Nat
      BY StreamAssumption
    <3>1. Start[j] + HeaderSize \in Int
      BY <3>3, <3>4
    <3>2. Start[j] + HeaderSize <= HeaderAt
      BY <2>2 DEF DealtWithIsBehind
    <3> QED BY <1>0, <3>1, <3>2
  <2> QED BY <2>1, <2>2
<1>7. DealtWithIsBehind'
  BY <1>5, <1>6 DEF DealtWithIsBehind
<1> QED BY <1>1, <1>4, <1>7

\* A step that handles the packet at the header and moves to its end.
LEMMA HandlesPacket ==
    ASSUME FramingInv, ~undefined, NEW i \in 1 .. Packets, HeaderAt = Start[i],
           HeaderAt' = Start[i] + HeaderSize + Data(i),
           handled' = Append(handled, i), dropped' = dropped
    PROVE  /\ handled' \in Seq(1 .. Packets)
           /\ FramingExact' /\ HandledInOrder' /\ DealtWithIsBehind'
<1> USE DEF FramingInv, TypeOK
<1> DEFINE n == Len(handled)
<1>0. n \in Nat /\ HeaderSize \in Nat \ {0} /\ Start[i] \in Nat /\ Data(i) \in Nat
  BY StreamAssumption, InStream, HandledType
<1>1. /\ handled' \in Seq(1 .. Packets) /\ Len(handled') = n + 1
      /\ \A k \in 1 .. n : handled'[k] = handled[k]
      /\ handled'[n + 1] = i
      /\ \A k \in 1 .. n : handled[k] < i
      /\ i \notin dropped
      /\ dropped = {} => i = n + 1
  BY HandlesNext
<1>2. FramingExact'
  <2> SUFFICES ASSUME dropped = {} PROVE FramingExact'
    BY DEF FramingExact
  <2>1. i = n + 1
    BY <1>1
  <2>2. HeaderAt' = Start[Len(handled') + 1]
    <3>1. Start[i + 1] = Start[i] + HeaderSize + Data(i)
      BY StreamAssumption
    <3> QED BY <1>1, <2>1, <3>1
  <2>3. ASSUME NEW k \in 1 .. Len(handled') PROVE handled'[k] = k
    <3>1. k \in 1 .. n \/ k = n + 1
      BY <1>0, <1>1
    <3> QED BY <1>1, <2>1, <3>1 DEF FramingExact
  <2> QED BY <2>2, <2>3 DEF FramingExact
<1>3. HandledInOrder'
  <2> SUFFICES ASSUME NEW k \in 1 .. Len(handled')
               PROVE  /\ \A j \in 1 .. k - 1 : handled'[j] < handled'[k]
                      /\ handled'[k] \notin dropped
    BY DEF HandledInOrder
  <2>1. CASE k \in 1 .. n
    <3>1. \A j \in 1 .. k - 1 : j \in 1 .. n
      BY <1>0, <2>1
    <3> QED BY <1>1, <2>1, <3>1 DEF HandledInOrder
  <2>2. CASE k = n + 1
    <3>1. \A j \in 1 .. k - 1 : j \in 1 .. n
      BY <1>0, <2>2
    <3> QED BY <1>1, <2>2, <3>1
  <2>3. k \in 1 .. n \/ k = n + 1
    BY <1>0, <1>1
  <2> QED BY <2>1, <2>2, <2>3
<1>4. DealtWithIsBehind'
  <2>1. ASSUME NEW k \in 1 .. Len(handled')
        PROVE  Start[handled'[k]] + HeaderSize + Data(handled'[k]) <= HeaderAt'
    <3>1. CASE k \in 1 .. n
      <4>1. handled[k] \in 1 .. Packets
        BY <3>1, HandledType
      <4>2. Start[handled[k]] + HeaderSize + Data(handled[k]) \in Int
        BY <4>1, EndOfPacket
      <4>3. Start[handled[k]] + HeaderSize + Data(handled[k]) <= Start[i]
        BY <3>1 DEF DealtWithIsBehind
      <4> QED BY <1>0, <1>1, <3>1, <4>2, <4>3
    <3>2. CASE k = n + 1
      BY <1>0, <1>1, <3>2
    <3>3. k \in 1 .. n \/ k = n + 1
      BY <1>0, <1>1
    <3> QED BY <3>1, <3>2, <3>3
  <2>2. ASSUME NEW j \in dropped PROVE Start[j] + HeaderSize <= HeaderAt'
    <3>1. Start[j] + HeaderSize \in Int
      BY <1>0, InStream
    <3>2. Start[j] + HeaderSize <= Start[i]
      BY DEF DealtWithIsBehind
    <3>3. Start[i] <= HeaderAt' /\ HeaderAt' \in Int
      BY <1>0
    <3> QED BY <1>0, <3>1, <3>2, <3>3
  <2> QED BY <2>1, <2>2 DEF DealtWithIsBehind
<1> QED BY <1>1, <1>2, <1>3, <1>4

\* Reading a header from its start is well-typed.
LEMMA ResetType ==
    ASSUME pos \in Nat, left \in Nat, pos + left <= End,
           header = 0, bufferEnd = 0, inPacket = FALSE,
           handled \in Seq(1 .. Packets), dropped \subseteq 1 .. Packets,
           undefined = FALSE
    PROVE  TypeOK /\ CollectsOnePacket
<1>1. HeaderSize \in Nat /\ End \in Nat
  BY InStream, StreamAssumption
<1>2. header \in Nat /\ header <= HeaderSize /\ bufferEnd \in Nat
  BY <1>1
<1>3. inPacket \in BOOLEAN
  BY Zenon
<1>4. TypeOK
  BY <1>2, <1>3, Zenon DEF TypeOK
<1>5. CollectsOnePacket
  BY DEF CollectsOnePacket
<1> QED BY <1>4, <1>5

\* The same of the state after a step.
LEMMA ResetTypePrime ==
    ASSUME pos' \in Nat, left' \in Nat, pos' + left' <= End,
           header' = 0, bufferEnd' = 0, inPacket' = FALSE,
           handled' \in Seq(1 .. Packets), dropped' \subseteq 1 .. Packets,
           undefined' = FALSE
    PROVE  TypeOK' /\ CollectsOnePacket'
<1>1. HeaderSize \in Nat /\ End \in Nat
  BY InStream, StreamAssumption
<1>2. header' \in Nat /\ header' <= HeaderSize /\ bufferEnd' \in Nat
  BY <1>1
<1>3. inPacket' \in BOOLEAN
  BY Zenon
<1>4. TypeOK'
  BY <1>2, <1>3, Zenon DEF TypeOK
<1>5. CollectsOnePacket'
  BY DEF CollectsOnePacket
<1> QED BY <1>4, <1>5

(***************************************************************************)
(* The invariant, action by action.                                        *)
(***************************************************************************)
\* FramingInv holds before anything has been received.
LEMMA FramingInit == Init => FramingInv
<1> SUFFICES ASSUME Init PROVE FramingInv
  OBVIOUS
<1> USE DEF Init
<1>1. TypeOK
  <2>1. pos \in Nat /\ left \in Nat /\ pos + left <= End
    BY InStream
  <2>2. handled \in Seq(1 .. Packets) /\ dropped \subseteq 1 .. Packets
    OBVIOUS
  <2> QED BY <2>1, <2>2, ResetType, Zenon
<1>2. CollectsOnePacket /\ HandledInOrder /\ DealtWithIsBehind
  BY DEF CollectsOnePacket, HandledInOrder, DealtWithIsBehind
<1>3. FramingExact
  <2>1. HeaderAt = 0 /\ Len(handled) = 0
    BY DEF HeaderAt
  <2> QED BY <2>1, StreamAssumption DEF FramingExact
<1> QED BY <1>1, <1>2, <1>3 DEF FramingInv

\* Every step whose behaviour is defined preserves FramingInv.
LEMMA FramingDefined ==
    ASSUME FramingInv, undefined = FALSE, Defined
    PROVE  FramingInv'
<1>u. undefined' = FALSE /\ ~undefined
  BY DEF Defined
<1>b. undefined' \in BOOLEAN
  BY <1>u, Zenon
<1>0. /\ pos \in Nat /\ left \in Nat /\ End \in Nat /\ pos + left <= End
      /\ header \in Nat /\ header <= HeaderSize /\ HeaderSize \in Nat \ {0}
      /\ bufferEnd \in Nat /\ inPacket \in BOOLEAN
      /\ HeaderAt \in Int
  BY StreamAssumption, InStream DEF FramingInv, TypeOK, HeaderAt
<1>t. TypeOK /\ CollectsOnePacket
  BY DEF FramingInv
<1>i. ASSUME TypeOK', CollectsOnePacket',
             FramingExact' /\ HandledInOrder' /\ DealtWithIsBehind'
      PROVE  FramingInv'
  BY <1>i DEF FramingInv
<1>1. ASSUME NEW n \in 1 .. End, Receive(n) PROVE FramingInv'
  <2> USE <1>1 DEF Receive
  <2>1. TypeOK'
    BY <1>0, <1>b, <1>t DEF TypeOK
  <2>2. HeaderAt' = HeaderAt
    BY DEF HeaderAt
  <2>3. CollectsOnePacket'
    BY <1>t, <2>2 DEF CollectsOnePacket, IsHeaderOf
  <2> QED BY <2>1, <2>2, <2>3, <1>i, SamePlace
<1>2. CASE Reconnect
  <2> USE <1>2 DEF Reconnect, Reset
  <2>1. TypeOK'
    <3>1. pos' \in Nat /\ left' \in Nat /\ pos' + left' <= End
      BY <1>0
    <3>2. handled' \in Seq(1 .. Packets) /\ dropped' \subseteq 1 .. Packets
      OBVIOUS
    <3> QED BY <3>1, <3>2, <1>u, ResetTypePrime, Zenon
  <2>2. CollectsOnePacket' /\ HandledInOrder' /\ DealtWithIsBehind'
    BY DEF CollectsOnePacket, HandledInOrder, DealtWithIsBehind
  <2>3. FramingExact'
    <3>1. HeaderAt' = 0 /\ Len(handled') = 0
      BY DEF HeaderAt
    <3> QED BY <3>1, StreamAssumption DEF FramingExact
  <2> QED BY <2>1, <2>2, <2>3, <1>i
<1>3. CASE AssembleHeader
  <2> DEFINE c == Least(left, HeaderSize - header)
  <2>1. /\ pos' = pos + c /\ left' = left - c /\ header' = header + c
        /\ header < HeaderSize
        /\ UNCHANGED <<inPacket, bufferEnd, handled, dropped>>
    BY <1>3 DEF AssembleHeader, Consume
  <2>2. c \in Nat /\ c <= left /\ c <= HeaderSize - header
    BY <1>0, <2>1, LeastIs DEF Least
  <2> HIDE DEF c
  <2>3. TypeOK'
    BY <1>0, <1>b, <1>t, <2>1, <2>2 DEF TypeOK
  <2>4. HeaderAt' = HeaderAt
    BY <1>0, <2>1, <2>2 DEF HeaderAt
  <2>5. ~inPacket /\ bufferEnd = 0
    BY <1>0, <1>t, <2>1 DEF CollectsOnePacket
  <2>6. CollectsOnePacket'
    BY <2>1, <2>5 DEF CollectsOnePacket
  <2> QED BY <2>1, <2>3, <2>4, <2>6, <1>i, SamePlace
<1>4. ASSUME HeaderComplete PROVE bufferEnd = 0 /\ ~inPacket /\ header = HeaderSize
  BY <1>t, <1>4 DEF HeaderComplete, CollectsOnePacket
<1>5. CASE RejectHeader
  <2>1. /\ HeaderComplete /\ \A i \in 1 .. Packets : ~IsHeaderOf(i)
        /\ pos' = pos + left /\ left' = left - left
        /\ header' = 0 /\ bufferEnd' = 0 /\ inPacket' = FALSE
        /\ handled' = handled /\ dropped' = dropped
    BY <1>5 DEF RejectHeader, Reset, Consume
  <2>2. TypeOK' /\ CollectsOnePacket'
    <3>1. pos' \in Nat /\ left' \in Nat /\ pos' + left' <= End
      BY <1>0, <2>1
    <3>2. handled' \in Seq(1 .. Packets) /\ dropped' \subseteq 1 .. Packets
      BY <1>t, <2>1 DEF TypeOK
    <3> QED BY <2>1, <3>1, <3>2, <1>u, ResetTypePrime, Zenon
  <2>3. dropped # {}
    BY <1>0, <1>4, <2>1, ReadsNextHeader
  <2>4. HeaderAt' \in Int /\ HeaderAt <= HeaderAt'
    BY <1>0, <1>4, <2>1 DEF HeaderAt
  <2> QED BY <1>0, <1>i, <2>1, <2>2, <2>3, <2>4, MovesOn
<1>6. ASSUME NEW i \in 1 .. Packets, RejectSize(i) PROVE FramingInv'
  <2>1. /\ HeaderComplete /\ HeaderAt = Start[i]
        /\ pos' = pos + left /\ left' = left - left
        /\ header' = 0 /\ bufferEnd' = 0 /\ inPacket' = FALSE
        /\ handled' = handled /\ dropped' = dropped \cup {i}
    BY <1>6 DEF RejectSize, Reset, Consume, IsHeaderOf
  <2>2. TypeOK' /\ CollectsOnePacket'
    <3>1. pos' \in Nat /\ left' \in Nat /\ pos' + left' <= End
      BY <1>0, <2>1
    <3>2. handled' \in Seq(1 .. Packets) /\ dropped' \subseteq 1 .. Packets
      BY <1>t, <2>1 DEF TypeOK
    <3> QED BY <2>1, <3>1, <3>2, <1>u, ResetTypePrime, Zenon
  <2>3. HeaderAt' \in Int /\ HeaderAt + HeaderSize <= HeaderAt'
    BY <1>0, <1>4, <2>1 DEF HeaderAt
  <2> QED BY <1>0, <1>i, <2>1, <2>2, <2>3, DropsPacket
<1>7. ASSUME NEW i \in 1 .. Packets, HandleEmpty(i) PROVE FramingInv'
  <2>1. /\ HeaderComplete /\ HeaderAt = Start[i] /\ Size[i] = 0
        /\ handled' = Append(handled, i) /\ header' = 0
        /\ UNCHANGED <<pos, left, inPacket, bufferEnd, dropped>>
    BY <1>7 DEF HandleEmpty, IsHeaderOf
  <2>2. HeaderAt' = Start[i] + HeaderSize + Data(i)
    BY <1>0, <1>4, <2>1, InStream DEF HeaderAt, Data
  <2>3. /\ handled' \in Seq(1 .. Packets)
        /\ FramingExact' /\ HandledInOrder' /\ DealtWithIsBehind'
    BY <2>1, <2>2, HandlesPacket
  <2>4. TypeOK' /\ CollectsOnePacket'
    BY <1>0, <1>b, <1>4, <1>t, <2>1, <2>3 DEF TypeOK, CollectsOnePacket
  <2> QED BY <2>3, <2>4, <1>i
<1>8. ASSUME NEW i \in 1 .. Packets, BorrowBuffer(i) PROVE FramingInv'
  <2>1. /\ HeaderComplete /\ HeaderAt = Start[i] /\ Size[i] < MaxData /\ Size[i] > 0
        /\ inPacket' = TRUE /\ bufferEnd' = 0
        /\ UNCHANGED <<pos, left, header, handled, dropped>>
    BY <1>8 DEF BorrowBuffer, IsHeaderOf
  <2>2. HeaderAt' = HeaderAt
    BY <1>4, <2>1 DEF HeaderAt
  <2>3. TypeOK'
    BY <1>0, <1>b, <1>t, <2>1 DEF TypeOK
  <2>4. CollectsOnePacket'
    BY <1>4, <2>1, <2>2 DEF CollectsOnePacket, IsHeaderOf
  <2> QED BY <2>1, <2>2, <2>3, <2>4, <1>i, SamePlace
<1>9. ASSUME NEW i \in 1 .. Packets, BorrowFails(i) PROVE FramingInv'
  <2> DEFINE c == Least(left, Size[i])
  <2>1. /\ HeaderComplete /\ HeaderAt = Start[i] /\ Size[i] > 0
        /\ pos' = pos + c /\ left' = left - c /\ header' = 0
        /\ handled' = handled /\ dropped' = dropped \cup {i}
        /\ inPacket' = inPacket /\ bufferEnd' = bufferEnd
    BY <1>9 DEF BorrowFails, Consume, IsHeaderOf
  <2>2. c \in Nat /\ c <= left
    BY <1>0, <2>1, DataIs DEF Least
  <2> HIDE DEF c
  <2>3. TypeOK' /\ CollectsOnePacket'
    BY <1>0, <1>b, <1>4, <1>t, <2>1, <2>2 DEF TypeOK, CollectsOnePacket
  <2>4. HeaderAt' \in Int /\ HeaderAt + HeaderSize <= HeaderAt'
    BY <1>0, <1>4, <2>1, <2>2 DEF HeaderAt
  <2> QED BY <1>0, <1>i, <2>1, <2>3, <2>4, DropsPacket
<1>10. ASSUME NEW i \in 1 .. Packets, CopyData(i) PROVE FramingInv'
  <2> DEFINE c == Least(left, Size[i] - bufferEnd)
  <2>1. /\ inPacket /\ HeaderAt = Start[i] /\ left > 0
        /\ pos' = pos + c /\ left' = left - c /\ dropped' = dropped
        /\ IF bufferEnd + c >= Size[i]
           THEN /\ handled' = Append(handled, i)
                /\ header' = 0 /\ bufferEnd' = 0 /\ inPacket' = FALSE
           ELSE bufferEnd' = bufferEnd + c /\ UNCHANGED <<handled, header, inPacket>>
    BY <1>10 DEF CopyData, Consume, Reset, IsHeaderOf
  <2>2. header = HeaderSize /\ bufferEnd < Size[i] /\ Size[i] < MaxData
    <3>1. PICK j \in 1 .. Packets : /\ header = HeaderSize /\ HeaderAt = Start[j]
                                    /\ bufferEnd < Size[j] /\ Size[j] < MaxData
      BY <1>t, <2>1 DEF CollectsOnePacket, IsHeaderOf
    <3>2. i \in 1 .. Packets + 1
      BY StreamAssumption
    <3>3. i = j
      BY <2>1, <3>1, <3>2, StartInjective
    <3> QED BY <3>1, <3>3
  <2>3. Size[i] \in Nat /\ Data(i) = Size[i] /\ Start[i] \in Nat
    BY <1>0, <2>2, DataIs, InStream
  <2>4. c \in Nat /\ c <= left /\ c <= Size[i] - bufferEnd
    BY <1>0, <2>2, <2>3 DEF Least
  <2> HIDE DEF c
  <2>5. CASE bufferEnd + c >= Size[i]
    <3>1. HeaderAt' = Start[i] + HeaderSize + Data(i)
      <4>1. pos' = pos + c /\ header' = 0 /\ bufferEnd' = 0 /\ bufferEnd + c = Size[i]
        BY <1>0, <2>1, <2>3, <2>4, <2>5
      <4>2. pos = Start[i] + HeaderSize + bufferEnd
        BY <1>0, <2>1, <2>2, <2>3 DEF HeaderAt
      <4> QED BY <1>0, <2>3, <2>4, <4>1, <4>2 DEF HeaderAt
    <3>2. /\ handled' \in Seq(1 .. Packets)
          /\ FramingExact' /\ HandledInOrder' /\ DealtWithIsBehind'
      BY <2>1, <2>5, <3>1, HandlesPacket
    <3>3. TypeOK' /\ CollectsOnePacket'
      <4>1. /\ pos' \in Nat /\ left' \in Nat /\ pos' + left' <= End
            /\ header' = 0 /\ bufferEnd' = 0 /\ inPacket' = FALSE
        BY <1>0, <2>1, <2>4, <2>5
      <4>2. dropped' \subseteq 1 .. Packets
        BY <1>t, <2>1 DEF TypeOK
      <4> QED BY <3>2, <4>1, <4>2, <1>u, ResetTypePrime
    <3> QED BY <3>2, <3>3, <1>i
  <2>6. CASE ~(bufferEnd + c >= Size[i])
    <3>1. HeaderAt' = HeaderAt
      BY <1>0, <2>1, <2>4, <2>6 DEF HeaderAt
    <3>2. TypeOK'
      BY <1>0, <1>b, <1>t, <2>1, <2>4, <2>6 DEF TypeOK
    <3>3. bufferEnd' < Size[i]
      BY <1>0, <2>1, <2>3, <2>4, <2>6
    <3>4. CollectsOnePacket'
      BY <2>1, <2>2, <2>6, <3>1, <3>3 DEF CollectsOnePacket, IsHeaderOf
    <3> QED BY <2>1, <2>6, <3>1, <3>2, <3>4, <1>i, SamePlace
  <2> QED BY <2>5, <2>6
<1> QED BY <1>1, <1>2, <1>3, <1>5, <1>6, <1>7, <1>8, <1>9, <1>10 DEF Defined, Read

\* Every step of the specification preserves FramingInv.
LEMMA FramingStep == FramingInv /\ [Next]_vars => FramingInv'
<1> SUFFICES ASSUME FramingInv, [Next]_vars PROVE FramingInv'
  OBVIOUS
<1>t. TypeOK /\ undefined \in BOOLEAN
  BY DEF FramingInv, TypeOK
<1>1. CASE ~undefined /\ Defined
  BY <1>1, <1>t, FramingDefined
<1>2. ASSUME undefined' = TRUE,
             UNCHANGED <<pos, left, header, inPacket, bufferEnd, handled, dropped>>
      PROVE  FramingInv'
  <2>1. TypeOK'
    BY <1>t, <1>2 DEF TypeOK
  <2>2. CollectsOnePacket' /\ FramingExact' /\ HandledInOrder' /\ DealtWithIsBehind'
    BY <1>2 DEF CollectsOnePacket, FramingExact, HandledInOrder, DealtWithIsBehind
  <2> QED BY <2>1, <2>2 DEF FramingInv
<1>3. CASE Undefined
  BY <1>2, <1>3 DEF Undefined, ResetRaces, NegativeSize
<1>4. CASE UNCHANGED vars
  <2> USE <1>4 DEF vars
  <2>1. TypeOK' /\ HeaderAt' = HeaderAt /\ undefined' = undefined
    BY <1>t DEF TypeOK, HeaderAt
  <2>2. CollectsOnePacket' /\ FramingExact' /\ HandledInOrder' /\ DealtWithIsBehind'
    BY <2>1 DEF FramingInv, CollectsOnePacket, IsHeaderOf, FramingExact, HandledInOrder,
                DealtWithIsBehind
  <2> QED BY <2>1, <2>2 DEF FramingInv
<1> QED BY <1>1, <1>3, <1>4 DEF Next

\* FramingInv is an invariant of Read on every stream: until a negative size comes or
\* Reset races with it, Read keeps its place.
THEOREM FramingInvariant == Spec => []FramingInv
BY FramingInit, FramingStep, PTL DEF Spec

\* The type invariant: Read stays within the chunk and the header buffer.
THEOREM TypeCorrect == Spec => []TypeOK
<1>1. FramingInv => TypeOK
  BY DEF FramingInv
<1> QED BY <1>1, FramingInvariant, PTL

\* The buffer only ever holds data of one packet, and no more than fits, until Read's
\* behaviour is undefined.
THEOREM BufferHoldsOnePacket == Spec => []CollectsOnePacket
<1>1. FramingInv => CollectsOnePacket
  BY DEF FramingInv
<1> QED BY <1>1, FramingInvariant, PTL

\* Without a drop, what is handled is what was sent, whatever the chunks.
THEOREM FramingIsExact == Spec => []FramingExact
<1>1. FramingInv => FramingExact
  BY DEF FramingInv
<1> QED BY <1>1, FramingInvariant, PTL

\* With drops, order is kept and nothing is handled twice.
THEOREM OrderIsKept == Spec => []HandledInOrder
<1>1. FramingInv => HandledInOrder
  BY DEF FramingInv
<1> QED BY <1>1, FramingInvariant, PTL
=============================================================================
