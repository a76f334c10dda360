--------------------------- MODULE RyuLdnProtocol ---------------------------
(***************************************************************************)
(* How Read cuts the byte stream of a connection into packets.  The stream *)
(* is Packets packets, packet i with its header at Start[i] and Size[i]    *)
(* bytes of data behind it; recv() delivers it in chunks of any size.      *)
(* Bytes are known by their place in the stream, so a header is good when  *)
(* it was assembled from a place where a packet starts, and no data is     *)
(* mistaken for a header.  Each action is a turn of Read's loop, or one of *)
(* the phases of a turn.                                                   *)
(*                                                                         *)
(* Two things lead Read to undefined behaviour, from where it is not       *)
(* followed: a negative size, which passes its check, and a Reset by       *)
(* another thread while it runs.                                           *)
(***************************************************************************)
EXTENDS Integers, Sequences

CONSTANTS Packets,     \* number of packets the peer sends
          Size,        \* dataSize in each packet's header, signed
          Start,       \* place of each packet's header; Start[Packets + 1] is the end
          HeaderSize,  \* sizeof(LdnHeader)
          MaxData      \* data sizes from here on are refused (MaxPacketSize - HeaderSize)

\* The data sent behind the header of packet i.
Data(i) == IF Size[i] > 0 THEN Size[i] ELSE 0

\* The packets lie one behind the other.  The last conjunct follows from the
\* one before by induction.
ASSUME StreamAssumption ==
    /\ Packets \in Nat /\ HeaderSize \in Nat \ {0} /\ MaxData \in Nat
    /\ Size \in [1 .. Packets -> Int]
    /\ Start \in [1 .. Packets + 1 -> Nat]
    /\ Start[1] = 0
    /\ \A i \in 1 .. Packets : Start[i + 1] = Start[i] + HeaderSize + Data(i)
    /\ \A i \in 1 .. Packets, j \in 1 .. Packets + 1 :
          i < j => Start[i] + HeaderSize + Data(i) <= Start[j]

VARIABLES pos,         \* bytes of the stream that have been consumed
          left,        \* bytes of the chunk that Read has not consumed
          header,      \* _headerBytesReceived
          inPacket,    \* _inPacket: _currentBuffer is borrowed
          bufferEnd,   \* _bufferEnd
          handled,     \* packets given to DecodeAndHandle, in order
          dropped,     \* packets refused, or dropped for want of a buffer
          undefined    \* Read's behaviour has become undefined

vars == <<pos, left, header, inPacket, bufferEnd, handled, dropped, undefined>>

End == Start[Packets + 1]
Least(a, b) == IF a <= b THEN a ELSE b

\* Where the header in _headerBuffer was taken from.
HeaderAt == pos - bufferEnd - header

\* The packet whose header it is.
IsHeaderOf(i) == i \in 1 .. Packets /\ HeaderAt = Start[i]

HeaderComplete == header = HeaderSize /\ ~inPacket

Init == /\ pos = 0 /\ left = 0
        /\ header = 0 /\ inPacket = FALSE /\ bufferEnd = 0
        /\ handled = <<>> /\ dropped = {} /\ undefined = FALSE

Consume(n) == pos' = pos + n /\ left' = left - n

(***************************************************************************)
(* Chunks and connections.                                                 *)
(***************************************************************************)
\* recv() returns n bytes (external), and Read is called with them.
Receive(n) ==
    /\ left = 0 /\ ~HeaderComplete
    /\ n \in 1 .. End - pos
    /\ left' = n
    /\ UNCHANGED <<pos, header, inPacket, bufferEnd, handled, dropped>>

\* What Reset does; the buffer goes back to the pool.
Reset == header' = 0 /\ bufferEnd' = 0 /\ inPacket' = FALSE

\* EnsureConnected resets the protocol and opens a new connection.
Reconnect ==
    /\ left = 0 /\ ~HeaderComplete
    /\ Reset
    /\ pos' = 0 /\ handled' = <<>> /\ dropped' = {}
    /\ UNCHANGED left

\* Reset takes no _readMutex: when EnsureConnected calls it while the other thread
\* is inside Read, the two race.  (What that does to the buffer is in BufferPool.)
ResetRaces ==
    /\ left > 0 \/ HeaderComplete
    /\ undefined' = TRUE
    /\ UNCHANGED <<pos, left, header, inPacket, bufferEnd, handled, dropped>>

(***************************************************************************)
(* The phases of Read.                                                     *)
(***************************************************************************)
\* Mutant: the header is not bounded by its size.
AssembleHeaderUnbounded ==
    /\ left > 0 /\ header < HeaderSize
    /\ Consume(left) /\ header' = header + left
    /\ UNCHANGED <<inPacket, bufferEnd, handled, dropped>>

AssembleHeader ==
    /\ left > 0 /\ header < HeaderSize
    /\ LET copyable == Least(left, HeaderSize - header)
       IN  /\ Consume(copyable)
           /\ header' = header + copyable
    /\ UNCHANGED <<inPacket, bufferEnd, handled, dropped>>

\* Wrong magic or version: the rest of the chunk is not looked at.
RejectHeader ==
    /\ HeaderComplete /\ \A i \in 1 .. Packets : ~IsHeaderOf(i)
    /\ Reset /\ Consume(left)
    /\ UNCHANGED <<handled, dropped>>

\* So it is with a packet that is too large.
RejectSize(i) ==
    /\ HeaderComplete /\ IsHeaderOf(i) /\ Size[i] >= MaxData
    /\ Reset /\ Consume(left)
    /\ dropped' = dropped \cup {i}
    /\ UNCHANGED handled

\* A negative size is less than MaxData: with a buffer, memcpy is given a length of
\* almost 2^64; without one, the place in the chunk moves backwards.
NegativeSize(i) ==
    /\ HeaderComplete /\ IsHeaderOf(i) /\ Size[i] < 0
    /\ undefined' = TRUE
    /\ UNCHANGED <<pos, left, header, inPacket, bufferEnd, handled, dropped>>

\* Mutant: a packet without data is passed over.
HandleEmptySkips(i) ==
    /\ HeaderComplete /\ IsHeaderOf(i) /\ Size[i] < MaxData /\ Size[i] = 0
    /\ header' = 0
    /\ UNCHANGED <<pos, left, inPacket, bufferEnd, handled, dropped>>

HandleEmpty(i) ==
    /\ HeaderComplete /\ IsHeaderOf(i) /\ Size[i] < MaxData /\ Size[i] = 0
    /\ handled' = Append(handled, i)
    /\ header' = 0
    /\ UNCHANGED <<pos, left, inPacket, bufferEnd, dropped>>

BorrowBuffer(i) ==
    /\ HeaderComplete /\ IsHeaderOf(i) /\ Size[i] < MaxData /\ Size[i] > 0
    /\ inPacket' = TRUE /\ bufferEnd' = 0
    /\ UNCHANGED <<pos, left, header, handled, dropped>>

\* Mutant: goes back to the header and tries again.
BorrowFailsRetries(i) ==
    /\ HeaderComplete /\ IsHeaderOf(i) /\ Size[i] < MaxData /\ Size[i] > 0
    /\ pos' = pos - HeaderSize /\ left' = left + HeaderSize
    /\ header' = 0
    /\ dropped' = dropped \cup {i}
    /\ UNCHANGED <<inPacket, bufferEnd, handled>>

\* No buffer in five seconds: what is here of the packet's data is skipped, and
\* what comes after that is taken for a header.
BorrowFails(i) ==
    /\ HeaderComplete /\ IsHeaderOf(i) /\ Size[i] < MaxData /\ Size[i] > 0
    /\ Consume(Least(left, Size[i]))
    /\ header' = 0
    /\ dropped' = dropped \cup {i}
    /\ UNCHANGED <<inPacket, bufferEnd, handled>>

\* Mutant: > for >=.
CopyDataOneMore(i) ==
    /\ inPacket /\ IsHeaderOf(i) /\ left > 0
    /\ LET copyable == Least(left, Size[i] - bufferEnd)
       IN  /\ Consume(copyable)
           /\ bufferEnd' = bufferEnd + copyable
    /\ UNCHANGED <<header, inPacket, handled, dropped>>

\* Data is copied; the packet is handled when it is complete.
CopyData(i) ==
    /\ inPacket /\ IsHeaderOf(i) /\ left > 0
    /\ LET copyable == Least(left, Size[i] - bufferEnd)
       IN  /\ Consume(copyable)
           /\ IF bufferEnd + copyable >= Size[i]
              THEN /\ handled' = Append(handled, i)
                   /\ Reset
              ELSE /\ bufferEnd' = bufferEnd + copyable
                   /\ UNCHANGED <<handled, header, inPacket>>
    /\ UNCHANGED dropped

Read == \/ AssembleHeader
        \/ RejectHeader
        \/ \E i \in 1 .. Packets :
              \/ RejectSize(i) \/ HandleEmpty(i)
              \/ BorrowBuffer(i) \/ BorrowFails(i)
              \/ CopyData(i)

Defined == /\ Read \/ Reconnect \/ \E n \in 1 .. End : Receive(n)
           /\ UNCHANGED undefined

Undefined == ResetRaces \/ \E i \in 1 .. Packets : NegativeSize(i)

Next == ~undefined /\ (Defined \/ Undefined)

Spec == Init /\ [][Next]_vars

(***************************************************************************)
(* Properties.                                                             *)
(***************************************************************************)
\* The type invariant: nothing beyond the chunk or the header buffer is touched.
TypeOK ==
    /\ undefined \in BOOLEAN
    /\ pos \in Nat /\ left \in Nat /\ pos + left <= End
    /\ header \in Nat /\ header <= HeaderSize
    /\ inPacket \in BOOLEAN
    /\ bufferEnd \in Nat
    /\ handled \in Seq(1 .. Packets)
    /\ dropped \subseteq 1 .. Packets

\* The properties below speak of executions in which no negative size has come and
\* no Reset has raced with Read: nothing is claimed of what undefined behaviour does.

\* What is being collected in the buffer is the data of one packet, from its
\* first byte on and never more than there is or than fits, however the chunks
\* fall and whatever was dropped before.
CollectsOnePacket ==
    ~undefined =>
       IF inPacket
       THEN /\ header = HeaderSize
            /\ \E i \in 1 .. Packets :
                  IsHeaderOf(i) /\ bufferEnd < Size[i] /\ Size[i] < MaxData
       ELSE bufferEnd = 0

\* As long as no packet had to be dropped, Read has handled exactly the packets
\* the peer sent, in order, and its next header starts where the last of them
\* ends: no byte is lost or taken twice at the boundaries of chunks.
FramingExact ==
    ~undefined /\ dropped = {} =>
       /\ HeaderAt = Start[Len(handled) + 1]
       /\ \A k \in 1 .. Len(handled) : handled[k] = k

\* Even after a packet was dropped and Read has lost its place in the stream, it
\* handles packets in the order they were sent, none twice, and none it dropped.
HandledInOrder ==
    ~undefined =>
       \A k \in 1 .. Len(handled) :
          /\ \A j \in 1 .. k - 1 : handled[j] < handled[k]
          /\ handled[k] \notin dropped

\* Packets that were dealt with lie before the header that is being read.
DealtWithIsBehind ==
    ~undefined =>
       /\ \A k \in 1 .. Len(handled) :
             Start[handled[k]] + HeaderSize + Data(handled[k]) <= HeaderAt
       /\ \A i \in dropped : Start[i] + HeaderSize <= HeaderAt

\* The inductive invariant.
FramingInv == /\ TypeOK /\ CollectsOnePacket /\ FramingExact
              /\ HandledInOrder /\ DealtWithIsBehind

(***************************************************************************)
(* What the code does not ensure.                                          *)
(***************************************************************************)
\* "Skip this packet's data": only the packet for which there was no buffer is
\* missing once the stream has been read.
DropsOnlyThatPacket ==
    pos = End /\ ~HeaderComplete =>
       \A i \in 1 .. Packets : i \in dropped \/ \E k \in 1 .. Len(handled) : handled[k] = i

\* "Thread-safe read operation", with a header it does "validate": what Read does
\* is defined whatever the peer sends and other threads do.
ReadIsDefined == ~undefined
=============================================================================
