------------------------- MODULE EphemeralPortPool -------------------------
(***************************************************************************)
(* EphemeralPortPool: the list of the ephemeral ports in use, kept sorted, *)
(* so that AllocatePort finds the lowest free one in a single pass.  Ports *)
(* are u16; PortModulus stands for 2^16, and the code's EphemeralEnd is    *)
(* the largest u16, so that port++ goes from there to 0.                   *)
(***************************************************************************)
EXTENDS Integers, Sequences

CONSTANTS EphemeralBase,   \* lowest ephemeral port
          EphemeralEnd,    \* highest ephemeral port
          PortModulus      \* number of values of a port

ASSUME PortAssumption ==
    /\ EphemeralBase \in Nat /\ EphemeralEnd \in Nat /\ PortModulus \in Nat
    /\ 0 < EphemeralBase /\ EphemeralBase <= EphemeralEnd
    /\ EphemeralEnd < PortModulus

NoPort == 0
EphemeralPorts == EphemeralBase .. EphemeralEnd

\* The candidate port when the pass is at entry i: port++ was done i - 1 times.
PortAt(i) == (EphemeralBase + i - 1) % PortModulus

Exhausted(port) == port = NoPort \/ port > EphemeralEnd

\* The entries at which the pass can end: the entry lies above the candidate,
\* which is therefore free, or the increment after it leaves the range.
Stops(list) == {i \in 1 .. Len(list) : \/ list[i] > PortAt(i)
                                       \/ Exhausted(PortAt(i + 1))}

FirstStop(list) ==
    IF Stops(list) = {} THEN Len(list) + 1
    ELSE CHOOSE i \in Stops(list) : \A j \in Stops(list) : i <= j

\* The port AllocatePort returns, NoPort when there is none.
AllocatePort(list) ==
    LET i == FirstStop(list)
    IN  IF i <= Len(list)
        THEN IF list[i] > PortAt(i) THEN PortAt(i) ELSE NoPort
        ELSE IF Exhausted(PortAt(i)) THEN NoPort ELSE PortAt(i)

\* Mutant: push_back instead of insert.
AfterAllocateAtEnd(list) ==
    IF AllocatePort(list) = NoPort THEN list ELSE Append(list, AllocatePort(list))

\* The list AllocatePort leaves: the port goes in at the entry it stopped at.
AfterAllocate(list) ==
    LET i == FirstStop(list)
    IN  IF AllocatePort(list) = NoPort THEN list
        ELSE [j \in 1 .. Len(list) + 1 |->
                 IF j < i THEN list[j]
                 ELSE IF j = i THEN PortAt(i) ELSE list[j - 1]]

\* The list ReturnPort leaves: its first occurrence of the port is erased, and
\* a port that is not in it is ignored.
ReturnPort(list, port) ==
    LET At == {i \in 1 .. Len(list) : list[i] = port}
        k  == CHOOSE i \in At : \A j \in At : i <= j
    IN  IF At = {} THEN list
        ELSE [j \in 1 .. Len(list) - 1 |-> IF j < k THEN list[j] ELSE list[j + 1]]

\* The list is sorted without repetition: entries are at least as far apart as
\* their places.
Sorted(list) == \A i, j \in 1 .. Len(list) :
                    i < j => list[i] + (j - i) <= list[j]

InUse(list) == {list[i] : i \in 1 .. Len(list)}
============================================================================
