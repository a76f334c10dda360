----------------------------- MODULE BufferPool -----------------------------
(***************************************************************************)
(* The shared BufferPool (ryuldn/buffer_pool.hpp, buffer_pool.cpp) and its *)
(* users:                                                                  *)
(*   - a receiving thread's RyuLdnProtocol::Read holds _currentBuffer from *)
(*     a packet's header until the packet is handled;                      *)
(*   - a ScopedBuffer holds a buffer while its thread encodes and sends a  *)
(*     packet.  A receiving thread does so inside a handler, hence with    *)
(*     its packet buffer in hand (HandlePing, RouteMessage,                *)
(*     TryRegisterUser); other threads do so with none.                    *)
(* A frame is one such use: <<thread, "packet">> or <<thread, "scoped">>.  *)
(*                                                                         *)
(* Every access to the list is made under _mutex and is one action.        *)
(*                                                                         *)
(* RyuLdnProtocol::Reset does not take _readMutex: EnsureConnected may run *)
(* it while the protocol's own thread is inside Read.  raced remembers     *)
(* that this has happened.                                                 *)
(***************************************************************************)
EXTENDS FreeList

CONSTANTS MaxBuffers,  \* number of slots, 3 in the code
          Receivers,   \* threads that run RyuLdnProtocol::Read
          Senders      \* threads that only send

ASSUME MaxBuffersAssumption == MaxBuffers \in Nat \ {0}
ASSUME ThreadsAssumption == Receivers \cap Senders = {}

VARIABLES freeList,       \* _freeList, first slot first
          inUse,          \* the slots whose inUse is set
          pc,             \* what each frame is doing
          buf,            \* the pointer each frame works with
          currentBuffer,  \* _currentBuffer of each receiver's protocol
          raced           \* history: some Reset has run during a Read

vars == <<freeList, inUse, pc, buf, currentBuffer, raced>>

Buffers == 1 .. MaxBuffers
None == 0    \* nullptr

PacketFrames == Receivers \X {"packet"}
ScopedFrames == (Receivers \cup Senders) \X {"scoped"}
Frames == PacketFrames \cup ScopedFrames

BufferOrNone == Buffers \cup {None}

TypeOK ==
  /\ freeList \in Seq(Buffers) /\ inUse \in SUBSET Buffers
  /\ pc \in [Frames -> {"idle", "borrowing", "using", "partial", "returning"}]
  /\ buf \in [Frames -> BufferOrNone]
  /\ currentBuffer \in [Receivers -> BufferOrNone]
  /\ raced \in BOOLEAN

Init ==
  /\ freeList = [i \in Buffers |-> i]
  /\ inUse = {}
  /\ pc = [f \in Frames |-> "idle"]
  /\ buf = [f \in Frames |-> None]
  /\ currentBuffer = [r \in Receivers |-> None]
  /\ raced = FALSE

-----------------------------------------------------------------------------
\* Mutant of ReturnBuffer: the "already returned" check is missing.
ReturnBufferUnchecked(b) ==
  IF b = None
    THEN UNCHANGED <<freeList, inUse>>
    ELSE freeList' = PushFree(freeList, b) /\ inUse' = inUse \ {b}

\* nullptr and a slot that is not in use are ignored.
ReturnBuffer(b) ==
  IF b \notin inUse
    THEN UNCHANGED <<freeList, inUse>>
    ELSE freeList' = PushFree(freeList, b) /\ inUse' = inUse \ {b}

\* A header is complete, or a ScopedBuffer is constructed.  In a receiving
\* thread that happens inside the handler of the packet it has read.
StartBorrow(f) ==
  /\ pc[f] = "idle"
  /\ f \in ScopedFrames /\ f[1] \in Receivers => pc[<<f[1], "packet">>] = "using"
  /\ pc' = [pc EXCEPT ![f] = "borrowing"]
  /\ UNCHANGED <<freeList, inUse, buf, currentBuffer, raced>>

\* Mutant of BorrowBuffer: inUse is not set.
BorrowBufferUnmarked(f) ==
  /\ pc[f] = "borrowing" /\ freeList # <<>>
  /\ freeList' = Tail(freeList)
  /\ buf' = [buf EXCEPT ![f] = Head(freeList)]
  /\ pc' = [pc EXCEPT ![f] = "using"]
  /\ currentBuffer' = [r \in Receivers |->
                         IF f = <<r, "packet">> THEN Head(freeList) ELSE currentBuffer[r]]
  /\ UNCHANGED <<inUse, raced>>

\* Mutant of BorrowBuffer: the slot stays at the head of the list.
BorrowBufferNotUnlinked(f) ==
  /\ pc[f] = "borrowing" /\ freeList # <<>>
  /\ inUse' = inUse \cup {Head(freeList)}
  /\ buf' = [buf EXCEPT ![f] = Head(freeList)]
  /\ pc' = [pc EXCEPT ![f] = "using"]
  /\ currentBuffer' = [r \in Receivers |->
                         IF f = <<r, "packet">> THEN Head(freeList) ELSE currentBuffer[r]]
  /\ UNCHANGED <<freeList, raced>>

\* One pass of BorrowBuffer's loop finds a free slot.
BorrowBuffer(f) ==
  /\ pc[f] = "borrowing" /\ freeList # <<>>
  /\ freeList' = Tail(freeList)
  /\ inUse' = inUse \cup {Head(freeList)}
  /\ buf' = [buf EXCEPT ![f] = Head(freeList)]
  /\ pc' = [pc EXCEPT ![f] = "using"]
  /\ currentBuffer' = [r \in Receivers |->
                         IF f = <<r, "packet">> THEN Head(freeList) ELSE currentBuffer[r]]
  /\ UNCHANGED raced

\* Mutant of BorrowTimesOut: the loop has no timeout.
BorrowWaitsForever(f) == pc[f] = "borrowing" /\ freeList = <<>> /\ UNCHANGED vars

\* A pass finds none and five seconds have gone by: the frame does without.
BorrowTimesOut(f) ==
  /\ pc[f] = "borrowing" /\ freeList = <<>>
  /\ pc' = [pc EXCEPT ![f] = "idle"]
  /\ UNCHANGED <<freeList, inUse, buf, currentBuffer, raced>>

\* The data read so far ends inside the packet: Read returns, and keeps the
\* buffer, until more arrives.
ReadReturns(f) ==
  /\ f \in PacketFrames /\ pc[f] = "using" /\ pc[<<f[1], "scoped">>] = "idle"
  /\ pc' = [pc EXCEPT ![f] = "partial"]
  /\ UNCHANGED <<freeList, inUse, buf, currentBuffer, raced>>

ReadResumes(f) ==
  /\ pc[f] = "partial"
  /\ pc' = [pc EXCEPT ![f] = "using"]
  /\ UNCHANGED <<freeList, inUse, buf, currentBuffer, raced>>

\* The packet has been handled, or the ScopedBuffer goes out of scope: the
\* argument of ReturnBuffer is evaluated.
Finish(f) ==
  /\ pc[f] = "using"
  /\ f \in PacketFrames => pc[<<f[1], "scoped">>] = "idle"
  /\ pc' = [pc EXCEPT ![f] = "returning"]
  /\ buf' = [buf EXCEPT ![f] = IF f \in PacketFrames THEN currentBuffer[f[1]] ELSE @]
  /\ UNCHANGED <<freeList, inUse, currentBuffer, raced>>

Return(f) ==
  /\ pc[f] = "returning"
  /\ ReturnBuffer(buf[f])
  /\ pc' = [pc EXCEPT ![f] = "idle"]
  /\ buf' = [buf EXCEPT ![f] = None]
  /\ currentBuffer' = [r \in Receivers |->
                         IF f = <<r, "packet">> THEN None ELSE currentBuffer[r]]
  /\ UNCHANGED raced

\* RyuLdnProtocol::Reset, called by EnsureConnected on another thread, without
\* _readMutex.  Between two Reads the packet is dropped; during a Read the reader
\* goes on with the pointer it has loaded.
Reset(r) ==
  LET f == <<r, "packet">> IN
  /\ currentBuffer[r] # None
  /\ ReturnBuffer(currentBuffer[r])
  /\ currentBuffer' = [currentBuffer EXCEPT ![r] = None]
  /\ pc' = [pc EXCEPT ![f] = IF @ = "partial" THEN "idle" ELSE @]
  /\ buf' = [buf EXCEPT ![f] = IF pc[f] = "partial" THEN None ELSE @]
  /\ raced' = (raced \/ pc[f] # "partial")

FrameStep(f) ==
  \/ StartBorrow(f) \/ BorrowBuffer(f) \/ BorrowTimesOut(f)
  \/ ReadReturns(f) \/ ReadResumes(f)
  \/ Finish(f) \/ Return(f)

Next == (\E f \in Frames : FrameStep(f)) \/ (\E r \in Receivers : Reset(r))

Spec == Init /\ [][Next]_vars

\* Threads are scheduled, and a handler borrows only finitely often, so that a
\* Read that has the chance to end again and again does end.  Nothing is assumed
\* of the peer: ReadResumes has no fairness.
FairSpec ==
  /\ Spec
  /\ \A f \in Frames : WF_vars(BorrowBuffer(f) \/ BorrowTimesOut(f))
  /\ \A f \in ScopedFrames : WF_vars(Finish(f) \/ Return(f))
  /\ \A f \in PacketFrames : SF_vars(Finish(f) \/ ReadReturns(f)) /\ WF_vars(Return(f))

-----------------------------------------------------------------------------
(* Properties *)

\* The free list and the inUse marks agree and no slot is listed twice, even
\* when Reset gives a buffer back behind its reader's back: ReturnBuffer ignores
\* the second return.
PoolConsistent == FreeListOK(freeList, inUse, Buffers)

\* No two frames work with the same buffer, and only buffers some frame works
\* with are in use.
NoBufferShared == \A f, g \in Frames : buf[f] = buf[g] => f = g \/ buf[f] = None
NoBufferLost == inUse = {buf[f] : f \in Frames} \ {None}

\* The packet buffer a protocol remembers is the one its Read works with.
ReaderKeepsItsBuffer ==
  \A r \in Receivers : currentBuffer[r] = buf[<<r, "packet">>]

\* A frame has a buffer exactly from the borrow to the return.
HoldsWhileUsing ==
  \A f \in Frames : pc[f] \in {"using", "partial", "returning"} \equiv buf[f] # None

\* BorrowBuffer and ReturnBuffer keep the free list consistent whatever happens,
\* and give every buffer one user and lose none until the first Reset that runs
\* during a Read: Resets between two Reads, timeouts and nested borrows do no
\* harm.  After such a Reset only the list's consistency is left.
LeaseInv ==
  /\ TypeOK /\ PoolConsistent
  /\ ~raced => NoBufferShared /\ NoBufferLost /\ ReaderKeepsItsBuffer /\ HoldsWhileUsing

\* What the pool promises, with the frames as the users; a Reset during a Read
\* breaks the contract.
Lease == INSTANCE BufferLease WITH Users <- Frames, lent <- buf, broken <- raced
LeaseSpec == Lease!LeaseSpec

\* Although a reader borrows a second buffer with its first in hand, the readers
\* never block one another for good: every Read that has its packet's buffer comes
\* to its end, with the packet handled and the buffer returned, or with the packet
\* incomplete and the thread back at recv.
PacketsFinish == \A f \in PacketFrames : pc[f] = "using" ~> pc[f] \in {"idle", "partial"}

=============================================================================
