-------------------------- MODULE BufferPoolProofs --------------------------
(***************************************************************************)
(* Proofs about BufferPool, for any number of buffers and of threads.      *)
(* PoolInv is preserved even when Reset races with a Read; what LeaseInv   *)
(* says of the users of the buffers is preserved until it does.            *)
(***************************************************************************)
EXTENDS BufferPool, FreeListProofs

-----------------------------------------------------------------------------
(* The pool stays consistent whoever resets what *)

\* Types and consistency of the pool, whether or not Reset races with a Read.
PoolInv == TypeOK /\ PoolConsistent

\* ReturnBuffer keeps the pool consistent whatever pointer it is given.
LEMMA ReturnBufferOK ==
  ASSUME PoolConsistent, NEW b, ReturnBuffer(b)
  PROVE  FreeListOK(freeList', inUse', Buffers)
<1>1. CASE b \in inUse
  BY <1>1, PutOK DEF PoolConsistent, ReturnBuffer
<1>2. CASE b \notin inUse
  BY <1>2 DEF PoolConsistent, ReturnBuffer
<1>. QED
  BY <1>1, <1>2

\* The list starts with every buffer on it, in order.
LEMMA PoolInit == Init => PoolInv
<1>. SUFFICES ASSUME Init PROVE PoolInv
  OBVIOUS
<1>1. freeList \in Seq(Buffers) /\ Len(freeList) = MaxBuffers
  BY MaxBuffersAssumption DEF Init, Buffers
<1>2. PoolConsistent
  BY <1>1 DEF Init, PoolConsistent, FreeListOK, Buffers
<1>3. TypeOK
  BY <1>1 DEF Init, TypeOK, BufferOrNone
<1>. QED
  BY <1>2, <1>3 DEF PoolInv

\* Every step of a frame, and every Reset, keeps the pool consistent.
LEMMA PoolStep == PoolInv /\ [Next]_vars => PoolInv'
<1>. SUFFICES ASSUME PoolInv, [Next]_vars PROVE PoolInv'
  OBVIOUS
<1>. USE DEF PoolInv, TypeOK, BufferOrNone
<1>0. PoolConsistent' => freeList' \in Seq(Buffers) /\ inUse' \in SUBSET Buffers
  BY DEF PoolConsistent, FreeListOK
<1>1. ASSUME NEW f \in Frames, StartBorrow(f) \/ BorrowTimesOut(f) \/ ReadReturns(f) \/ ReadResumes(f)
      PROVE  PoolInv'
  BY <1>1 DEF StartBorrow, BorrowTimesOut, ReadReturns, ReadResumes, PoolConsistent
<1>2. ASSUME NEW f \in Frames, BorrowBuffer(f) PROVE PoolInv'
  <2>1. PoolConsistent' /\ Head(freeList) \in Buffers
    BY <1>2, TakeOK DEF BorrowBuffer, PoolConsistent
  <2>. QED
    BY <1>0, <1>2, <2>1 DEF BorrowBuffer
<1>3. ASSUME NEW f \in Frames, Finish(f) PROVE PoolInv'
  <2>1. f \in PacketFrames => f[1] \in Receivers
    BY DEF PacketFrames
  <2>. QED
    BY <1>3, <2>1 DEF Finish, PoolConsistent
<1>4. ASSUME NEW f \in Frames, Return(f) PROVE PoolInv'
  <2>1. PoolConsistent'
    BY <1>4, ReturnBufferOK DEF Return, PoolConsistent
  <2>. QED
    BY <1>0, <1>4, <2>1 DEF Return
<1>5. ASSUME NEW r \in Receivers, Reset(r) PROVE PoolInv'
  <2>1. PoolConsistent'
    BY <1>5, ReturnBufferOK DEF Reset, PoolConsistent
  <2>. QED
    BY <1>0, <1>5, <2>1 DEF Reset
<1>6. CASE UNCHANGED vars
  BY <1>6 DEF vars, PoolConsistent
<1>. QED
  BY <1>1, <1>2, <1>3, <1>4, <1>5, <1>6 DEF Next, FrameStep

\* However many threads borrow, return and reset, the free list and the inUse
\* marks agree and no slot is on the list twice.
THEOREM PoolStaysConsistent == Spec => []PoolConsistent
<1>1. Spec => []PoolInv
  BY PoolInit, PoolStep, PTL DEF Spec
<1>2. PoolInv => PoolConsistent
  BY DEF PoolInv
<1>. QED
  BY <1>1, <1>2, PTL

-----------------------------------------------------------------------------
(* Until the race: every buffer has one user *)

\* A pool with no buffer lent satisfies the invariant.
LEMMA LeaseInitOK == Init => LeaseInv
<1>. SUFFICES ASSUME Init PROVE LeaseInv
  OBVIOUS
<1>1. TypeOK /\ PoolConsistent
  BY PoolInit DEF PoolInv
<1>2. \A r \in Receivers : <<r, "packet">> \in Frames
  BY DEF Frames, PacketFrames
<1>. QED
  BY <1>1, <1>2 DEF Init, LeaseInv, NoBufferShared, NoBufferLost, ReaderKeepsItsBuffer, HoldsWhileUsing

\* The frame <<r, "packet">> is that of r's protocol and of no other.
LEMMA PacketFrameOf ==
  /\ \A r \in Receivers : <<r, "packet">> \in Frames /\ <<r, "packet">> \in PacketFrames
  /\ \A f \in PacketFrames : f[1] \in Receivers /\ f = <<f[1], "packet">>
  BY DEF Frames, PacketFrames

\* The buffer that BorrowBuffer takes is one that is not in use.
LEMMA FirstIsFree ==
  ASSUME PoolConsistent, freeList # <<>>
  PROVE  Head(freeList) \in Buffers \ inUse
  BY TakeOK DEF PoolConsistent

\* A step that is no Reset during a Read preserves LeaseInv, and lends a free
\* buffer, takes one back from the frame it was lent to, or does neither.
LEMMA LeaseStepKept ==
  ASSUME LeaseInv, [Next]_vars, ~raced'
  PROVE  LeaseInv' /\ [Lease!Kept]_buf /\ ~raced
<1>0. ~raced
  BY DEF Next, FrameStep, StartBorrow, BorrowBuffer, BorrowTimesOut, ReadReturns,
    ReadResumes, Finish, Return, Reset, vars
<1>b. PoolInv'
  BY PoolStep DEF PoolInv, LeaseInv
<1>. USE <1>0 DEF LeaseInv, TypeOK, BufferOrNone, NoBufferShared, NoBufferLost, ReaderKeepsItsBuffer, HoldsWhileUsing
<1>a. None \notin Buffers
  BY DEF None, Buffers
<1>1. ASSUME NEW f \in Frames, StartBorrow(f) \/ BorrowTimesOut(f) \/ ReadReturns(f) \/ ReadResumes(f)
      PROVE  LeaseInv' /\ buf' = buf
  BY <1>0, <1>b, <1>1 DEF PoolInv, StartBorrow, BorrowTimesOut, ReadReturns, ReadResumes
<1>2. ASSUME NEW f \in Frames, BorrowBuffer(f) PROVE LeaseInv' /\ Lease!Kept
  <2>0. PoolConsistent /\ freeList # <<>>
    BY <1>2 DEF BorrowBuffer
  <2>1. Head(freeList) \in Buffers \ inUse
    BY <2>0, FirstIsFree
  <2>2. buf[f] = None
    BY <1>2 DEF BorrowBuffer
  <2>3. \A g \in Frames : buf[g] # Head(freeList)
    BY <1>a, <2>1
  <2>4. NoBufferShared' /\ HoldsWhileUsing'
    BY <1>2, <1>a, <2>1, <2>3 DEF BorrowBuffer
  <2>5. NoBufferLost'
    BY <1>2, <1>a, <2>1, <2>2 DEF BorrowBuffer
  <2>6. ReaderKeepsItsBuffer'
    BY <1>2, PacketFrameOf DEF BorrowBuffer
  <2>7. Lease!Lend(f, Head(freeList))
    BY <1>2, <2>2, <2>3 DEF BorrowBuffer, Lease!Lend
  <2>. QED
    BY <1>0, <1>b, <2>1, <2>4, <2>5, <2>6, <2>7 DEF PoolInv, Lease!Kept
<1>3. ASSUME NEW f \in Frames, Finish(f) PROVE LeaseInv' /\ buf' = buf
  <2>1. buf' = buf
    BY <1>3, PacketFrameOf DEF Finish
  <2>. QED
    BY <1>0, <1>b, <1>3, <2>1 DEF PoolInv, Finish
<1>4. ASSUME NEW f \in Frames, Return(f) PROVE LeaseInv' /\ Lease!Kept
  <2>1. buf[f] # None /\ buf[f] \in inUse
    BY <1>4 DEF Return
  <2>2. inUse' = inUse \ {buf[f]}
    BY <1>4, <2>1 DEF Return, ReturnBuffer
  <2>3. NoBufferShared' /\ HoldsWhileUsing'
    BY <1>4 DEF Return
  <2>4. NoBufferLost'
    BY <1>4, <2>1, <2>2 DEF Return
  <2>5. ReaderKeepsItsBuffer'
    BY <1>4, PacketFrameOf DEF Return
  <2>6. Lease!TakeBack(f)
    BY <1>4, <2>1 DEF Return, Lease!TakeBack
  <2>. QED
    BY <1>0, <1>b, <2>3, <2>4, <2>5, <2>6 DEF PoolInv, Lease!Kept
<1>5. ASSUME NEW r \in Receivers, Reset(r) PROVE LeaseInv' /\ Lease!Kept
  <2>. DEFINE f == <<r, "packet">>
  <2>0. f \in Frames
    BY PacketFrameOf
  <2>. HIDE DEF f
  <2>a. pc[f] = "partial"
    BY <1>5 DEF Reset, f
  <2>1. /\ pc[f] = "partial" /\ buf[f] # None /\ buf[f] \in inUse
        /\ pc' = [pc EXCEPT ![f] = "idle"] /\ buf' = [buf EXCEPT ![f] = None]
        /\ ReturnBuffer(buf[f])
        /\ currentBuffer' = [currentBuffer EXCEPT ![r] = None]
    BY <1>0, <1>5, <2>0, <2>a DEF Reset, f
  <2>2. inUse' = inUse \ {buf[f]}
    BY <2>1 DEF ReturnBuffer
  <2>3. NoBufferShared' /\ HoldsWhileUsing'
    BY <2>0, <2>1
  <2>4. NoBufferLost'
    BY <2>0, <2>1, <2>2
  <2>5. ReaderKeepsItsBuffer'
    BY <2>0, <2>1, PacketFrameOf DEF f
  <2>6. Lease!TakeBack(f)
    <3>1. raced' = raced
      BY <1>b DEF PoolInv
    <3>. QED
      BY <2>1, <3>1 DEF Lease!TakeBack
  <2>. QED
    BY <1>0, <1>b, <2>0, <2>3, <2>4, <2>5, <2>6 DEF PoolInv, Lease!Kept
<1>6. CASE UNCHANGED vars
  BY <1>0, <1>b, <1>6 DEF vars, PoolInv
<1>. QED
  BY <1>1, <1>2, <1>3, <1>4, <1>5, <1>6 DEF Next, FrameStep

\* LeaseInv is inductive: a Reset during a Read leaves what PoolInv says.
LEMMA LeaseStepOK ==
  ASSUME LeaseInv, [Next]_vars
  PROVE  LeaseInv' /\ [Lease!LeaseNext]_<<buf, raced>>
<1>1. CASE ~raced'
  <2>1. LeaseInv' /\ [Lease!Kept]_buf /\ ~raced
    BY <1>1, LeaseStepKept
  <2>2. raced' = raced
    BY <1>1, <2>1 DEF LeaseInv, TypeOK
  <2>. QED
    BY <2>1, <2>2 DEF Lease!LeaseNext
<1>2. CASE raced'
  <2>1. PoolInv' /\ raced' \in BOOLEAN
    BY PoolStep DEF LeaseInv, PoolInv, TypeOK
  <2>. QED
    BY <1>2, <2>1 DEF LeaseInv, PoolInv, Lease!LeaseNext, Lease!Broken
<1>. QED
  BY <1>1, <1>2

\* Whatever the threads do, the list stays consistent, and until a protocol is
\* reset during a Read a buffer is in use exactly while one frame works with it:
\* none is shared and none is lost.
THEOREM BuffersAreLeased == Spec => []LeaseInv
<1>1. LeaseInv /\ [Next]_vars => LeaseInv'
  BY LeaseStepOK
<1>. QED
  BY <1>1, LeaseInitOK, PTL DEF Spec

\* The pool implements BufferLease, the specification of what it promises.
THEOREM PoolImplementsLease == Spec => LeaseSpec
<1>1. Init => Lease!LeaseInit
  BY DEF Init, Lease!LeaseInit
<1>2. LeaseInv /\ [Next]_vars => [Lease!LeaseNext]_<<buf, raced>>
  BY LeaseStepOK
<1>3. Spec => []LeaseInv
  BY BuffersAreLeased
<1>. QED
  BY <1>1, <1>2, <1>3, PTL DEF Spec, LeaseSpec, Lease!LeaseSpec

=============================================================================
