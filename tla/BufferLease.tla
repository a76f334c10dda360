----------------------------- MODULE BufferLease -----------------------------
(***************************************************************************)
(* What BufferPool promises its users: a buffer is lent to one user at a   *)
(* time, and comes back from the user it was lent to, until a user breaks  *)
(* the contract (a protocol is reset while its Read works with a buffer);  *)
(* from then on nothing is promised.                                       *)
(***************************************************************************)
CONSTANTS Buffers,   \* the buffers of the pool
          Users,     \* those who borrow
          None       \* no buffer

VARIABLES lent,      \* the buffer each user has, or None
          broken     \* a user has broken the contract

LeaseInit == lent = [u \in Users |-> None] /\ broken = FALSE

Lend(u, b) ==
  /\ lent[u] = None
  /\ \A v \in Users : lent[v] # b
  /\ lent' = [lent EXCEPT ![u] = b]
  /\ UNCHANGED broken

TakeBack(u) ==
  /\ lent[u] # None
  /\ lent' = [lent EXCEPT ![u] = None]
  /\ UNCHANGED broken

Kept == ~broken /\ \E u \in Users : TakeBack(u) \/ \E b \in Buffers : Lend(u, b)
Broken == broken' = TRUE

LeaseNext == Kept \/ Broken

LeaseSpec == LeaseInit /\ [][LeaseNext]_<<lent, broken>>

=============================================================================
