---------------------------- MODULE SessionPool ----------------------------
(***************************************************************************)
(* SessionPool (ryuldn/session_pool.cpp): the slots in which the hosted    *)
(* P2P server keeps its sessions.  A slot stands for the session object it *)
(* holds.  The operators are what the functions do under _mutex; Acquire   *)
(* and Clear also stop sessions under it, and are completed in             *)
(* P2pProxyServer.  _activeCount, which is only logged, is left out.       *)
(***************************************************************************)
EXTENDS FreeList

CONSTANT MaxPooledSessions   \* 4 in the code

ASSUME MaxPooledSessionsAssumption == MaxPooledSessions \in Nat \ {0}

VARIABLES freeList,   \* _freeList, first slot first
          inUse,      \* the slots whose inUse is set
          sessions    \* the slots whose session is not nullptr

poolVars == <<freeList, inUse, sessions>>

Slots == 1 .. MaxPooledSessions
NoSlot == 0

PoolTypeOK ==
  /\ freeList \in Seq(Slots)
  /\ inUse \subseteq Slots /\ sessions \subseteq Slots

\* The state the constructor builds, and the one Clear restores.
AllFree(free, used, live) ==
  /\ free = [i \in Slots |-> i]
  /\ used = {} /\ live = {}

PoolInit == AllFree(freeList, inUse, sessions)

\* Acquire unlinks the first free slot, ...
UnlinkFirst ==
  /\ freeList # <<>>
  /\ freeList' = Tail(freeList)

\* ... and, once its session is created or reset, marks it.
MarkAcquired(s) ==
  /\ inUse' = inUse \cup {s}
  /\ sessions' = sessions \cup {s}

\* The session is kept for reuse.  Releasing one that is not in use, or that no
\* slot holds (which deletes it), leaves the pool as it is.
Release(s) ==
  IF s \in sessions /\ s \in inUse
    THEN /\ freeList' = PushFree(freeList, s)
         /\ inUse' = inUse \ {s}
         /\ UNCHANGED sessions
    ELSE UNCHANGED poolVars

=============================================================================
