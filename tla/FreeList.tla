------------------------------ MODULE FreeList ------------------------------
(***************************************************************************)
(* The slot list both pools of the repository use (BufferPool in           *)
(* ryuldn/buffer_pool.cpp, SessionPool in ryuldn/session_pool.cpp): slots  *)
(* linked through "next" from _freeList, each with an inUse mark.  The     *)
(* linked list is a sequence, the marks are the set of slots that are in   *)
(* use.                                                                    *)
(***************************************************************************)
EXTENDS Naturals, Sequences

\* slot->inUse = false; slot->next = _freeList; _freeList = slot.
PushFree(free, slot) == <<slot>> \o free

\* A slot is on the list exactly once when it is not in use, and not at all when
\* it is.
FreeListOK(free, used, Slots) ==
  /\ free \in Seq(Slots) /\ used \subseteq Slots
  /\ \A i, j \in 1 .. Len(free) : free[i] = free[j] => i = j
  /\ \A s \in Slots : s \in used \equiv ~(\E i \in 1 .. Len(free) : free[i] = s)

=============================================================================
