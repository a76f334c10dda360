------------------------ MODULE P2pProxyServerProofs ------------------------
(***************************************************************************)
(* The hosted server's safety, for every number of slots and addresses:    *)
(* the slots of the pool, the players' table and the router's mapping,     *)
(* under every interleaving of the owner, the accept thread, the sessions' *)
(* threads, the master client's worker and the lease thread.               *)
(*                                                                         *)
(* PoolInv, the types and LeaseInv hold whatever the guests do; SessionInv *)
(* holds until a guest presents a second token on its connection, which    *)
(* can leave a player behind whose slot is given back.                     *)
(***************************************************************************)
EXTENDS P2pProxyServer, FreeListProofs

(***************************************************************************)
(* The inductive invariant.                                                *)
(***************************************************************************)
\* Dispose has not come to delete sessions, and has deleted all of them.
BeforeClear == owner \in {"new", "punch", "up", "joinAccept", "clear"}
AfterClear  == owner \in {"clearPlayers", "stopLease", "joinLease", "unmap", "done"}

\* Clear, and HandleStateChange, have stopped the session of s and wait for it.
Clearing(s) == owner = "clearJoin" /\ ownerSlot = s
Closing(s)  == PlayersLocked /\ masterSlot = s

\* Program points of a thread that still serves its guest, or has a slot to give
\* back; those at which its session may be a player; and those on the way to it.
Serving == {"recv", "auth", "authWait", "register", "authFailed", "route", "leave",
            "release"}
Playing == {"recv", "route", "leave"}
Joining == {"auth", "authWait", "register", "authFailed"}

\* The accept thread runs before Clear only, and has unlinked the slot it works on.
AcceptOK ==
  /\ listening => owner \in {"punch", "up"}
  /\ accept \in {"resetJoin", "reset", "start", "startFailed"} =>
       /\ acceptSlot \in sessions
       /\ ~running[acceptSlot]
  /\ accept = "resetJoin" => rx[acceptSlot] \in {"off", "notify"}
  /\ accept = "reset" => rx[acceptSlot] = "off"
  /\ accept \in {"start", "startFailed"} =>
       acceptSlot \in inUse /\ rx[acceptSlot] = "off" /\ presented[acceptSlot] = NoIp

\* The slots that are not on the free list.
Taken == IF accept \in {"resetJoin", "reset"} THEN inUse \cup {acceptSlot} ELSE inUse

\* What the pool's own operations ensure, whatever sessions use it.
PoolInv ==
  /\ FreeListOK(freeList, Taken, Slots)
  /\ accept # "off" => owner \in {"punch", "up", "joinAccept"}
  /\ accept \in {"resetJoin", "reset"} => acceptSlot \in Slots \ inUse
  /\ owner = "clearJoin" => ownerSlot \in Slots
  /\ master # "idle" => masterIp \in VirtualIps

PoolOK ==
  /\ BeforeClear => inUse \subseteq sessions
  /\ owner \in {"clearing", "clearJoin"} =>
       /\ \A s \in sessions : s >= ownerSlot
       /\ \A s \in inUse : s >= ownerSlot => s \in sessions
  /\ owner = "new" \/ AfterClear => inUse = {} /\ sessions = {}

\* The fields of a session follow from the token its guest has presented.
FieldsOK(s) ==
  /\ virtualIp[s] # NoIp => presented[s] # NoIp
  /\ masterClosed[s] => presented[s] # NoIp

\* A thread that serves its guest has its session, which runs, unless somebody
\* waits for the thread to end; one that waits for itself keeps its slot.
ThreadOK(s) ==
  /\ rx[s] \in Serving => \/ s \in inUse /\ s \in sessions /\ (running[s] \/ Clearing(s))
                          \/ Closing(s)
  /\ rx[s] \in Serving \cup {"selfJoin"} /\ BeforeClear => s \in inUse
  /\ rx[s] = "notify" =>
       running[s] \/ Clearing(s) \/ (accept = "resetJoin" /\ acceptSlot = s)
  /\ rx[s] \in Joining => presented[s] # NoIp /\ ~masterClosed[s]
  /\ rx[s] = "register" => virtualIp[s] # NoIp
  /\ s \notin sessions /\ BeforeClear => rx[s] = "off"

\* A player's session is one that serves its guest, with that address, or the
\* one HandleStateChange is about to remove.
PlayerOK(ip) ==
  players[ip] # NoSlot =>
    /\ virtualIp[players[ip]] = ip
    /\ \/ /\ players[ip] \in inUse /\ players[ip] \in sessions
          /\ rx[players[ip]] \in Playing /\ ~masterClosed[players[ip]]
          /\ running[players[ip]] \/ Clearing(players[ip])
       \/ Closing(players[ip]) /\ masterIp = ip

\* What HandleStateChange knows of the session it has stopped.
MasterOK ==
  /\ PlayersLocked =>
       /\ masterSlot \in Slots
       /\ virtualIp[masterSlot] = masterIp /\ masterClosed[masterSlot]
       /\ rx[masterSlot] \in Playing \cup {"off"}
       /\ masterSlot \in inUse \/ AfterClear
  /\ master = "release" => rx[masterSlot] = "off" \/ Clearing(masterSlot)

SessionInv ==
  /\ PoolInv /\ AcceptOK /\ PoolOK /\ MasterOK
  /\ \A s \in Slots : FieldsOK(s) /\ ThreadOK(s)
  /\ \A ip \in VirtualIps : PlayerOK(ip)

\* The lease thread ends before Dispose deletes the mapping.
LeaseInv ==
  /\ owner \in {"new", "punch", "unmap", "done"} => lease = "off"
  /\ lease # "off" => (leaseRunning \/ owner = "joinLease") /\ hasPortMapping
  /\ owner \in {"new", "punch", "joinLease", "unmap", "done"} => ~leaseRunning
  /\ owner \in {"new", "punch", "done"} => ~hasPortMapping

(***************************************************************************)
(* The free list.                                                          *)
(***************************************************************************)
LEMMA Distinct == NoSlot \notin Slots /\ NoIp \notin VirtualIps
BY VirtualIpsAssumption DEF NoSlot, Slots, NoIp

\* The list the constructor and Clear build.
LEMMA AllFreeOK == ASSUME NEW free, NEW used, NEW live, AllFree(free, used, live)
                   PROVE  FreeListOK(free, used, Slots) /\ used = {} /\ live = {}
<1>1. free = [i \in 1 .. MaxPooledSessions |-> i] /\ MaxPooledSessions \in Nat
  BY MaxPooledSessionsAssumption DEF AllFree, Slots
<1>2. free \in Seq(Slots) /\ Len(free) = MaxPooledSessions
  BY <1>1 DEF Slots
<1>. QED
  BY <1>1, <1>2 DEF AllFree, FreeListOK, Slots

\* While the pool's mutex is free, Acquire takes a slot that is not in use ...
LEMMA UnlinkOK ==
  ASSUME PoolInv, ~PoolLocked, UnlinkFirst
  PROVE  /\ Head(freeList) \in Slots /\ Head(freeList) \notin inUse
         /\ FreeListOK(freeList', inUse \cup {Head(freeList)}, Slots)
<1>1. FreeListOK(freeList, inUse, Slots)
  BY DEF PoolInv, PoolLocked, Taken
<1>. QED
  BY <1>1, TakeOK DEF UnlinkFirst

\* ... and Release marks the slot free and lists it, or does nothing.
LEMMA ReleaseOK ==
  ASSUME PoolInv, ~PoolLocked, NEW s, Release(s)
  PROVE  /\ FreeListOK(freeList', inUse', Slots)
         /\ inUse' = (IF s \in sessions THEN inUse \ {s} ELSE inUse)
         /\ sessions' = sessions
<1>1. FreeListOK(freeList, inUse, Slots)
  BY DEF PoolInv, PoolLocked, Taken
<1>2. CASE s \in sessions /\ s \in inUse
  BY <1>1, <1>2, PutOK DEF Release
<1>3. CASE ~(s \in sessions /\ s \in inUse)
  BY <1>1, <1>3 DEF Release, poolVars
<1>. QED
  BY <1>2, <1>3

(***************************************************************************)
(* What the pool's own operations ensure, whatever the guests do.          *)
(***************************************************************************)
\* Steps that leave what PoolInv speaks of alone.
LEMMA PoolSame ==
  ASSUME PoolInv, freeList' = freeList, inUse' = inUse, UNCHANGED <<masterVars, ownerVars>>,
         \/ UNCHANGED acceptVars
         \/ accept \notin {"off", "resetJoin", "reset"} /\ accept' \notin {"resetJoin", "reset"}
  PROVE  PoolInv'
BY DEF PoolInv, Taken, masterVars, acceptVars, ownerVars

\* Every step preserves PoolInv.
LEMMA PoolStep ==
  ASSUME TypeOK, PoolInv, [Next]_vars
  PROVE  PoolInv'
<1>. USE DEF poolVars, serverVars, ownerVars, acceptVars, sessionVars, masterVars, leaseVars
<1>1. CASE OwnerStep
  <2>1. CASE ClearSlot
    BY <2>1 DEF ClearSlot, PoolInv, Taken
  <2>2. CASE ClearJoin
    BY <2>2 DEF ClearJoin, PoolInv, Taken
  <2>3. CASE ClearBegin
    BY <2>3 DEF ClearBegin, PoolInv, Taken
  <2>4. CASE ClearEnd
    <3>1. FreeListOK(freeList', inUse', Slots) /\ inUse' = {}
      BY <2>4, AllFreeOK DEF ClearEnd
    <3>. QED
      BY <2>4, <3>1 DEF ClearEnd, PoolInv, Taken
  <2>5. CASE Start \/ StartFails \/ NatPunch \/ StopListening \/ JoinAccept
    BY <2>5 DEF Start, StartFails, NatPunch, StopListening, JoinAccept, PoolInv, Taken
  <2>6. CASE ClearPlayers \/ StopLease \/ JoinLease \/ DeletePortMapping
    BY <2>6 DEF ClearPlayers, StopLease, JoinLease, DeletePortMapping, PoolInv, Taken
  <2>. QED
    BY <1>1, <2>1, <2>2, <2>3, <2>4, <2>5, <2>6 DEF OwnerStep, StopStep
<1>2. CASE AcceptClient \/ AcceptFails \/ AcceptStep
  <2>1. CASE AcquireNew
    BY <2>1, UnlinkOK DEF AcquireNew, MarkAcquired, PoolInv, Taken
  <2>2. CASE AcquireReset
    BY <2>2, UnlinkOK DEF AcquireReset, PoolInv, Taken
  <2>3. CASE JoinPrevious \/ ResetSession
    BY <2>3 DEF JoinPrevious, ResetSession, MarkAcquired, PoolInv, Taken
  <2>4. CASE ReleaseUnstarted
    BY <2>4, ReleaseOK DEF ReleaseUnstarted, PoolInv, Taken
  <2>5. CASE AcceptClient \/ AcceptFails \/ AcquireFails \/ StartSession \/ StartSessionFails
    BY <2>5, PoolSame DEF AcceptClient, AcceptFails, AcquireFails, StartSession, StartSessionFails
  <2>. QED
    BY <1>2, <2>1, <2>2, <2>3, <2>4, <2>5 DEF AcceptStep
<1>3. ASSUME NEW s \in Slots, GuestStep(s) \/ SessionStep(s) PROVE PoolInv'
  <2>1. CASE ReleaseSession(s)
    BY <2>1, ReleaseOK DEF ReleaseSession, PoolInv, PoolLocked, Taken
  <2>2. CASE ~ReleaseSession(s)
    BY <1>3, <2>2, PoolSame DEF GuestStep, SessionStep, ReceiveToken, ReceiveMessage, ReceiveEnds,
       TokenFound, Register, TokenMissing, AuthWaitEnds, AuthenticationFails, RouteMessage,
       DisconnectProxyClient, NotifyMaster
  <2>. QED
    BY <2>1, <2>2
<1>4. CASE MasterStep
  <2>1. CASE ReleasePlayer
    BY <2>1, ReleaseOK DEF ReleasePlayer, MasterGoes, PoolInv, PoolLocked, Taken
  <2>2. CASE ~ReleasePlayer
    BY <1>4, <2>2 DEF MasterStep, HandleToken, DropTokens, NoPlayer, StopPlayer, JoinPlayer,
       MasterGoes, PoolInv, Taken
  <2>. QED
    BY <2>1, <2>2
<1>5. ASSUME NEW ip \in VirtualIps, TokenArrives(ip) \/ StateChangeArrives(ip) PROVE PoolInv'
  BY <1>5 DEF TokenArrives, StateChangeArrives, MasterGoes, PoolInv, Taken
<1>6. CASE LeaseStep
  BY <1>6, PoolSame DEF LeaseStep, LeaseWakes, RenewMapping
<1>7. CASE UNCHANGED vars
  BY <1>7, PoolSame DEF vars
<1>. QED
  BY <1>1, <1>2, <1>3, <1>4, <1>5, <1>6, <1>7 DEF Next

\* Whatever the dangling reference reads is an address.
LEMMA TokenFoundOK ==
  ASSUME TypeOK, NEW s \in Slots, TokenFound(s)
  PROVE  /\ tokens' \in Seq(VirtualIps)
         /\ \E ip \in VirtualIps : virtualIp' = [virtualIp EXCEPT ![s] = ip]
<1>. tokens \in Seq(VirtualIps)
  BY DEF TypeOK, ServerTypeOK
<1>1. PICK i \in 1 .. Len(tokens) :
        /\ IsFirst(i, presented[s])
        /\ tokens' = RemoveAt(tokens, i)
        /\ virtualIp' = [virtualIp EXCEPT ![s] = Dangling(tokens', i, presented[s])]
  BY DEF TokenFound
<1>2. presented[s] \in VirtualIps
  BY <1>1 DEF IsFirst
<1>3. tokens' \in Seq(VirtualIps)
  BY <1>1 DEF RemoveAt
<1>4. Dangling(tokens', i, presented[s]) \in VirtualIps
  BY <1>2, <1>3 DEF Dangling
<1>. QED
  BY <1>1, <1>3, <1>4

(***************************************************************************)
(* Every action preserves the invariant.                                   *)
(***************************************************************************)

\* The steps of the owner: Start, Stop and Dispose.
LEMMA OwnerKeeps ==
  ASSUME TypeOK, SessionInv, OwnerStep
  PROVE  SessionInv'
<1>. USE Distinct DEF SessionInv, PoolInv, AcceptOK, PoolOK, MasterOK, FieldsOK, ThreadOK, PlayerOK,
              BeforeClear, AfterClear, Clearing, Closing, Serving, Playing, Joining, Taken,
              PoolLocked, PlayersLocked, TypeOK, PoolTypeOK, ServerTypeOK, OwnerTypeOK,
              AcceptTypeOK, SessionTypeOK, MasterTypeOK, IpOrNone, SlotOrNone,
              poolVars, serverVars, ownerVars, acceptVars, sessionVars, masterVars, leaseVars
<1>1. CASE Start
  BY <1>1 DEF Start
<1>2. CASE StartFails
  BY <1>2 DEF StartFails
<1>3. CASE NatPunch
  BY <1>3 DEF NatPunch
<1>4. CASE StopListening
  BY <1>4 DEF StopListening
<1>5. CASE JoinAccept
  BY <1>5 DEF JoinAccept
<1>6. CASE ClearBegin
  <2>1. \A t \in Slots : t >= 1
    BY DEF Slots
  <2>. QED
    BY <1>6, <2>1 DEF ClearBegin
<1>7. CASE ClearSlot
  <2>. USE MaxPooledSessionsAssumption DEF Slots
  <2>1. /\ owner = "clearing" /\ ownerSlot \in Slots
        /\ UNCHANGED <<freeList, inUse, serverVars, acceptVars, rx, masterClosed, virtualIp,
                       presented, masterVars>>
    BY <1>7 DEF ClearSlot
  <2>2. CASE ownerSlot \in sessions /\ running[ownerSlot]
    <3>1. /\ running' = [running EXCEPT ![ownerSlot] = FALSE]
          /\ owner' = "clearJoin" /\ ownerSlot' = ownerSlot /\ sessions' = sessions
      BY <1>7, <2>2 DEF ClearSlot
    <3>2. PoolOK'
      BY <2>1, <3>1
    <3>3. ASSUME NEW ip \in VirtualIps PROVE PlayerOK(ip)'
      BY <2>1, <3>1
    <3>. QED
      BY <2>1, <3>1, <3>2, <3>3
  <2>3. CASE ~(ownerSlot \in sessions /\ running[ownerSlot])
    <3>1. /\ running' = running /\ owner' = owner /\ ownerSlot' = ownerSlot + 1
          /\ sessions' = sessions \ {ownerSlot}
      BY <1>7, <2>3 DEF ClearSlot
    <3>2. PoolOK'
      BY <2>1, <2>3, <3>1
    <3>3. ASSUME NEW ip \in VirtualIps PROVE PlayerOK(ip)'
      BY <2>1, <2>3, <3>1
    <3>. QED
      BY <2>1, <2>3, <3>1, <3>2, <3>3
  <2>. QED
    BY <2>2, <2>3
<1>8. CASE ClearJoin
  <2>1. PoolOK'
    <3>1. \A t \in Slots : t >= ownerSlot /\ t # ownerSlot => t >= ownerSlot + 1
      BY <1>8 DEF ClearJoin, Slots
    <3>2. \A t \in Slots : t >= ownerSlot + 1 => t >= ownerSlot /\ t # ownerSlot
      BY <1>8 DEF ClearJoin, Slots
    <3>. QED
      BY <1>8, <3>1, <3>2 DEF ClearJoin
  <2>. QED
    BY <1>8, <2>1 DEF ClearJoin
<1>9. CASE ClearEnd
  <2>1. FreeListOK(freeList', inUse', Slots) /\ inUse' = {} /\ sessions' = {}
    BY <1>9, AllFreeOK DEF ClearEnd
  <2>2. sessions = {}
    BY <1>9, MaxPooledSessionsAssumption DEF ClearEnd, Slots
  <2>. QED
    BY <1>9, <2>1, <2>2 DEF ClearEnd
<1>10. CASE ClearPlayers
  BY <1>10 DEF ClearPlayers
<1>11. CASE StopLease
  BY <1>11 DEF StopLease
<1>12. CASE JoinLease
  BY <1>12 DEF JoinLease
<1>13. CASE DeletePortMapping
  BY <1>13 DEF DeletePortMapping
<1>. QED
  BY <1>1, <1>2, <1>3, <1>4, <1>5, <1>6, <1>7, <1>8, <1>9, <1>10, <1>11, <1>12, <1>13 DEF OwnerStep, StopStep

\* The steps of the accept thread.
LEMMA AcceptKeeps ==
  ASSUME TypeOK, SessionInv, AcceptClient \/ AcceptFails \/ AcceptStep
  PROVE  SessionInv'
<1>. USE Distinct DEF SessionInv, PoolInv, AcceptOK, PoolOK, MasterOK, FieldsOK, ThreadOK, PlayerOK,
              BeforeClear, AfterClear, Clearing, Closing, Serving, Playing, Joining, Taken,
              PoolLocked, PlayersLocked, TypeOK, PoolTypeOK, ServerTypeOK, OwnerTypeOK,
              AcceptTypeOK, SessionTypeOK, MasterTypeOK, IpOrNone, SlotOrNone,
              poolVars, serverVars, ownerVars, acceptVars, sessionVars, masterVars, leaseVars
<1>1. CASE AcceptClient
  BY <1>1 DEF AcceptClient
<1>2. CASE AcceptFails
  BY <1>2 DEF AcceptFails
<1>3. CASE AcquireFails
  BY <1>3 DEF AcquireFails
<1>4. CASE AcquireNew
  <2>1. /\ Head(freeList) \in Slots /\ Head(freeList) \notin inUse
        /\ FreeListOK(freeList', inUse \cup {Head(freeList)}, Slots)
    BY <1>4, UnlinkOK DEF AcquireNew
  <2>. QED
    BY <1>4, <2>1 DEF AcquireNew, MarkAcquired
<1>5. CASE AcquireReset
  <2>1. /\ Head(freeList) \in Slots /\ Head(freeList) \notin inUse
        /\ FreeListOK(freeList', inUse \cup {Head(freeList)}, Slots)
    BY <1>5, UnlinkOK DEF AcquireReset
  <2>. QED
    BY <1>5, <2>1 DEF AcquireReset
<1>6. CASE JoinPrevious
  BY <1>6 DEF JoinPrevious
<1>7. CASE ResetSession
  BY <1>7 DEF ResetSession, MarkAcquired
<1>8. CASE StartSession
  BY <1>8 DEF StartSession
<1>9. CASE StartSessionFails
  BY <1>9 DEF StartSessionFails
<1>10. CASE ReleaseUnstarted
  <2>1. /\ FreeListOK(freeList', inUse', Slots) /\ sessions' = sessions
        /\ inUse' = (IF acceptSlot \in sessions THEN inUse \ {acceptSlot} ELSE inUse)
    BY <1>10, ReleaseOK DEF ReleaseUnstarted
  <2>. QED
    BY <1>10, <2>1 DEF ReleaseUnstarted
<1>. QED
  BY <1>1, <1>2, <1>3, <1>4, <1>5, <1>6, <1>7, <1>8, <1>9, <1>10 DEF AcceptStep

\* The steps of the sessions and their guests.
LEMMA SessionKeeps ==
  ASSUME TypeOK, SessionInv, NEW s \in Slots, GuestStep(s) \/ SessionStep(s), ~reauthed'
  PROVE  SessionInv'
<1>. USE Distinct DEF SessionInv, PoolInv, AcceptOK, PoolOK, MasterOK, FieldsOK, ThreadOK, PlayerOK,
              BeforeClear, AfterClear, Clearing, Closing, Serving, Playing, Joining, Taken,
              PoolLocked, PlayersLocked, TypeOK, PoolTypeOK, ServerTypeOK, OwnerTypeOK,
              AcceptTypeOK, SessionTypeOK, MasterTypeOK, IpOrNone, SlotOrNone,
              poolVars, serverVars, ownerVars, acceptVars, sessionVars, masterVars, leaseVars
<1>1. CASE ReceiveToken(s)
  <2>1. presented[s] = NoIp /\ ~reauthed
    BY <1>1 DEF ReceiveToken
  <2>2. virtualIp[s] = NoIp /\ ~masterClosed[s] /\ \A ip \in VirtualIps : players[ip] # s
    BY <2>1
  <2>. QED
    BY <1>1, <2>1, <2>2 DEF ReceiveToken, Goes
<1>2. CASE ReceiveMessage(s)
  BY <1>2 DEF ReceiveMessage, Goes
<1>3. CASE ReceiveEnds(s)
  BY <1>3 DEF ReceiveEnds, Goes
<1>4. CASE TokenFound(s)
  <2>1. PICK ip \in VirtualIps : virtualIp' = [virtualIp EXCEPT ![s] = ip]
    BY <1>4, TokenFoundOK
  <2>2. /\ rx[s] = "auth" /\ rx' = [rx EXCEPT ![s] = "register"]
        /\ UNCHANGED <<poolVars, listening, players, ownerVars, acceptVars, running,
                       masterClosed, presented, masterVars>>
    BY <1>4 DEF TokenFound, Goes
  <2>3. \A a \in VirtualIps : players[a] # s
    BY <2>2
  <2>. QED
    BY <2>1, <2>2, <2>3
<1>5. CASE Register(s)
  BY <1>5 DEF Register, Goes
<1>6. CASE TokenMissing(s)
  <2>1. /\ rx[s] = "auth"
        /\ rx' = [rx EXCEPT ![s] = "authWait"] \/ rx' = [rx EXCEPT ![s] = "authFailed"]
        /\ UNCHANGED <<poolVars, serverVars, ownerVars, acceptVars, running, masterClosed,
                       virtualIp, presented, reauthed, masterVars, leaseVars>>
    BY <1>6 DEF TokenMissing, Goes
  <2>. QED
    BY <2>1
<1>7. CASE AuthWaitEnds(s)
  BY <1>7 DEF AuthWaitEnds, Goes
<1>8. CASE AuthenticationFails(s)
  BY <1>8 DEF AuthenticationFails, Goes
<1>9. CASE RouteMessage(s)
  BY <1>9 DEF RouteMessage, Goes
<1>11. CASE DisconnectProxyClient(s)
  BY <1>11 DEF DisconnectProxyClient, Goes, IsPlayer
<1>12. CASE ReleaseSession(s)
  <2>1. /\ FreeListOK(freeList', inUse', Slots) /\ sessions' = sessions
        /\ inUse' = (IF s \in sessions THEN inUse \ {s} ELSE inUse)
    BY <1>12, ReleaseOK DEF ReleaseSession
  <2>. QED
    BY <1>12, <2>1 DEF ReleaseSession, Goes
<1>13. CASE NotifyMaster(s)
  BY <1>13 DEF NotifyMaster, Goes
<1>. QED
  BY <1>1, <1>2, <1>3, <1>4, <1>5, <1>6, <1>7, <1>8, <1>9, <1>11, <1>12, <1>13 DEF GuestStep, SessionStep

\* The steps of the master client's worker in the server's handlers.
LEMMA MasterKeeps ==
  ASSUME TypeOK, SessionInv, MasterStep \/ \E ip \in VirtualIps : TokenArrives(ip) \/ StateChangeArrives(ip)
  PROVE  SessionInv'
<1>. USE Distinct DEF SessionInv, PoolInv, AcceptOK, PoolOK, MasterOK, FieldsOK, ThreadOK, PlayerOK,
              BeforeClear, AfterClear, Clearing, Closing, Serving, Playing, Joining, Taken,
              PoolLocked, PlayersLocked, TypeOK, PoolTypeOK, ServerTypeOK, OwnerTypeOK,
              AcceptTypeOK, SessionTypeOK, MasterTypeOK, IpOrNone, SlotOrNone,
              poolVars, serverVars, ownerVars, acceptVars, sessionVars, masterVars, leaseVars
<1>1. ASSUME NEW ip \in VirtualIps, TokenArrives(ip) PROVE SessionInv'
  BY <1>1 DEF TokenArrives, MasterGoes
<1>2. CASE HandleToken
  BY <1>2 DEF HandleToken, MasterGoes
<1>3. ASSUME NEW ip \in VirtualIps, StateChangeArrives(ip) PROVE SessionInv'
  BY <1>3 DEF StateChangeArrives, MasterGoes
<1>4. CASE DropTokens
  BY <1>4 DEF DropTokens, MasterGoes
<1>5. CASE NoPlayer
  BY <1>5 DEF NoPlayer, MasterGoes
<1>6. CASE StopPlayer
  BY <1>6 DEF StopPlayer
<1>7. CASE JoinPlayer
  BY <1>7 DEF JoinPlayer, MasterGoes
<1>8. CASE ReleasePlayer
  <2>1. /\ FreeListOK(freeList', inUse', Slots) /\ sessions' = sessions
        /\ inUse' = (IF masterSlot \in sessions THEN inUse \ {masterSlot} ELSE inUse)
    BY <1>8, ReleaseOK DEF ReleasePlayer
  <2>. QED
    BY <1>8, <2>1 DEF ReleasePlayer, MasterGoes
<1>. QED
  BY <1>1, <1>2, <1>3, <1>4, <1>5, <1>6, <1>7, <1>8 DEF MasterStep

\* The steps of the lease thread.
LEMMA LeaseKeeps ==
  ASSUME TypeOK, SessionInv, LeaseStep
  PROVE  SessionInv'
<1>. USE Distinct DEF SessionInv, PoolInv, AcceptOK, PoolOK, MasterOK, FieldsOK, ThreadOK, PlayerOK,
              BeforeClear, AfterClear, Clearing, Closing, Serving, Playing, Joining, Taken,
              PoolLocked, PlayersLocked, TypeOK, PoolTypeOK, ServerTypeOK, OwnerTypeOK,
              AcceptTypeOK, SessionTypeOK, MasterTypeOK, IpOrNone, SlotOrNone,
              poolVars, serverVars, ownerVars, acceptVars, sessionVars, masterVars, leaseVars
<1>1. CASE LeaseWakes
  BY <1>1 DEF LeaseWakes
<1>3. CASE RenewMapping
  BY <1>3 DEF RenewMapping
<1>. QED
  BY <1>1, <1>3 DEF LeaseStep

(***************************************************************************)
(* Type correctness.  Each action changes the variables of some threads    *)
(* and leaves those of the others alone.                                   *)
(***************************************************************************)
LEMMA SameTypes ==
  /\ PoolTypeOK /\ UNCHANGED poolVars => PoolTypeOK'
  /\ ServerTypeOK /\ UNCHANGED serverVars => ServerTypeOK'
  /\ OwnerTypeOK /\ UNCHANGED ownerVars => OwnerTypeOK'
  /\ AcceptTypeOK /\ UNCHANGED acceptVars => AcceptTypeOK'
  /\ SessionTypeOK /\ UNCHANGED sessionVars => SessionTypeOK'
  /\ MasterTypeOK /\ UNCHANGED masterVars => MasterTypeOK'
  /\ LeaseTypeOK /\ UNCHANGED leaseVars => LeaseTypeOK'
BY DEF PoolTypeOK, ServerTypeOK, OwnerTypeOK, AcceptTypeOK, SessionTypeOK, MasterTypeOK,
       LeaseTypeOK, poolVars, serverVars, ownerVars, acceptVars, sessionVars, masterVars,
       leaseVars

\* A sequence of bounded length is a sequence.
LEMMA BoundedSeqOK == ASSUME NEW S, NEW n \in Nat PROVE BoundedSeq(S, n) \subseteq Seq(S)
BY DEF BoundedSeq, SeqOf

\* The owner keeps the types.
LEMMA OwnerTypes ==
  ASSUME TypeOK, PoolInv, OwnerStep
  PROVE  TypeOK'
<1>. USE SameTypes DEF TypeOK, IpOrNone, SlotOrNone
<1>0. PoolInv'
  BY PoolStep DEF Next
<1>1. CASE Start
  <2>1. ServerTypeOK'
    BY <1>1 DEF Start, ServerTypeOK
  <2>2. OwnerTypeOK'
    BY <1>1 DEF Start, OwnerTypeOK
  <2>3. AcceptTypeOK'
    BY <1>1 DEF Start, AcceptTypeOK
  <2>. QED
    BY <1>1, <2>1, <2>2, <2>3 DEF Start
<1>2. CASE StartFails
  BY <1>2 DEF StartFails, OwnerTypeOK
<1>3. CASE NatPunch
  <2>1. OwnerTypeOK'
    BY <1>3 DEF NatPunch, OwnerTypeOK
  <2>2. LeaseTypeOK'
    BY <1>3 DEF NatPunch, LeaseTypeOK
  <2>. QED
    BY <1>3, <2>1, <2>2 DEF NatPunch
<1>4. CASE StopListening
  <2>1. ServerTypeOK'
    BY <1>4 DEF StopListening, ServerTypeOK
  <2>2. OwnerTypeOK'
    BY <1>4 DEF StopListening, OwnerTypeOK
  <2>. QED
    BY <1>4, <2>1, <2>2 DEF StopListening
<1>5. CASE JoinAccept
  BY <1>5 DEF JoinAccept, OwnerTypeOK
<1>6. CASE ClearBegin
  BY <1>6, MaxPooledSessionsAssumption DEF ClearBegin, OwnerTypeOK
<1>7. CASE ClearSlot
  <2>1. PoolTypeOK'
    BY <1>0, <1>7 DEF ClearSlot, PoolInv, Taken, FreeListOK, PoolTypeOK
  <2>2. OwnerTypeOK'
    BY <1>7, MaxPooledSessionsAssumption DEF ClearSlot, PoolInv, Slots,
       OwnerTypeOK
  <2>3. SessionTypeOK'
    BY <1>7 DEF ClearSlot, SessionTypeOK
  <2>. QED
    BY <1>7, <2>1, <2>2, <2>3 DEF ClearSlot
<1>8. CASE ClearJoin
  <2>1. PoolTypeOK'
    BY <1>0, <1>8 DEF ClearJoin, PoolInv, Taken, FreeListOK, PoolTypeOK
  <2>2. OwnerTypeOK'
    BY <1>8, MaxPooledSessionsAssumption DEF ClearJoin, PoolInv, Slots,
       OwnerTypeOK
  <2>. QED
    BY <1>8, <2>1, <2>2 DEF ClearJoin
<1>9. CASE ClearEnd
  <2>1. PoolTypeOK'
    BY <1>0, <1>9 DEF ClearEnd, PoolInv, Taken, FreeListOK, AllFree,
       PoolTypeOK
  <2>2. OwnerTypeOK'
    BY <1>9 DEF ClearEnd, OwnerTypeOK
  <2>. QED
    BY <1>9, <2>1, <2>2 DEF ClearEnd
<1>10. CASE ClearPlayers
  <2>1. ServerTypeOK'
    BY <1>10 DEF ClearPlayers, Slots, NoSlot, ServerTypeOK
  <2>2. OwnerTypeOK'
    BY <1>10 DEF ClearPlayers, OwnerTypeOK
  <2>. QED
    BY <1>10, <2>1, <2>2 DEF ClearPlayers
<1>11. CASE StopLease
  <2>1. OwnerTypeOK'
    BY <1>11 DEF StopLease, OwnerTypeOK
  <2>2. LeaseTypeOK'
    BY <1>11 DEF StopLease, LeaseTypeOK
  <2>. QED
    BY <1>11, <2>1, <2>2 DEF StopLease
<1>12. CASE JoinLease
  BY <1>12 DEF JoinLease, OwnerTypeOK
<1>13. CASE DeletePortMapping
  <2>1. OwnerTypeOK'
    BY <1>13 DEF DeletePortMapping, OwnerTypeOK
  <2>2. LeaseTypeOK'
    BY <1>13 DEF DeletePortMapping, LeaseTypeOK
  <2>. QED
    BY <1>13, <2>1, <2>2 DEF DeletePortMapping
<1>. QED
  BY <1>1, <1>2, <1>3, <1>4, <1>5, <1>6, <1>7, <1>8, <1>9, <1>10, <1>11, <1>12, <1>13
     DEF OwnerStep, StopStep

\* The accept thread keeps the types.
LEMMA AcceptTypes ==
  ASSUME TypeOK, PoolInv, AcceptClient \/ AcceptFails \/ AcceptStep
  PROVE  TypeOK'
<1>. USE SameTypes DEF TypeOK, IpOrNone, SlotOrNone
<1>0. PoolInv'
  BY PoolStep DEF Next
<1>1. CASE AcceptClient
  BY <1>1 DEF AcceptClient, AcceptTypeOK
<1>2. CASE AcceptFails
  BY <1>2 DEF AcceptFails, AcceptTypeOK
<1>3. CASE AcquireFails
  BY <1>3 DEF AcquireFails, AcceptTypeOK
<1>4. CASE AcquireNew
  <2>1. PoolTypeOK'
    BY <1>0, <1>4 DEF AcquireNew, PoolInv, Taken, FreeListOK,
       MarkAcquired, UnlinkFirst, PoolTypeOK
  <2>2. AcceptTypeOK'
    BY <1>4, UnlinkOK DEF AcquireNew, AcceptTypeOK
  <2>3. SessionTypeOK'
    BY <1>4, UnlinkOK DEF AcquireNew, SessionTypeOK
  <2>. QED
    BY <1>4, <2>1, <2>2, <2>3 DEF AcquireNew
<1>5. CASE AcquireReset
  <2>1. PoolTypeOK'
    BY <1>0, <1>5 DEF AcquireReset, PoolInv, Taken, FreeListOK,
       UnlinkFirst, PoolTypeOK
  <2>2. AcceptTypeOK'
    BY <1>5, UnlinkOK DEF AcquireReset, AcceptTypeOK
  <2>3. SessionTypeOK'
    BY <1>5, UnlinkOK DEF AcquireReset, SessionTypeOK
  <2>. QED
    BY <1>5, <2>1, <2>2, <2>3 DEF AcquireReset
<1>6. CASE JoinPrevious
  BY <1>6 DEF JoinPrevious, AcceptTypeOK
<1>7. CASE ResetSession
  <2>1. PoolTypeOK'
    BY <1>0, <1>7 DEF ResetSession, PoolInv, Taken, FreeListOK,
       MarkAcquired, UnlinkFirst, PoolTypeOK
  <2>2. AcceptTypeOK'
    BY <1>7 DEF ResetSession, AcceptTypeOK
  <2>3. SessionTypeOK'
    BY <1>7 DEF ResetSession, SessionTypeOK
  <2>. QED
    BY <1>7, <2>1, <2>2, <2>3 DEF ResetSession
<1>8. CASE StartSession
  <2>1. AcceptTypeOK'
    BY <1>8 DEF StartSession, AcceptTypeOK
  <2>2. SessionTypeOK'
    BY <1>8 DEF StartSession, SessionTypeOK
  <2>. QED
    BY <1>8, <2>1, <2>2 DEF StartSession
<1>9. CASE StartSessionFails
  BY <1>9 DEF StartSessionFails, AcceptTypeOK
<1>10. CASE ReleaseUnstarted
  <2>1. PoolTypeOK'
    BY <1>0, <1>10 DEF ReleaseUnstarted, PoolInv, Taken, FreeListOK,
       Release, poolVars, PoolTypeOK
  <2>2. AcceptTypeOK'
    BY <1>10 DEF ReleaseUnstarted, AcceptTypeOK
  <2>. QED
    BY <1>10, <2>1, <2>2 DEF ReleaseUnstarted
<1>. QED
  BY <1>1, <1>2, <1>3, <1>4, <1>5, <1>6, <1>7, <1>8, <1>9, <1>10 DEF AcceptStep

\* The sessions keep the types.
LEMMA SessionTypes ==
  ASSUME TypeOK, PoolInv, NEW s \in Slots, GuestStep(s) \/ SessionStep(s)
  PROVE  TypeOK'
<1>. USE SameTypes DEF TypeOK, IpOrNone, SlotOrNone
<1>0. PoolInv'
  BY PoolStep DEF Next
<1>1. CASE ReceiveToken(s)
  BY <1>1 DEF ReceiveToken, Goes, SessionTypeOK
<1>2. CASE ReceiveMessage(s)
  BY <1>2 DEF ReceiveMessage, Goes, SessionTypeOK
<1>3. CASE ReceiveEnds(s)
  BY <1>3 DEF ReceiveEnds, Goes, SessionTypeOK
<1>4. CASE TokenFound(s)
  <2>1. ServerTypeOK'
    BY <1>4, TokenFoundOK DEF TokenFound, ServerTypeOK
  <2>2. SessionTypeOK'
    BY <1>4, TokenFoundOK DEF TokenFound, Goes, SessionTypeOK
  <2>. QED
    BY <1>4, <2>1, <2>2 DEF TokenFound
<1>5. CASE Register(s)
  <2>1. ServerTypeOK'
    BY <1>5 DEF Register, ServerTypeOK
  <2>2. SessionTypeOK'
    BY <1>5 DEF Register, Goes, SessionTypeOK
  <2>. QED
    BY <1>5, <2>1, <2>2 DEF Register
<1>6. CASE TokenMissing(s)
  BY <1>6 DEF TokenMissing, Goes, SessionTypeOK
<1>7. CASE AuthWaitEnds(s)
  <2>1. ServerTypeOK'
    BY <1>7 DEF AuthWaitEnds, ServerTypeOK
  <2>2. SessionTypeOK'
    BY <1>7 DEF AuthWaitEnds, Goes, SessionTypeOK
  <2>. QED
    BY <1>7, <2>1, <2>2 DEF AuthWaitEnds
<1>8. CASE AuthenticationFails(s)
  BY <1>8 DEF AuthenticationFails, Goes, SessionTypeOK
<1>9. CASE RouteMessage(s)
  BY <1>9 DEF RouteMessage, Goes, SessionTypeOK
<1>11. CASE DisconnectProxyClient(s)
  <2>1. ServerTypeOK'
    BY <1>11 DEF DisconnectProxyClient, ServerTypeOK
  <2>2. SessionTypeOK'
    BY <1>11 DEF DisconnectProxyClient, Goes, SessionTypeOK
  <2>. QED
    BY <1>11, <2>1, <2>2 DEF DisconnectProxyClient
<1>12. CASE ReleaseSession(s)
  <2>1. PoolTypeOK'
    BY <1>0, <1>12 DEF ReleaseSession, PoolInv, Taken, FreeListOK,
       Release, poolVars, PoolTypeOK
  <2>2. SessionTypeOK'
    BY <1>12 DEF ReleaseSession, Goes, SessionTypeOK
  <2>. QED
    BY <1>12, <2>1, <2>2 DEF ReleaseSession
<1>13. CASE NotifyMaster(s)
  BY <1>13 DEF NotifyMaster, Goes, SessionTypeOK
<1>. QED
  BY <1>1, <1>2, <1>3, <1>4, <1>5, <1>6, <1>7, <1>8, <1>9, <1>11, <1>12, <1>13
     DEF GuestStep, SessionStep

\* The master client's worker keeps the types.
LEMMA MasterTypes ==
  ASSUME TypeOK, PoolInv, MasterStep \/ \E ip \in VirtualIps : TokenArrives(ip) \/ StateChangeArrives(ip)
  PROVE  TypeOK'
<1>. USE SameTypes DEF TypeOK, IpOrNone, SlotOrNone
<1>0. PoolInv'
  BY PoolStep DEF Next
<1>1. ASSUME NEW ip \in VirtualIps, TokenArrives(ip) PROVE TypeOK'
  BY <1>1 DEF TokenArrives, MasterGoes, MasterTypeOK
<1>2. CASE HandleToken
  <2>1. ServerTypeOK'
    BY <1>2 DEF HandleToken, MasterGoes, PoolInv, ServerTypeOK
  <2>2. MasterTypeOK'
    BY <1>2 DEF HandleToken, MasterGoes, MasterTypeOK
  <2>. QED
    BY <1>2, <2>1, <2>2 DEF HandleToken
<1>3. ASSUME NEW ip \in VirtualIps, StateChangeArrives(ip) PROVE TypeOK'
  BY <1>3 DEF StateChangeArrives, MasterGoes, MasterTypeOK
<1>4. CASE DropTokens
  <2>1. ServerTypeOK'
    BY <1>4, BoundedSeqOK DEF DropTokens, MasterGoes, ServerTypeOK
  <2>2. MasterTypeOK'
    BY <1>4 DEF DropTokens, MasterGoes, MasterTypeOK
  <2>. QED
    BY <1>4, <2>1, <2>2 DEF DropTokens
<1>5. CASE NoPlayer
  BY <1>5 DEF NoPlayer, MasterGoes, MasterTypeOK
<1>6. CASE StopPlayer
  <2>1. SessionTypeOK'
    BY <1>6 DEF StopPlayer, SessionTypeOK
  <2>2. MasterTypeOK'
    BY <1>6 DEF StopPlayer, MasterTypeOK, ServerTypeOK, PoolInv
  <2>. QED
    BY <1>6, <2>1, <2>2 DEF StopPlayer
<1>7. CASE JoinPlayer
  BY <1>7 DEF JoinPlayer, MasterGoes, MasterTypeOK
<1>8. CASE ReleasePlayer
  <2>1. PoolTypeOK'
    BY <1>0, <1>8 DEF ReleasePlayer, PoolInv, Taken, FreeListOK,
       Release, poolVars, PoolTypeOK
  <2>2. ServerTypeOK'
    BY <1>8 DEF ReleasePlayer, MasterGoes, ServerTypeOK
  <2>3. MasterTypeOK'
    BY <1>8 DEF ReleasePlayer, MasterGoes, MasterTypeOK
  <2>. QED
    BY <1>8, <2>1, <2>2, <2>3 DEF ReleasePlayer
<1>. QED
  BY <1>1, <1>2, <1>3, <1>4, <1>5, <1>6, <1>7, <1>8 DEF MasterStep

\* The lease thread keeps the types.
LEMMA LeaseTypes ==
  ASSUME TypeOK, PoolInv, LeaseStep
  PROVE  TypeOK'
<1>. USE SameTypes DEF TypeOK, IpOrNone, SlotOrNone
<1>0. PoolInv'
  BY PoolStep DEF Next
<1>1. CASE LeaseWakes
  BY <1>1 DEF LeaseWakes, LeaseLoops, LeaseTypeOK
<1>3. CASE RenewMapping
  BY <1>3 DEF RenewMapping, LeaseLoops, LeaseTypeOK
<1>. QED
  BY <1>1, <1>3 DEF LeaseStep

(***************************************************************************)
(* The lease thread.                                                       *)
(***************************************************************************)
LEMMA LeaseKept ==
  ASSUME TypeOK, LeaseInv, [Next]_vars
  PROVE  LeaseInv'
<1>. USE DEF LeaseInv
<1>1. CASE OwnerStep
  <2>1. CASE NatPunch
    BY <2>1 DEF NatPunch
  <2>2. CASE StopLease
    BY <2>2 DEF StopLease
  <2>3. CASE DeletePortMapping
    BY <2>3 DEF DeletePortMapping
  <2>4. CASE JoinLease
    BY <2>4 DEF JoinLease, leaseVars
  <2>5. CASE Start \/ StartFails \/ StopListening \/ JoinAccept \/ ClearBegin
    BY <2>5 DEF Start, StartFails, StopListening, JoinAccept, ClearBegin, leaseVars
  <2>6. CASE ClearSlot \/ ClearJoin \/ ClearEnd \/ ClearPlayers
    BY <2>6 DEF ClearSlot, ClearJoin, ClearEnd, ClearPlayers, leaseVars
  <2>. QED
    BY <1>1, <2>1, <2>2, <2>3, <2>4, <2>5, <2>6 DEF OwnerStep, StopStep
<1>2. CASE LeaseStep
  <2>1. CASE LeaseWakes
    BY <2>1 DEF LeaseWakes, LeaseLoops, ownerVars
  <2>3. CASE RenewMapping
    <3>1. owner' = owner /\ leaseRunning' = leaseRunning /\ hasPortMapping' = hasPortMapping
      BY <2>3 DEF RenewMapping, ownerVars
    <3>2. lease = "mapping" /\ hasPortMapping /\ (lease' # "off" => leaseRunning)
      BY <2>3 DEF RenewMapping, LeaseLoops
    <3>3. lease' # "off" => owner \notin {"new", "punch", "unmap", "done"}
      BY <3>2
    <3>. QED
      BY <3>1, <3>2, <3>3
  <2>. QED
    BY <1>2, <2>1, <2>3 DEF LeaseStep
<1>3. CASE UNCHANGED <<ownerVars, leaseVars>>
  BY <1>3 DEF ownerVars, leaseVars
<1>4. AcceptClient \/ AcceptFails \/ AcceptStep => UNCHANGED <<ownerVars, leaseVars>>
  BY DEF AcceptClient, AcceptFails, AcceptStep, AcquireFails, AcquireNew, AcquireReset,
         JoinPrevious, ResetSession, StartSession, StartSessionFails, ReleaseUnstarted
<1>5. ASSUME NEW s \in Slots, GuestStep(s) \/ SessionStep(s)
      PROVE  UNCHANGED <<ownerVars, leaseVars>>
  BY <1>5 DEF GuestStep, SessionStep, ReceiveToken, ReceiveMessage, ReceiveEnds, TokenFound,
         Register, TokenMissing, AuthWaitEnds, AuthenticationFails, RouteMessage,
         DisconnectProxyClient, ReleaseSession, NotifyMaster
<1>6. ASSUME NEW ip \in VirtualIps, TokenArrives(ip) \/ StateChangeArrives(ip)
      PROVE  UNCHANGED <<ownerVars, leaseVars>>
  BY <1>6 DEF TokenArrives, StateChangeArrives
<1>7. MasterStep => UNCHANGED <<ownerVars, leaseVars>>
  BY DEF MasterStep, HandleToken, DropTokens, NoPlayer, StopPlayer, JoinPlayer, ReleasePlayer
<1>8. UNCHANGED vars => UNCHANGED <<ownerVars, leaseVars>>
  BY DEF vars
<1>. QED
  BY <1>1, <1>2, <1>3, <1>4, <1>5, <1>6, <1>7, <1>8 DEF Next

(***************************************************************************)
(* The theorems.                                                           *)
(***************************************************************************)
LEMMA InitOK == Init => TypeOK /\ PoolInv /\ SessionInv /\ LeaseInv
<1>. SUFFICES ASSUME Init PROVE TypeOK /\ PoolInv /\ SessionInv /\ LeaseInv
  OBVIOUS
<1>1. FreeListOK(freeList, inUse, Slots) /\ inUse = {} /\ sessions = {}
  BY AllFreeOK DEF Init, PoolInit
<1>2. TypeOK
  <2>1. PoolTypeOK
    BY <1>1 DEF PoolTypeOK, FreeListOK
  <2>2. OwnerTypeOK
    BY MaxPooledSessionsAssumption DEF Init, OwnerTypeOK
  <2>a. tokens \in Seq(VirtualIps)
    BY DEF Init
  <2>3. ServerTypeOK /\ AcceptTypeOK /\ MasterTypeOK
    BY <2>a DEF Init, ServerTypeOK, AcceptTypeOK, MasterTypeOK, IpOrNone, SlotOrNone
  <2>4. SessionTypeOK /\ LeaseTypeOK
    BY DEF Init, SessionTypeOK, LeaseTypeOK, IpOrNone
  <2>. QED
    BY <2>1, <2>2, <2>3, <2>4 DEF TypeOK
<1>3. SessionInv
  BY <1>1, Distinct DEF Init, SessionInv, PoolInv, AcceptOK, PoolOK, MasterOK, FieldsOK, ThreadOK,
     PlayerOK, Serving, Playing, Joining, Taken, PlayersLocked, AfterClear
<1>4. LeaseInv
  BY DEF Init, LeaseInv
<1>. QED
  BY <1>2, <1>3, <1>4 DEF SessionInv

\* Every step keeps the types.
LEMMA TypesStep == TypeOK /\ PoolInv /\ [Next]_vars => TypeOK'
<1>1. ASSUME TypeOK, UNCHANGED vars PROVE TypeOK'
  BY <1>1, SameTypes DEF vars, TypeOK
<1>. QED
  BY <1>1, OwnerTypes, AcceptTypes, SessionTypes, MasterTypes, LeaseTypes DEF Next

\* Every step that is not a guest's second token keeps the invariant on sessions.
LEMMA StepOK ==
  ASSUME TypeOK, SessionInv, [Next]_vars, ~reauthed'
  PROVE  SessionInv'
<1>1. CASE OwnerStep
  BY <1>1, OwnerKeeps
<1>2. CASE AcceptClient \/ AcceptFails \/ AcceptStep
  BY <1>2, AcceptKeeps
<1>3. ASSUME NEW s \in Slots, GuestStep(s) \/ SessionStep(s) PROVE SessionInv'
  BY <1>3, SessionKeeps
<1>4. CASE MasterStep \/ \E ip \in VirtualIps : TokenArrives(ip) \/ StateChangeArrives(ip)
  BY <1>4, MasterKeeps
<1>5. CASE LeaseStep
  BY <1>5, LeaseKeeps
<1>6. CASE UNCHANGED vars
  BY <1>6 DEF SessionInv, PoolInv, AcceptOK, PoolOK, MasterOK, FieldsOK, ThreadOK, PlayerOK,
     BeforeClear, AfterClear, Clearing, Closing, Taken, PlayersLocked, vars, poolVars,
     serverVars, ownerVars, acceptVars, sessionVars, masterVars
<1>. QED
  BY <1>1, <1>2, <1>3, <1>4, <1>5, <1>6 DEF Next

\* Once a guest has presented a second token, that is remembered.
LEMMA ReauthedStays == TypeOK /\ [Next]_vars /\ ~reauthed' => ~reauthed
BY DEF TypeOK, SessionTypeOK, Next, OwnerStep, StopStep, Start, StartFails, NatPunch, StopListening,
   JoinAccept, ClearBegin, ClearSlot, ClearJoin, ClearEnd, ClearPlayers, StopLease, JoinLease,
   DeletePortMapping, AcceptClient, AcceptFails, AcceptStep, AcquireFails, AcquireNew, AcquireReset,
   JoinPrevious, ResetSession, StartSession, StartSessionFails, ReleaseUnstarted, GuestStep,
   SessionStep, ReceiveToken, ReceiveMessage, ReceiveEnds, TokenFound, Register, TokenMissing,
   AuthWaitEnds, AuthenticationFails, RouteMessage, DisconnectProxyClient, ReleaseSession,
   NotifyMaster, TokenArrives, StateChangeArrives, MasterStep, HandleToken, DropTokens, NoPlayer,
   StopPlayer, JoinPlayer, ReleasePlayer, LeaseStep, LeaseWakes, RenewMapping, vars, sessionVars

\* Types, the pool's own invariant and the lease thread's hold of the whole server,
\* whatever the number of its slots and of the addresses the master hands out; the
\* invariant of the sessions holds until a guest presents a second token.
THEOREM ServerInvariant ==
  Spec => [](TypeOK /\ PoolInv /\ LeaseInv /\ (~reauthed => SessionInv))
<1>. DEFINE Inv == TypeOK /\ PoolInv /\ LeaseInv /\ (~reauthed => SessionInv)
<1>1. Init => Inv
  BY InitOK
<1>2. Inv /\ [Next]_vars => Inv'
  <2>. SUFFICES ASSUME Inv, [Next]_vars PROVE Inv'
    OBVIOUS
  <2>1. TypeOK' /\ PoolInv' /\ LeaseInv'
    BY TypesStep, PoolStep, LeaseKept
  <2>2. ASSUME ~reauthed' PROVE SessionInv'
    BY <2>2, ReauthedStays, StepOK
  <2>. QED
    BY <2>1, <2>2
<1>. QED
  BY <1>1, <1>2, PTL DEF Spec

\* Every variable of the server, its sessions and its threads keeps its type.
THEOREM ServerTypes == Spec => []TypeOK
BY ServerInvariant, PTL

\* The pool's free list and its marks agree whenever its mutex is free, although a
\* session's own thread, the master's worker and the accept thread all give slots
\* back, and whatever tokens the guests present.
THEOREM SlotsStayConsistent == Spec => []SlotsConsistent
<1>1. PoolInv => SlotsConsistent
  BY DEF PoolInv, SlotsConsistent, PoolLocked, Taken
<1>. QED
  BY <1>1, ServerInvariant, PTL

\* Until a guest presents a second token on its connection: whenever _playersLock
\* is free, the session of a player is in use and carries the player's address; no
\* message is routed to the guest that took over a slot, also while Clear deletes
\* the sessions.
THEOREM PlayersStayActive == Spec => []PlayersAreActive
<1>1. TypeOK /\ (~reauthed => SessionInv) => PlayersAreActive
  BY DEF TypeOK, SessionInv, PlayerOK, Closing, PlayersAreActive
<1>. QED
  BY <1>1, ServerInvariant, PTL

\* Until then, and while the server listens, the thread of a slot that is back in
\* the pool serves no guest.
THEOREM FreeSlotsStayQuiet == Spec => []FreeSlotIsQuiet
<1>1. TypeOK /\ (~reauthed => SessionInv) => FreeSlotIsQuiet
  BY DEF TypeOK, SessionTypeOK, SessionInv, AcceptOK, ThreadOK, BeforeClear, Serving,
         FreeSlotIsQuiet
<1>. QED
  BY <1>1, ServerInvariant, PTL

\* From Dispose's deletion of the port mapping on, successful or not, nothing maps
\* the port again: the lease thread has ended.
THEOREM DisposeEndsMapping == Spec => MappingStaysDeleted
<1>1. TypeOK /\ LeaseInv /\ [Next]_vars => (mapped' /\ owner \in {"unmap", "done"} => mapped)
  <2>. SUFFICES ASSUME TypeOK, LeaseInv, [Next]_vars, owner \in {"unmap", "done"}, mapped'
                PROVE  mapped
    OBVIOUS
  <2>1. lease = "off"
    BY DEF LeaseInv
  <2>. QED
    BY <2>1 DEF TypeOK, LeaseTypeOK, Next, OwnerStep, StopStep, Start, StartFails, NatPunch,
       StopListening, JoinAccept, ClearBegin, ClearSlot, ClearJoin, ClearEnd, ClearPlayers,
       StopLease, JoinLease, DeletePortMapping, AcceptClient, AcceptFails, AcceptStep,
       AcquireFails, AcquireNew, AcquireReset, JoinPrevious, ResetSession, StartSession,
       StartSessionFails, ReleaseUnstarted, GuestStep, SessionStep, ReceiveToken, ReceiveMessage,
       ReceiveEnds, TokenFound, Register, TokenMissing, AuthWaitEnds, AuthenticationFails,
       RouteMessage, DisconnectProxyClient, ReleaseSession, NotifyMaster, TokenArrives,
       StateChangeArrives, MasterStep, HandleToken, DropTokens, NoPlayer, StopPlayer, JoinPlayer,
       ReleasePlayer, LeaseStep, LeaseWakes, RenewMapping, vars, leaseVars
<1>. QED
  BY <1>1, ServerInvariant, PTL DEF Spec, MappingStaysDeleted

=============================================================================
