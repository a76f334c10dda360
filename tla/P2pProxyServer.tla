--------------------------- MODULE P2pProxyServer ---------------------------
(***************************************************************************)
(* The relay a hosting console runs for its guests: P2pProxyServer, the    *)
(* P2pProxySessions it accepts and the SessionPool that keeps them         *)
(* (ryuldn/proxy/p2p_proxy_server.cpp, p2p_proxy_session.cpp).             *)
(*                                                                         *)
(* Threads:                                                                *)
(*   owner    the thread that starts and disposes of the server            *)
(*            (ConfigureAccessPoint, DisconnectInternal)                   *)
(*   accept   AcceptLoop                                                   *)
(*   rx[s]    ReceiveLoop of the session in slot s                         *)
(*   master   the master client's worker, in HandleToken and               *)
(*            HandleStateChange                                            *)
(*   lease    LeaseRenewalLoop                                             *)
(*                                                                         *)
(* Three non-recursive mutexes order them: the pool's _mutex, _playersLock *)
(* and _tokensLock.  Each is held across a point where its holder waits in *)
(* the program points named below, and is free everywhere else.  A thread  *)
(* that joins another one waits for the other's pc to be "off".            *)
(*                                                                         *)
(* The guests are external.  They connect, present tokens, send data and   *)
(* disconnect at any time.  P2pProxyClient::PerformAuth presents one token *)
(* per connection; the server does not insist on it, and reauthed          *)
(* remembers that a guest has presented another.                           *)
(* A token is abstracted to the virtual address it admits, a               *)
(* message to the fact that it takes _playersLock.  That lock is also held *)
(* while a message is sent on, which is assumed to end and is part of the  *)
(* step that takes it.                                                     *)
(***************************************************************************)
EXTENDS SessionPool, SequencesExt

CONSTANTS VirtualIps,     \* addresses the master server hands out
          MasterCloses,   \* those the master may report as disconnected
          MaxTokens,      \* bound on the tokens that wait for one address
          MayReauth,      \* whether guests present a second token on one connection
          MayDispose      \* whether the server is disposed of

ASSUME VirtualIpsAssumption == VirtualIps \subseteq Nat \ {0}
ASSUME MasterClosesAssumption == MasterCloses \subseteq VirtualIps
ASSUME MaxTokensAssumption == MaxTokens \in Nat
ASSUME MayAssumption == MayReauth \in BOOLEAN /\ MayDispose \in BOOLEAN

VARIABLES
  listening,       \* the server's _running, and its listen socket
  players,         \* _players: the slot of each virtual address, or NoSlot
  tokens,          \* _waitingTokens
  owner, ownerSlot,    \* pc of the owner, and the slot Clear is at
  accept, acceptSlot,  \* pc of the accept thread, and the slot it works on
  rx,              \* pc of each session's receive thread
  running,         \* _running of each session
  masterClosed,    \* _masterClosed of each session
  virtualIp,       \* _virtualIpAddress of each session, or NoIp
  presented,       \* the token each session's guest presented last, or NoIp
  reauthed,        \* history: a guest has presented a second token on its connection
  master, masterIp, masterSlot,  \* pc of the master's worker, what it handles
  lease, leaseRunning,  \* pc of the lease thread, _leaseThreadRunning
  hasPortMapping,  \* _hasPortMapping
  mapped           \* the router forwards the port

serverVars  == <<listening, players, tokens>>
ownerVars   == <<owner, ownerSlot>>
acceptVars  == <<accept, acceptSlot>>
sessionVars == <<rx, running, masterClosed, virtualIp, presented, reauthed>>
masterVars  == <<master, masterIp, masterSlot>>
leaseVars   == <<lease, leaseRunning, hasPortMapping, mapped>>
vars == <<poolVars, serverVars, ownerVars, acceptVars, sessionVars, masterVars, leaseVars>>

NoIp == 0
IpOrNone == VirtualIps \cup {NoIp}
SlotOrNone == Slots \cup {NoSlot}

\* The values each thread's variables take.
ServerTypeOK ==
  /\ listening \in BOOLEAN
  /\ players \in [VirtualIps -> SlotOrNone] /\ tokens \in Seq(VirtualIps)
OwnerTypeOK ==
  /\ owner \in {"new", "punch", "up", "joinAccept", "clear", "clearing", "clearJoin",
                "clearPlayers", "stopLease", "joinLease", "unmap", "done"}
  /\ ownerSlot \in 1 .. MaxPooledSessions + 1
AcceptTypeOK ==
  /\ accept \in {"off", "accept", "acquire", "resetJoin", "reset", "start", "startFailed"}
  /\ acceptSlot \in SlotOrNone
SessionTypeOK ==
  /\ rx \in [Slots -> {"off", "recv", "auth", "authWait", "register", "authFailed",
                       "selfJoin", "route", "leave", "release", "notify"}]
  /\ running \in [Slots -> BOOLEAN] /\ masterClosed \in [Slots -> BOOLEAN]
  /\ virtualIp \in [Slots -> IpOrNone] /\ presented \in [Slots -> IpOrNone]
  /\ reauthed \in BOOLEAN
MasterTypeOK ==
  /\ master \in {"idle", "token", "tokens", "players", "join", "release"}
  /\ masterIp \in IpOrNone /\ masterSlot \in SlotOrNone
LeaseTypeOK ==
  /\ lease \in {"off", "sleep", "mapping"} /\ leaseRunning \in BOOLEAN
  /\ hasPortMapping \in BOOLEAN /\ mapped \in BOOLEAN

\* The type invariant of the server, its sessions and its threads.
TypeOK == /\ PoolTypeOK /\ ServerTypeOK /\ OwnerTypeOK /\ AcceptTypeOK
          /\ SessionTypeOK /\ MasterTypeOK /\ LeaseTypeOK

Init ==
  /\ PoolInit
  /\ listening = FALSE /\ tokens = <<>>
  /\ players = [ip \in VirtualIps |-> NoSlot]
  /\ owner = "new" /\ ownerSlot = 1
  /\ accept = "off" /\ acceptSlot = NoSlot
  /\ rx = [s \in Slots |-> "off"]
  /\ running = [s \in Slots |-> FALSE] /\ masterClosed = [s \in Slots |-> FALSE]
  /\ virtualIp = [s \in Slots |-> NoIp] /\ presented = [s \in Slots |-> NoIp]
  /\ reauthed = FALSE
  /\ master = "idle" /\ masterIp = NoIp /\ masterSlot = NoSlot
  /\ lease = "off" /\ leaseRunning = FALSE
  /\ hasPortMapping = FALSE /\ mapped = FALSE

-----------------------------------------------------------------------------
(* The mutexes, where they are held across a wait *)

PoolLocked    == accept \in {"resetJoin", "reset"} \/ owner \in {"clearing", "clearJoin"}
PlayersLocked == master \in {"join", "release"}
TokensLocked  == \E s \in Slots : rx[s] \in {"authWait", "register"}

-----------------------------------------------------------------------------
(* The owner: ConfigureAccessPoint, then Dispose *)

Start ==
  /\ owner = "new"
  /\ listening' = TRUE /\ accept' = "accept" /\ owner' = "punch"
  /\ UNCHANGED <<poolVars, players, tokens, ownerSlot, acceptSlot,
                 sessionVars, masterVars, leaseVars>>

\* The port is taken: the server is deleted.
StartFails ==
  /\ owner = "new"
  /\ owner' = "done"
  /\ UNCHANGED <<poolVars, serverVars, ownerSlot, acceptVars, sessionVars, masterVars,
                 leaseVars>>

\* A port is mapped; the mapping is used even if its lease thread cannot start.
NatPunch ==
  /\ owner = "punch"
  /\ hasPortMapping' = TRUE /\ mapped' = TRUE
  /\ \/ lease' = "sleep" /\ leaseRunning' = TRUE
     \/ UNCHANGED <<lease, leaseRunning>>
  /\ owner' = "up"
  /\ UNCHANGED <<poolVars, serverVars, ownerSlot, acceptVars, sessionVars, masterVars>>

\* Stop(), up to the accept thread's join.  It begins a failed NatPunch's clean-up
\* and a Dispose.
StopListening ==
  /\ owner = "punch" \/ (owner = "up" /\ MayDispose)
  /\ listening' = FALSE /\ owner' = "joinAccept"
  /\ UNCHANGED <<poolVars, players, tokens, ownerSlot, acceptVars,
                 sessionVars, masterVars, leaseVars>>

JoinAccept ==
  /\ owner = "joinAccept" /\ accept = "off"
  /\ owner' = "clear"
  /\ UNCHANGED <<poolVars, serverVars, ownerSlot, acceptVars, sessionVars, masterVars,
                 leaseVars>>

\* SessionPool::Clear locks the pool ...
ClearBegin ==
  /\ owner = "clear" /\ ~PoolLocked
  /\ owner' = "clearing" /\ ownerSlot' = 1
  /\ UNCHANGED <<poolVars, serverVars, acceptVars, sessionVars, masterVars, leaseVars>>

\* Mutant of ClearSlot: the loop goes one slot too far.
ClearSlotOffByOne ==
  /\ owner = "clearing" /\ ownerSlot \in 1 .. MaxPooledSessions + 1
  /\ IF ownerSlot \in sessions /\ running[ownerSlot]
       THEN /\ running' = [running EXCEPT ![ownerSlot] = FALSE]
            /\ owner' = "clearJoin"
            /\ UNCHANGED <<ownerSlot, sessions>>
       ELSE /\ sessions' = sessions \ {ownerSlot}
            /\ ownerSlot' = ownerSlot + 1
            /\ UNCHANGED <<owner, running>>
  /\ UNCHANGED <<freeList, inUse, serverVars, acceptVars, rx, masterClosed, virtualIp,
                 presented, reauthed, masterVars, leaseVars>>

\* ... and deletes session after session.  A session that runs is stopped first,
\* which joins its receive thread; one whose _running is not set is not.
ClearSlot ==
  /\ owner = "clearing" /\ ownerSlot \in Slots
  /\ IF ownerSlot \in sessions /\ running[ownerSlot]
       THEN /\ running' = [running EXCEPT ![ownerSlot] = FALSE]
            /\ owner' = "clearJoin"
            /\ UNCHANGED <<ownerSlot, sessions>>
       ELSE /\ sessions' = sessions \ {ownerSlot}
            /\ ownerSlot' = ownerSlot + 1
            /\ UNCHANGED <<owner, running>>
  /\ UNCHANGED <<freeList, inUse, serverVars, acceptVars, rx, masterClosed, virtualIp,
                 presented, reauthed, masterVars, leaseVars>>

ClearJoin ==
  /\ owner = "clearJoin" /\ rx[ownerSlot] = "off"
  /\ sessions' = sessions \ {ownerSlot}
  /\ ownerSlot' = ownerSlot + 1
  /\ owner' = "clearing"
  /\ UNCHANGED <<freeList, inUse, serverVars, acceptVars, sessionVars, masterVars,
                 leaseVars>>

\* The pool is reset, ...
ClearEnd ==
  /\ owner = "clearing" /\ ownerSlot \notin Slots
  /\ AllFree(freeList', inUse', sessions')
  /\ owner' = "clearPlayers"
  /\ UNCHANGED <<serverVars, ownerSlot, acceptVars, sessionVars, masterVars, leaseVars>>

\* ... and _players cleared without its lock.
ClearPlayers ==
  /\ owner = "clearPlayers"
  /\ players' = [ip \in VirtualIps |-> NoSlot]
  /\ owner' = "stopLease"
  /\ UNCHANGED <<poolVars, listening, tokens, ownerSlot, acceptVars,
                 sessionVars, masterVars, leaseVars>>

\* Mutant of StopLease: the thread is told to stop and not waited for.
StopLeaseNoJoin ==
  /\ owner = "stopLease"
  /\ leaseRunning' = FALSE
  /\ owner' = "unmap"
  /\ UNCHANGED <<poolVars, serverVars, ownerSlot, acceptVars, sessionVars, masterVars,
                 lease, hasPortMapping, mapped>>

StopLease ==
  /\ owner = "stopLease"
  /\ leaseRunning' = FALSE
  /\ owner' = IF leaseRunning THEN "joinLease" ELSE "unmap"
  /\ UNCHANGED <<poolVars, serverVars, ownerSlot, acceptVars, sessionVars, masterVars,
                 lease, hasPortMapping, mapped>>

JoinLease ==
  /\ owner = "joinLease" /\ lease = "off"
  /\ owner' = "unmap"
  /\ UNCHANGED <<poolVars, serverVars, ownerSlot, acceptVars, sessionVars, masterVars,
                 leaseVars>>

\* The rest of Dispose.  Whether DeletePortMapping succeeds is not looked at.
DeletePortMapping ==
  /\ owner = "unmap"
  /\ hasPortMapping' = FALSE
  /\ mapped' \in {mapped, mapped /\ ~hasPortMapping}
  /\ owner' = "done"
  /\ UNCHANGED <<poolVars, serverVars, ownerSlot, acceptVars, sessionVars, masterVars,
                 lease, leaseRunning>>

StopStep ==
  \/ JoinAccept \/ ClearBegin \/ ClearSlot \/ ClearJoin \/ ClearEnd
  \/ ClearPlayers \/ StopLease \/ JoinLease \/ DeletePortMapping

OwnerStep == Start \/ StartFails \/ NatPunch \/ StopListening \/ StopStep

-----------------------------------------------------------------------------
(* The accept thread *)

AcceptClient ==
  /\ accept = "accept" /\ listening
  /\ accept' = "acquire"
  /\ UNCHANGED <<poolVars, serverVars, ownerVars, acceptSlot, sessionVars, masterVars,
                 leaseVars>>

\* accept() failed, because the server stopped or for another reason: the loop ends.
AcceptFails ==
  /\ accept = "accept"
  /\ accept' = "off"
  /\ UNCHANGED <<poolVars, serverVars, ownerVars, acceptSlot, sessionVars, masterVars,
                 leaseVars>>

\* Mutant of AcquireFails: the slot no session could be created for is not put back.
AcquireFailsLosesSlot ==
  /\ accept = "acquire" /\ ~PoolLocked
  /\ freeList # <<>> => Head(freeList) \notin sessions
  /\ freeList' = IF freeList = <<>> THEN freeList ELSE Tail(freeList)
  /\ accept' = "accept"
  /\ UNCHANGED <<inUse, sessions, serverVars, ownerVars, acceptSlot, sessionVars,
                 masterVars, leaseVars>>

\* Acquire finds no free slot, or no memory: the client is turned away.
AcquireFails ==
  /\ accept = "acquire" /\ ~PoolLocked
  /\ freeList # <<>> => Head(freeList) \notin sessions
  /\ accept' = "accept"
  /\ UNCHANGED <<poolVars, serverVars, ownerVars, acceptSlot, sessionVars, masterVars,
                 leaseVars>>

\* Acquire creates a session in the first free slot, ...
AcquireNew ==
  /\ accept = "acquire" /\ ~PoolLocked
  /\ UnlinkFirst /\ Head(freeList) \notin sessions
  /\ MarkAcquired(Head(freeList))
  /\ acceptSlot' = Head(freeList) /\ accept' = "start"
  /\ virtualIp' = [virtualIp EXCEPT ![Head(freeList)] = NoIp]
  /\ masterClosed' = [masterClosed EXCEPT ![Head(freeList)] = FALSE]
  /\ running' = [running EXCEPT ![Head(freeList)] = FALSE]
  /\ presented' = [presented EXCEPT ![Head(freeList)] = NoIp]
  /\ UNCHANGED <<serverVars, ownerVars, rx, reauthed, masterVars, leaseVars>>

\* ... or resets the one it holds: Stop() under the pool's mutex, which joins the
\* thread of the slot's previous client if the session still counts as running,
AcquireReset ==
  /\ accept = "acquire" /\ ~PoolLocked
  /\ UnlinkFirst /\ Head(freeList) \in sessions
  /\ acceptSlot' = Head(freeList)
  /\ accept' = IF running[Head(freeList)] THEN "resetJoin" ELSE "reset"
  /\ running' = [running EXCEPT ![Head(freeList)] = FALSE]
  /\ UNCHANGED <<inUse, sessions, serverVars, ownerVars, rx, masterClosed, virtualIp,
                 presented, reauthed, masterVars, leaseVars>>

JoinPrevious ==
  /\ accept = "resetJoin" /\ rx[acceptSlot] = "off"
  /\ accept' = "reset"
  /\ UNCHANGED <<poolVars, serverVars, ownerVars, acceptSlot, sessionVars, masterVars,
                 leaseVars>>

\* then the fields.
ResetSession ==
  /\ accept = "reset"
  /\ MarkAcquired(acceptSlot)
  /\ virtualIp' = [virtualIp EXCEPT ![acceptSlot] = NoIp]
  /\ masterClosed' = [masterClosed EXCEPT ![acceptSlot] = FALSE]
  /\ presented' = [presented EXCEPT ![acceptSlot] = NoIp]
  /\ accept' = "start"
  /\ UNCHANGED <<freeList, serverVars, ownerVars, acceptSlot, rx, running, reauthed,
                 masterVars, leaseVars>>

StartSession ==
  /\ accept = "start"
  /\ running' = [running EXCEPT ![acceptSlot] = TRUE]
  /\ rx' = [rx EXCEPT ![acceptSlot] = "recv"]
  /\ acceptSlot' = NoSlot /\ accept' = "accept"
  /\ UNCHANGED <<poolVars, serverVars, ownerVars, masterClosed, virtualIp, presented, reauthed,
                 masterVars, leaseVars>>

\* No memory for the stack, or no thread: the slot goes back.
StartSessionFails ==
  /\ accept = "start"
  /\ accept' = "startFailed"
  /\ UNCHANGED <<poolVars, serverVars, ownerVars, acceptSlot, sessionVars, masterVars,
                 leaseVars>>

ReleaseUnstarted ==
  /\ accept = "startFailed" /\ ~PoolLocked
  /\ Release(acceptSlot)
  /\ acceptSlot' = NoSlot /\ accept' = "accept"
  /\ UNCHANGED <<serverVars, ownerVars, sessionVars, masterVars, leaseVars>>

AcceptStep ==
  \/ AcquireFails \/ AcquireNew \/ AcquireReset
  \/ JoinPrevious \/ ResetSession
  \/ StartSession \/ StartSessionFails \/ ReleaseUnstarted

-----------------------------------------------------------------------------
(* A session's receive thread *)

\* The receive thread of s moves from one program point to another.
Goes(s, from, to) ==
  /\ rx[s] = from
  /\ rx' = [rx EXCEPT ![s] = to]

\* At "recv" the thread is between two packets.  One recv() may take several, which
\* are all handled whether or not the session is stopped meanwhile.

\* The guest presents a token.  Nothing keeps it from doing so again on the same
\* connection.  getpeername fails if it has gone already.
ReceiveToken(s) ==
  /\ presented[s] = NoIp \/ MayReauth
  /\ Goes(s, "recv", "auth") \/ Goes(s, "recv", "authFailed")
  /\ \E ip \in VirtualIps : presented' = [presented EXCEPT ![s] = ip]
  /\ reauthed' = (reauthed \/ presented[s] # NoIp)
  /\ UNCHANGED <<poolVars, serverVars, ownerVars, acceptVars, running, masterClosed,
                 virtualIp, masterVars, leaseVars>>

\* The first waiting token that is ip's.
IsFirst(i, ip) == tokens[i] = ip /\ \A j \in 1 .. i - 1 : tokens[j] # ip

\* What waitToken, a reference to element i of the vector, reads once element i is
\* erased: the element that has moved there, or, behind the new end, what the
\* erased one left.
Dangling(rest, i, ip) == IF i <= Len(rest) THEN rest[i] ELSE ip

\* TryRegisterUser finds the token, erases it, takes the address from the reference
\* to it, and goes on to lock _playersLock with _tokensLock in hand.
TokenFound(s) ==
  /\ ~TokensLocked
  /\ Goes(s, "auth", "register")
  /\ \E i \in 1 .. Len(tokens) :
       /\ IsFirst(i, presented[s])
       /\ tokens' = RemoveAt(tokens, i)
       /\ virtualIp' = [virtualIp EXCEPT ![s] = Dangling(tokens', i, presented[s])]
  /\ UNCHANGED <<poolVars, listening, players, ownerVars, acceptVars, running,
                 masterClosed, presented, reauthed, masterVars, leaseVars>>

\* The player is entered, and the ProxyConfig sent.
Register(s) ==
  /\ ~PlayersLocked
  /\ Goes(s, "register", "recv")
  /\ players' = [players EXCEPT ![virtualIp[s]] = s]
  /\ UNCHANGED <<poolVars, listening, tokens, ownerVars, acceptVars, running,
                 masterClosed, virtualIp, presented, reauthed, masterVars, leaseVars>>

\* It does not: it waits for the event, with _tokensLock in hand, or gives up
\* when AuthWaitSeconds have passed.
TokenMissing(s) ==
  /\ ~TokensLocked /\ \A i \in 1 .. Len(tokens) : tokens[i] # presented[s]
  /\ Goes(s, "auth", "authWait") \/ Goes(s, "auth", "authFailed")
  /\ UNCHANGED <<poolVars, serverVars, ownerVars, acceptVars, running, masterClosed,
                 virtualIp, presented, reauthed, masterVars, leaseVars>>

\* TimedWaitSystemEvent ends, because _tokenEvent was signalled or the time is up;
\* the lock is released before the next pass.  (The event itself is left out: it
\* can only end early a wait that may end at any time.)
AuthWaitEnds(s) ==
  /\ Goes(s, "authWait", "auth")
  /\ UNCHANGED <<poolVars, serverVars, ownerVars, acceptVars, running, masterClosed,
                 virtualIp, presented, reauthed, masterVars, leaseVars>>

\* DisconnectAndStop on the receive thread itself: unless another thread has
\* stopped the session already, it waits for itself to end.
AuthenticationFails(s) ==
  /\ masterClosed' = [masterClosed EXCEPT ![s] = TRUE]
  /\ Goes(s, "authFailed", IF running[s] THEN "selfJoin" ELSE "recv")
  /\ running' = [running EXCEPT ![s] = FALSE]
  /\ UNCHANGED <<poolVars, serverVars, ownerVars, acceptVars, virtualIp, presented, reauthed,
                 masterVars, leaseVars>>

\* A message to be routed arrives ...  (Those that a stopped session still has in
\* its buffer are left out: they only wait for _playersLock, as this one may.)
ReceiveMessage(s) ==
  /\ running[s]
  /\ Goes(s, "recv", "route")
  /\ UNCHANGED <<poolVars, serverVars, ownerVars, acceptVars, running, masterClosed,
                 virtualIp, presented, reauthed, masterVars, leaseVars>>

\* ... and RouteMessage sends it on under _playersLock.
RouteMessage(s) ==
  /\ ~PlayersLocked
  /\ Goes(s, "route", "recv")
  /\ UNCHANGED <<poolVars, serverVars, ownerVars, acceptVars, running, masterClosed,
                 virtualIp, presented, reauthed, masterVars, leaseVars>>

\* The guest disconnects, or the session was stopped: the loop ends, and the parent
\* is told, unless the master closed the session.
ReceiveEnds(s) ==
  /\ Goes(s, "recv", IF masterClosed[s] THEN "off" ELSE "leave")
  /\ UNCHANGED <<poolVars, serverVars, ownerVars, acceptVars, running, masterClosed,
                 virtualIp, presented, reauthed, masterVars, leaseVars>>

\* s is the session _players has for its address.
IsPlayer(s) == virtualIp[s] # NoIp /\ players[virtualIp[s]] = s

\* Mutant of DisconnectProxyClient: the slot is given back and the player kept.
DisconnectKeepsPlayer(s) ==
  /\ ~PlayersLocked
  /\ Goes(s, "leave", IF IsPlayer(s) THEN "release" ELSE "off")
  /\ UNCHANGED <<poolVars, serverVars, ownerVars, acceptVars, running, masterClosed,
                 virtualIp, presented, reauthed, masterVars, leaseVars>>

\* Mutant of DisconnectProxyClient: the slot is given back here already.
DisconnectReleasesTwice(s) ==
  /\ ~PlayersLocked /\ ~PoolLocked
  /\ Goes(s, "leave", IF IsPlayer(s) THEN "release" ELSE "off")
  /\ IF IsPlayer(s) THEN Release(s) ELSE UNCHANGED poolVars
  /\ players' = [ip \in VirtualIps |->
                   IF IsPlayer(s) /\ ip = virtualIp[s] THEN NoSlot ELSE players[ip]]
  /\ UNCHANGED <<listening, tokens, ownerVars, acceptVars, running,
                 masterClosed, virtualIp, presented, reauthed, masterVars, leaseVars>>

\* DisconnectProxyClient removes the player; only then is the slot given back.
DisconnectProxyClient(s) ==
  /\ ~PlayersLocked
  /\ Goes(s, "leave", IF IsPlayer(s) THEN "release" ELSE "off")
  /\ players' = [ip \in VirtualIps |->
                   IF IsPlayer(s) /\ ip = virtualIp[s] THEN NoSlot ELSE players[ip]]
  /\ UNCHANGED <<poolVars, listening, tokens, ownerVars, acceptVars, running,
                 masterClosed, virtualIp, presented, reauthed, masterVars, leaseVars>>

ReleaseSession(s) ==
  /\ ~PoolLocked
  /\ Goes(s, "release", "notify")
  /\ Release(s)
  /\ UNCHANGED <<serverVars, ownerVars, acceptVars, running, masterClosed, virtualIp,
                 presented, reauthed, masterVars, leaseVars>>

\* The master server is told, and the thread ends.
NotifyMaster(s) ==
  /\ Goes(s, "notify", "off")
  /\ UNCHANGED <<poolVars, serverVars, ownerVars, acceptVars, running, masterClosed,
                 virtualIp, presented, reauthed, masterVars, leaseVars>>

GuestStep(s) == ReceiveToken(s) \/ ReceiveMessage(s) \/ ReceiveEnds(s)

SessionStep(s) ==
  \/ TokenFound(s) \/ Register(s) \/ TokenMissing(s) \/ AuthWaitEnds(s)
  \/ AuthenticationFails(s) \/ RouteMessage(s)
  \/ DisconnectProxyClient(s) \/ ReleaseSession(s) \/ NotifyMaster(s)

-----------------------------------------------------------------------------
(* The master client's worker *)

MasterGoes(from, to) == master = from /\ master' = to

TokenArrives(ip) ==
  /\ owner # "done" /\ Len(SelectSeq(tokens, LAMBDA t : t = ip)) < MaxTokens
  /\ MasterGoes("idle", "token") /\ masterIp' = ip
  /\ UNCHANGED <<poolVars, serverVars, ownerVars, acceptVars, sessionVars, masterSlot,
                 leaseVars>>

HandleToken ==
  /\ ~TokensLocked
  /\ MasterGoes("token", "idle") /\ masterIp' = NoIp
  /\ tokens' = Append(tokens, masterIp)
  /\ UNCHANGED <<poolVars, listening, players, ownerVars, acceptVars, sessionVars,
                 masterSlot, leaseVars>>

\* HandleStateChange, for an address that is no longer connected: its tokens are
\* dropped, ...
StateChangeArrives(ip) ==
  /\ owner # "done" /\ ip \in MasterCloses
  /\ MasterGoes("idle", "tokens") /\ masterIp' = ip
  /\ UNCHANGED <<poolVars, serverVars, ownerVars, acceptVars, sessionVars, masterSlot,
                 leaseVars>>

DropTokens ==
  /\ ~TokensLocked
  /\ MasterGoes("tokens", "players")
  /\ \E rest \in BoundedSeq(VirtualIps, Len(tokens)) :
       rest = SelectSeq(tokens, LAMBDA ip : ip # masterIp) /\ tokens' = rest
  /\ UNCHANGED <<poolVars, listening, players, ownerVars, acceptVars,
                 sessionVars, masterIp, masterSlot, leaseVars>>

NoPlayer ==
  /\ MasterGoes("players", "idle") /\ masterIp' = NoIp
  /\ players[masterIp] = NoSlot
  /\ UNCHANGED <<poolVars, serverVars, ownerVars, acceptVars, sessionVars, masterSlot,
                 leaseVars>>

\* Mutant of StopPlayer: the session is not joined.
StopPlayerNoJoin ==
  LET s == players[masterIp] IN
  /\ master = "players" /\ s # NoSlot
  /\ masterSlot' = s
  /\ masterClosed' = [masterClosed EXCEPT ![s] = TRUE]
  /\ running' = [running EXCEPT ![s] = FALSE]
  /\ master' = "release"
  /\ UNCHANGED <<poolVars, serverVars, ownerVars, acceptVars, rx, virtualIp, presented, reauthed,
                 masterIp, leaseVars>>

\* ... its session is stopped, with _playersLock in hand, ...
StopPlayer ==
  LET s == players[masterIp] IN
  /\ master = "players" /\ s # NoSlot
  /\ masterSlot' = s
  /\ masterClosed' = [masterClosed EXCEPT ![s] = TRUE]
  /\ running' = [running EXCEPT ![s] = FALSE]
  /\ master' = IF running[s] THEN "join" ELSE "release"
  /\ UNCHANGED <<poolVars, serverVars, ownerVars, acceptVars, rx, virtualIp, presented, reauthed,
                 masterIp, leaseVars>>

JoinPlayer ==
  /\ MasterGoes("join", "release")
  /\ rx[masterSlot] = "off"
  /\ UNCHANGED <<poolVars, serverVars, ownerVars, acceptVars, sessionVars, masterIp,
                 masterSlot, leaseVars>>

\* ... then given back and removed from _players.
ReleasePlayer ==
  /\ ~PoolLocked
  /\ MasterGoes("release", "idle")
  /\ Release(masterSlot)
  /\ players' = [players EXCEPT ![masterIp] = NoSlot]
  /\ masterIp' = NoIp /\ masterSlot' = NoSlot
  /\ UNCHANGED <<listening, tokens, ownerVars, acceptVars, sessionVars,
                 leaseVars>>

MasterStep ==
  HandleToken \/ DropTokens \/ NoPlayer \/ StopPlayer \/ JoinPlayer \/ ReleasePlayer

-----------------------------------------------------------------------------
(* The lease thread *)

\* Dispose has set _disposed.  (A failed NatPunch stops the server before it disposes
\* of it, and has started no lease thread.)
Disposed == owner \notin {"new", "punch", "up"}

\* The thread goes back to the loop's condition.
LeaseLoops == lease' = IF leaseRunning /\ ~Disposed THEN "sleep" ELSE "off"

\* The loop's condition is checked before and after a sleep of 50 seconds; then
\* RefreshLease checks _hasPortMapping, which is written only while no lease thread
\* runs and is read here with the condition, ...
LeaseWakes ==
  /\ lease = "sleep"
  /\ IF leaseRunning /\ ~Disposed /\ hasPortMapping THEN lease' = "mapping" ELSE LeaseLoops
  /\ UNCHANGED <<poolVars, serverVars, ownerVars, acceptVars, sessionVars, masterVars,
                 leaseRunning, hasPortMapping, mapped>>

\* ... and maps the port again, or fails to.  (That the router drops a mapping by
\* itself after PortLeaseLength is left out.)
RenewMapping ==
  /\ lease = "mapping"
  /\ mapped' \in {mapped, TRUE}
  /\ LeaseLoops
  /\ UNCHANGED <<poolVars, serverVars, ownerVars, acceptVars, sessionVars, masterVars,
                 leaseRunning, hasPortMapping>>

LeaseStep == LeaseWakes \/ RenewMapping

-----------------------------------------------------------------------------
Next ==
  \/ OwnerStep
  \/ AcceptClient \/ AcceptFails \/ AcceptStep
  \/ \E s \in Slots : GuestStep(s) \/ SessionStep(s)
  \/ \E ip \in VirtualIps : TokenArrives(ip) \/ StateChangeArrives(ip)
  \/ MasterStep
  \/ LeaseStep

Spec == Init /\ [][Next]_vars

(***************************************************************************)
(* Fairness: every thread is scheduled, one that waits for a mutex others  *)
(* keep taking and releasing gets it in the end, accept() fails once the   *)
(* listen socket is closed, and the receive loop ends once the session is  *)
(* stopped.  Nothing is assumed of the guests or of the master.            *)
(***************************************************************************)
FairSpec ==
  /\ Spec
  /\ SF_vars(StopStep)
  /\ SF_vars(AcceptStep) /\ WF_vars(AcceptFails /\ ~listening)
  /\ \A s \in Slots : SF_vars(SessionStep(s)) /\ WF_vars(ReceiveEnds(s) /\ ~running[s])
  /\ SF_vars(MasterStep) /\ WF_vars(LeaseStep)

-----------------------------------------------------------------------------
(* Properties *)

\* Whenever the pool's mutex is free, the free list and the inUse marks agree and
\* no slot is listed twice, although both a session's own thread and the master's
\* worker release it.
SlotsConsistent == ~PoolLocked => FreeListOK(freeList, inUse, Slots)

\* Whenever _playersLock is free, a player's session is one the pool has lent out,
\* and it carries that player's address: a message is never routed to the guest
\* that took over the slot.  That is so until a guest presents a second token: its
\* session may then be a player twice, of which DisconnectProxyClient removes one.
PlayersAreActive ==
  ~PlayersLocked /\ ~reauthed =>
    \A ip \in VirtualIps : players[ip] # NoSlot =>
      /\ players[ip] \in inUse \cap sessions
      /\ virtualIp[players[ip]] = ip

\* While the server listens, a session that is back in the pool has no thread that
\* still serves its guest; at most its thread is telling the master.  So Acquire,
\* which waits for that thread under the pool's mutex, waits for nothing that needs
\* the mutex.  Again until a guest presents a second token.
FreeSlotIsQuiet ==
  listening /\ ~reauthed => \A s \in Slots \ inUse : rx[s] \in {"off", "notify"}

\* The accept thread always comes back to accept another guest, or ends.
AcceptReturns == accept # "accept" ~> accept \in {"accept", "off"}

\* From Dispose's deletion of the mapping on, whether the router carries it out or
\* not, nothing maps the port again: the lease thread, which Stop has joined, cannot
\* renew the lease behind it.
MappingStaysDeleted ==
  [][mapped' /\ owner \in {"unmap", "done"} => mapped]_vars

-----------------------------------------------------------------------------
(* What the repository says of the code, and the code does not do *)

\* "Stop all sessions via pool": Stop returns.  Clear holds the pool's mutex while
\* it joins a player's thread, which on its way out waits for that mutex.
StopReturns == owner = "joinAccept" ~> owner = "done"

\* "Delete port mapping": a server that is disposed of is not mapped any more.  The
\* deletion may fail, and is not tried again.
DisposedIsUnmapped == owner = "done" => ~mapped

\* "User registered with virtual IP": the address is that of the token the guest
\* presented.  The token is erased before its address is read through a reference
\* into the vector, which by then is the next token, if there is one.
GuestGetsItsAddress == \A s \in Slots : virtualIp[s] # NoIp => virtualIp[s] = presented[s]

\* HandleStateChange will "disconnect and remove session".  It holds _playersLock
\* while it joins a thread that may be waiting for that lock.
StateChangeReturns == master = "players" ~> master = "idle"

\* "Release() when client disconnects": the slot of a session whose thread has
\* ended is given back.  A guest that leaves before it has authenticated keeps it.
DisconnectReleases ==
  \A s \in Slots : s \in inUse /\ rx[s] = "off" ~> s \notin inUse \/ rx[s] # "off"

\* "Couldn't find token, wait for new tokens": a token that comes while a session
\* waits for it lets the session in.  The wait holds the lock HandleToken needs, so
\* the token is not seen before the time is up, and then the session may lock
\* again first and give up.
WaitSeesToken ==
  \A s \in Slots :
    rx[s] = "authWait" /\ master = "token" /\ masterIp = presented[s] ~> rx[s] = "register"

\* HandleAuthentication stops a session that fails to authenticate: its thread
\* ends.  It waits for itself.
FailedSessionEnds == \A s \in Slots : rx[s] = "authFailed" ~> rx[s] = "off"

\* Release deletes a session that "is not from the pool": what it is given has
\* not been deleted by Clear.
ReleasedSessionExists ==
  /\ master = "release" /\ ~PoolLocked => masterSlot \in sessions
  /\ \A s \in Slots : rx[s] = "release" /\ ~PoolLocked => s \in sessions

=============================================================================
