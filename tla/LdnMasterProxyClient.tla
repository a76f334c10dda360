------------------------ MODULE LdnMasterProxyClient ------------------------
(***************************************************************************)
(* LdnMasterProxyClient (ryuldn/ldn_master_proxy_client.cpp) and the       *)
(* NetworkTimeout it owns (ryuldn/network_timeout.hpp).                    *)
(*                                                                         *)
(* Two threads run its code and share its fields without a lock:           *)
(*   ipc     the IPC thread, inside one call of the game at a time;        *)
(*   worker  WorkerLoop: receives from the master server and dispatches    *)
(*           the packets to the handlers, and polls the idle timeout.      *)
(*                                                                         *)
(* An action is a stretch of one thread's code between two points where    *)
(* the other thread can interfere with it: before it blocks (socket calls, *)
(* TimedWait, the NetworkTimeout mutex, thread join), and around the       *)
(* unlocked read of current_state in onNetworkChange.  Code between two    *)
(* such points does not block, so it takes far less than the six seconds   *)
(* of InactiveTimeout.                                                     *)
(*                                                                         *)
(* The master server is external.  It is modelled by what the handlers     *)
(* expect of it: it answers an Initialize, it grants a Create/Connect with *)
(* ProxyConfig then Connected, it answers a Scan with ScanReply* and       *)
(* ScanReplyEnd, it may be silent or arbitrarily late, and while the       *)
(* client is in a network it may push SyncNetwork or Disconnect.  Requests *)
(* reach it at once (a late arrival is a late answer); what it sends       *)
(* travels in inbox, the TCP stream, then in batch, what one recv() took;  *)
(* MaxInbox bounds the packets in both.  Ping, Reject, NetworkError,       *)
(* ExternalProxy and the packets whose handlers only log change nothing    *)
(* that is modelled.                                                       *)
(***************************************************************************)
EXTENDS ICommunicationService, Sequences

CONSTANTS MaxInbox,      \* packets in flight from the server
          ServerPushes,  \* what the server sends unasked
          Scans          \* identities given to scans, to tell their replies apart

ASSUME MaxInboxAssumption == MaxInbox \in Nat \ {0}
ASSUME ServerPushesAssumption == ServerPushes \subseteq {"SyncNetwork", "Disconnect"}
ASSUME ScansAssumption == Scans # {}

VARIABLES
  socket,            \* _socket >= 0
  connected,         \* _connected
  networkConnected,  \* _networkConnected
  stop,              \* _stop
  config,            \* _config.proxyIp
  initializeEvent,   \* auto-clear event
  apConnectedEvent,  \* auto-clear event
  scanEvent,         \* manual-clear event
  availableGames,    \* _availableGames: which scans its entries answer
  timeoutActive,     \* NetworkTimeout::_active (FALSE once destroyed)
  elapsed,           \* InactiveTimeout has passed since _lastRefreshTime
  ipc,               \* program counter of the IPC thread
  call,              \* the call the IPC thread is in
  worker,            \* program counter of the worker thread
  pendingState,      \* the state the worker's callback is about to set
  inbox,             \* packets from the server not yet received
  batch,             \* packets one recv() returned, not yet handled
  srvInit,           \* the server has an unanswered Initialize
  srvNet,            \* the server's view of this client's network
  srvScan,           \* the scans the server has not finished answering
  answered,          \* history: the awaited answer was handled after the send
  scanId             \* history: identity of the latest scan

connVars   == <<socket, connected, networkConnected>>
eventVars  == <<initializeEvent, apConnectedEvent, scanEvent>>
timerVars  == <<timeoutActive, elapsed>>
serverVars == <<inbox, srvInit, srvNet, srvScan>>

Requests == {"CreateNetwork", "CreateNetworkPrivate", "Connect", "Scan"}
Leaves   == {"CloseAccessPoint", "DestroyNetwork", "CloseStation", "Disconnect"}
AllCalls == Requests \cup Leaves \cup
            {"Initialize", "OpenAccessPoint", "OpenStation", "Finalize"}

IpcPCs == {"idle", "enter", "connecting", "up", "hello", "helloSend", "helloWait",
           "prepare", "borrow", "send", "wait", "announce", "disconnect", "leave",
           "stopWorker", "disposeTimeout", "join"}
WorkerPCs == {"off", "loop", "poll", "read", "callback", "setState",
              "timedOut", "relock"}

\* A packet is its type and the one field a property tells apart: the address
\* of a ProxyConfig, the scan a ScanReply answers, 0 for the others.
PlainPackets == {"Initialize", "Connected", "SyncNetwork", "Disconnect", "ScanReplyEnd"}
Packets == [type : {"ProxyConfig"}, arg : VirtualIps] \cup
           [type : {"ScanReply"}, arg : Scans] \cup
           [type : PlainPackets, arg : {0}]
Packet(t, a) == [type |-> t, arg |-> a]

FlagsTypeOK ==
  /\ socket \in BOOLEAN /\ connected \in BOOLEAN
  /\ networkConnected \in BOOLEAN /\ stop \in BOOLEAN
  /\ initializeEvent \in BOOLEAN /\ apConnectedEvent \in BOOLEAN
  /\ scanEvent \in BOOLEAN
  /\ timeoutActive \in BOOLEAN /\ elapsed \in BOOLEAN
  /\ srvInit \in BOOLEAN /\ answered \in BOOLEAN

DataTypeOK ==
  /\ config \in VirtualIps \cup {NoIp}
  /\ availableGames \in SUBSET Scans
  /\ ipc \in IpcPCs /\ call \in AllCalls \cup {"none"}
  /\ worker \in WorkerPCs /\ pendingState \in CommState
  /\ inbox \in Seq(Packets) /\ batch \in Seq(Packets)
  /\ srvNet \in {"out", "joining", "configured", "in"}
  /\ srvScan \in SUBSET Scans /\ scanId \in Scans

ClientTypeOK == FlagsTypeOK /\ DataTypeOK

ClientInit ==
  /\ socket = FALSE /\ connected = FALSE /\ networkConnected = FALSE
  /\ stop = FALSE /\ config = NoIp
  /\ initializeEvent = FALSE /\ apConnectedEvent = FALSE /\ scanEvent = FALSE
  /\ availableGames = {}
  /\ timeoutActive = FALSE /\ elapsed = FALSE
  /\ ipc = "idle" /\ call = "none"
  /\ worker = "off" /\ pendingState = "None"
  /\ inbox = <<>> /\ batch = <<>> /\ srvInit = FALSE /\ srvNet = "out" /\ srvScan = {}
  /\ answered = FALSE /\ scanId \in Scans

-----------------------------------------------------------------------------
(* NetworkTimeout *)

\* The mutex is held over the whole callback of CheckTimeout, and only there
\* across a point where the thread can wait.
TimeoutLocked == worker \in {"timedOut", "relock"}

RefreshTimeout == elapsed' = IF timeoutActive THEN FALSE ELSE elapsed

-----------------------------------------------------------------------------
(* Helpers that run inside a step of either thread *)

\* close(_socket): the stream and the server's session go with it.
CloseSocket ==
  /\ socket' = FALSE
  /\ inbox' = <<>> /\ srvInit' = FALSE /\ srvNet' = "out" /\ srvScan' = {}

\* What DisconnectInternal does to the flag, the service and the timeout.  It
\* ends by taking the timeout's mutex, hence the guard.
DisconnectInternal ==
  /\ networkConnected => ~TimeoutLocked
  /\ networkConnected' = FALSE
  /\ current_state' = IF networkConnected THEN StateWhenDisconnected(current_state)
                                          ELSE current_state
  /\ IF networkConnected THEN RefreshTimeout ELSE UNCHANGED elapsed

\* Mutant of Disconnect: the DisconnectInternal() call is missing.
DisconnectSocketOnly ==
  /\ CloseSocket
  /\ connected' = FALSE
  /\ UNCHANGED <<networkConnected, current_state, elapsed>>

\* Disconnect() = close the socket, then DisconnectInternal().
Disconnect ==
  /\ CloseSocket
  /\ connected' = FALSE
  /\ DisconnectInternal

\* SendPacket's check, made under _sendMutex.
CanSend == connected /\ socket

clientVars == <<socket, connected, networkConnected, stop, config,
                initializeEvent, apConnectedEvent, scanEvent, availableGames,
                timeoutActive, elapsed, ipc, call, worker, pendingState,
                inbox, batch, srvInit, srvNet, srvScan, answered, scanId>>

-----------------------------------------------------------------------------
(* The worker thread: WorkerLoop, ReceiveData and the packet handlers *)

\* The idle timeout is due: CheckTimeout, which ends every iteration, runs
\* TimeoutConnection before the worker polls again.
TimeoutDue == timeoutActive /\ elapsed

\* The worker finds a connection and waits in poll() for up to 100 ms.
Poll ==
  /\ worker = "loop" /\ ~stop /\ ~TimeoutDue
  /\ connected /\ socket
  /\ worker' = "poll"
  /\ UNCHANGED <<serviceVars, connVars, stop, config, eventVars, availableGames,
                 timerVars, ipc, call, pendingState, serverVars, batch, answered, scanId>>

PollTimesOut ==
  /\ worker = "poll"
  /\ worker' = "loop"
  /\ UNCHANGED <<serviceVars, connVars, stop, config, eventVars, availableGames,
                 timerVars, ipc, call, pendingState, serverVars, batch, answered, scanId>>

\* One recv() takes whatever has arrived.  All of it is handled, whatever
\* happens to the connection meanwhile.
ReceiveData ==
  /\ worker = "poll" /\ connected /\ socket
  /\ inbox # <<>>
  /\ batch' = inbox /\ inbox' = <<>>
  /\ worker' = "read"
  /\ UNCHANGED <<serviceVars, connVars, stop, config, eventVars, availableGames,
                 timerVars, ipc, call, pendingState, srvInit, srvNet, srvScan,
                 answered, scanId>>

ReceiveDone ==
  /\ worker = "read" /\ batch = <<>>
  /\ worker' = "loop"
  /\ UNCHANGED <<serviceVars, connVars, stop, config, eventVars, availableGames,
                 timerVars, ipc, call, pendingState, serverVars, batch, answered, scanId>>

\* The worker dispatches the next packet, of type t, to its handler.
Receive(t) ==
  /\ worker = "read"
  /\ batch # <<>> /\ Head(batch).type = t
  /\ batch' = Tail(batch)
  /\ UNCHANGED <<ryuldn_client, stop, ipc, call, timeoutActive, scanId,
                 serverVars, socket, connected>>

HandleInitialize ==
  /\ Receive("Initialize")
  /\ initializeEvent' = TRUE
  /\ answered' = (answered \/ ipc = "helloWait")
  /\ UNCHANGED <<current_state, ryuldn_proxy, networkConnected, config,
                 apConnectedEvent, scanEvent, availableGames, elapsed,
                 worker, pendingState>>

\* The event is signalled, which lets the IPC thread run, before the callback.
HandleConnected ==
  /\ Receive("Connected")
  /\ networkConnected' = TRUE
  /\ apConnectedEvent' = TRUE
  /\ answered' = (answered \/ (ipc = "wait" /\ call # "Scan"))
  /\ worker' = "callback"
  /\ UNCHANGED <<current_state, ryuldn_proxy, config, initializeEvent,
                 scanEvent, availableGames, elapsed, pendingState>>

HandleSyncNetwork ==
  /\ Receive("SyncNetwork")
  /\ worker' = "callback"
  /\ UNCHANGED <<current_state, ryuldn_proxy, networkConnected, config,
                 eventVars, availableGames, elapsed, pendingState, answered>>

\* onNetworkChange(info, true, None) on the worker: current_state is read ...
ReadStateInCallback ==
  /\ worker = "callback"
  /\ IF StateWhenConnected(current_state) = current_state
       THEN worker' = "read" /\ UNCHANGED pendingState
       ELSE worker' = "setState" /\ pendingState' = StateWhenConnected(current_state)
  /\ UNCHANGED <<serviceVars, connVars, stop, config, eventVars, availableGames,
                 timerVars, ipc, call, serverVars, batch, answered, scanId>>

\* ... and written later, whatever the IPC thread has made of it since.
SetStateInCallback ==
  /\ worker = "setState"
  /\ current_state' = pendingState
  /\ worker' = "read" /\ pendingState' = "None"
  /\ UNCHANGED <<ryuldn_client, ryuldn_proxy, connVars, stop, config, eventVars,
                 availableGames, timerVars, ipc, call, serverVars, batch, answered, scanId>>

HandleDisconnected ==
  /\ Receive("Disconnect")
  /\ DisconnectInternal
  /\ UNCHANGED <<ryuldn_proxy, config, eventVars, availableGames, worker,
                 pendingState, answered>>

HandleScanReply ==
  /\ Receive("ScanReply")
  /\ availableGames' = availableGames \cup {Head(batch).arg}
  /\ UNCHANGED <<current_state, ryuldn_proxy, networkConnected, config,
                 eventVars, elapsed, worker, pendingState, answered>>

HandleScanReplyEnd ==
  /\ Receive("ScanReplyEnd")
  /\ scanEvent' = TRUE
  /\ answered' = (answered \/ (ipc = "wait" /\ call = "Scan"))
  /\ UNCHANGED <<current_state, ryuldn_proxy, networkConnected, config,
                 initializeEvent, apConnectedEvent, availableGames, elapsed,
                 worker, pendingState>>

HandleProxyConfig ==
  /\ Receive("ProxyConfig")
  /\ config' = Head(batch).arg
  /\ OnProxyConfig(Head(batch).arg)
  /\ UNCHANGED <<current_state, networkConnected, eventVars, availableGames,
                 elapsed, worker, pendingState, answered>>

\* poll() or recv() failed, the server closed the connection, or ReceiveData
\* found _connected or _socket reset since the poll began: Disconnect.
ReceiveFails ==
  /\ worker = "poll"
  /\ Disconnect
  /\ worker' = "loop"
  /\ UNCHANGED <<ryuldn_client, ryuldn_proxy, stop, config, eventVars, availableGames,
                 timeoutActive, ipc, call, pendingState, batch, answered, scanId>>

\* CheckTimeout finds the timeout elapsed and runs TimeoutConnection with the
\* mutex held.  If the client is in a network, DisconnectInternal goes on to
\* RefreshTimeout, which locks that same, non-recursive mutex.
TimeoutConnection ==
  /\ worker = "loop" /\ TimeoutDue
  /\ CloseSocket
  /\ connected' = FALSE
  /\ networkConnected' = FALSE
  /\ current_state' = IF networkConnected THEN StateWhenDisconnected(current_state)
                                          ELSE current_state
  /\ worker' = IF networkConnected THEN "relock" ELSE "timedOut"
  /\ UNCHANGED <<ryuldn_client, ryuldn_proxy, stop, config, eventVars,
                 availableGames, timerVars, ipc, call, pendingState, batch, answered, scanId>>

\* while (_socket >= 0) has ended: the mutex is released.
TimeoutDone ==
  /\ worker = "timedOut" /\ ~socket
  /\ elapsed' = FALSE
  /\ worker' = "loop"
  /\ UNCHANGED <<serviceVars, connVars, stop, config, eventVars, availableGames,
                 timeoutActive, ipc, call, pendingState, serverVars, batch, answered, scanId>>

WorkerExit ==
  /\ worker = "loop" /\ stop
  /\ worker' = "off"
  /\ UNCHANGED <<serviceVars, connVars, stop, config, eventVars, availableGames,
                 timerVars, ipc, call, pendingState, serverVars, batch, answered, scanId>>

WorkerStep ==
  \/ Poll \/ PollTimesOut \/ ReceiveData \/ ReceiveDone
  \/ HandleInitialize \/ HandleConnected \/ HandleSyncNetwork
  \/ ReadStateInCallback \/ SetStateInCallback
  \/ HandleDisconnected \/ HandleScanReply \/ HandleScanReplyEnd
  \/ HandleProxyConfig \/ ReceiveFails
  \/ TimeoutConnection \/ TimeoutDone \/ WorkerExit

-----------------------------------------------------------------------------
(* The IPC thread: EnsureConnected *)

Return == ipc' = "idle" /\ call' = "none"

\* EnsureConnected up to and including ::socket().  _socket is overwritten,
\* whatever it held.
EnsureConnectedStart ==
  \/ /\ connected
     /\ ipc' = "prepare"
     /\ UNCHANGED <<socket, serverVars, call>>
  \/ /\ ~connected
     /\ socket' \in BOOLEAN
     /\ IF socket' THEN ipc' = "connecting" /\ UNCHANGED call ELSE Return
     /\ inbox' = <<>> /\ srvInit' = FALSE /\ srvNet' = "out" /\ srvScan' = {}

\* getaddrinfo, connect, poll or SO_ERROR failed, for instance because the
\* worker's TimeoutConnection closed the socket.
ConnectFails ==
  /\ ipc = "connecting"
  /\ CloseSocket
  /\ Return
  /\ UNCHANGED <<serviceVars, connected, networkConnected, stop, config, eventVars,
                 availableGames, timerVars, worker, pendingState, batch, answered, scanId>>

ConnectSucceeds ==
  /\ ipc = "connecting" /\ socket
  /\ ipc' = "up"
  /\ UNCHANGED <<serviceVars, connVars, stop, config, eventVars, availableGames,
                 timerVars, call, worker, pendingState, batch, serverVars, answered, scanId>>

SetConnected ==
  /\ ipc = "up"
  /\ connected' = TRUE
  /\ ipc' = "hello"
  /\ UNCHANGED <<serviceVars, socket, networkConnected, stop, config, eventVars,
                 availableGames, timerVars, call, worker, pendingState, batch, serverVars,
                 answered, scanId>>

ClearInitializeEvent ==
  /\ ipc = "hello"
  /\ initializeEvent' = FALSE
  /\ ipc' = "helloSend"
  /\ UNCHANGED <<serviceVars, connVars, stop, config, apConnectedEvent, scanEvent,
                 availableGames, timerVars, call, worker, pendingState, batch, serverVars,
                 answered, scanId>>

SendInitialize ==
  /\ ipc = "helloSend" /\ CanSend
  /\ srvInit' = TRUE
  /\ answered' = FALSE
  /\ ipc' = "helloWait"
  /\ UNCHANGED <<serviceVars, connVars, stop, config, eventVars, availableGames,
                 timerVars, call, worker, pendingState, batch, inbox, srvNet, srvScan, scanId>>

\* No buffer could be borrowed, or the packet was not sent whole.
InitializeNotSent ==
  /\ ipc \in {"hello", "helloSend"}
  /\ connected' = FALSE
  /\ Return
  /\ UNCHANGED <<serviceVars, socket, networkConnected, stop, config, eventVars,
                 availableGames, timerVars, worker, pendingState, batch, serverVars,
                 answered, scanId>>

\* initializeEvent.TimedWait(5000): signalled, or timed out.  On a time-out
\* _connected is reset but the socket stays open.
AwaitInitialize ==
  /\ ipc = "helloWait"
  /\ IF initializeEvent
       THEN ipc' = "prepare" /\ UNCHANGED <<connected, call>>
       ELSE Return /\ connected' = FALSE
  /\ initializeEvent' = FALSE /\ answered' = FALSE
  /\ UNCHANGED <<serviceVars, socket, networkConnected, stop, config,
                 apConnectedEvent, scanEvent, availableGames, timerVars,
                 worker, pendingState, batch, serverVars, scanId>>

-----------------------------------------------------------------------------
(* The IPC thread: CreateNetwork, CreateNetworkPrivate, Connect(Private), Scan *)

\* Mutant of JoinStart: DisableTimeout() is missing.
JoinStartTimeoutLeftOn ==
  /\ ipc = "enter" /\ call \in Requests \ {"Scan"}
  /\ EnsureConnectedStart
  /\ UNCHANGED <<serviceVars, connected, networkConnected, stop, config, eventVars,
                 availableGames, timerVars, worker, pendingState, batch, answered, scanId>>

\* DisableTimeout, then EnsureConnected.
JoinStart ==
  /\ ipc = "enter" /\ call \in Requests \ {"Scan"}
  /\ ~TimeoutLocked
  /\ timeoutActive' = FALSE
  /\ EnsureConnectedStart
  /\ UNCHANGED <<serviceVars, connected, networkConnected, stop, config, eventVars,
                 availableGames, elapsed, worker, pendingState, batch, answered, scanId>>

\* A scan gets another identity than the one before it, if there is another.
NewScanId == scanId' \in Scans /\ (Scans # {scanId} => scanId' # scanId)

\* Mutant of ScanStart: RefreshTimeout() is missing.
ScanStartNoRefresh ==
  /\ ipc = "enter" /\ call = "Scan"
  /\ availableGames' = {}
  /\ NewScanId
  /\ EnsureConnectedStart
  /\ UNCHANGED <<serviceVars, connected, networkConnected, stop, config, eventVars,
                 timerVars, worker, pendingState, batch, answered>>

\* RefreshTimeout unless in a network, _availableGames.clear(), EnsureConnected.
ScanStart ==
  /\ ipc = "enter" /\ call = "Scan"
  /\ IF networkConnected THEN UNCHANGED elapsed ELSE ~TimeoutLocked /\ RefreshTimeout
  /\ availableGames' = {}
  /\ NewScanId
  /\ EnsureConnectedStart
  /\ UNCHANGED <<serviceVars, connected, networkConnected, stop, config, eventVars,
                 timeoutActive, worker, pendingState, batch, answered>>

\* What precedes BorrowBuffer, which may wait: CreateNetwork leaves the network
\* it is in, Scan clears its event.
PrepareRequest ==
  /\ ipc = "prepare"
  /\ IF call = "CreateNetwork"
       THEN DisconnectInternal
       ELSE UNCHANGED <<networkConnected, current_state, elapsed>>
  /\ scanEvent' = (scanEvent /\ call # "Scan")
  /\ ipc' = "borrow"
  /\ UNCHANGED <<ryuldn_client, ryuldn_proxy, socket, connected, stop, config,
                 initializeEvent, apConnectedEvent, availableGames, timeoutActive,
                 call, worker, pendingState, batch, serverVars, answered, scanId>>

\* The buffer is borrowed; the other requests clear their event only now.
BorrowForRequest ==
  /\ ipc = "borrow"
  /\ apConnectedEvent' = (apConnectedEvent /\ call = "Scan")
  /\ ipc' = "send"
  /\ UNCHANGED <<serviceVars, connVars, stop, config, initializeEvent, scanEvent,
                 availableGames, timerVars, call, worker, pendingState, batch,
                 serverVars, answered, scanId>>

\* BorrowBuffer returned nullptr.
NoBufferForRequest ==
  /\ ipc = "borrow"
  /\ Return
  /\ UNCHANGED <<serviceVars, connVars, stop, config, eventVars, availableGames,
                 timerVars, worker, pendingState, batch, serverVars, answered, scanId>>

\* SendPacket; its result is ignored, so the call goes on to wait either way.
SendRequest ==
  /\ ipc = "send"
  /\ \/ /\ CanSend
        /\ srvNet' = IF call = "Scan" THEN srvNet ELSE "joining"
        /\ srvScan' = IF call = "Scan" THEN srvScan \cup {scanId} ELSE srvScan
     \/ UNCHANGED <<srvNet, srvScan>>
  /\ answered' = FALSE
  /\ ipc' = "wait"
  /\ UNCHANGED <<serviceVars, connVars, stop, config, eventVars, availableGames,
                 timerVars, call, worker, pendingState, batch, inbox, srvInit, scanId>>

\* Mutant of AwaitAnswer: the event is cleared after the send, before waiting.
ClearThenAwaitAnswer ==
  /\ ipc = "wait"
  /\ scanEvent' = FALSE /\ apConnectedEvent' = FALSE
  /\ UNCHANGED <<serviceVars, connVars, stop, config, initializeEvent,
                 availableGames, timerVars, ipc, call, worker, pendingState, batch,
                 serverVars, answered, scanId>>

\* TimedWait on apConnectedEvent (auto-clear) or scanEvent (manual-clear).  A
\* Scan that is answered copies _availableGames out.
AwaitAnswer ==
  /\ ipc = "wait"
  /\ apConnectedEvent' = (apConnectedEvent /\ call = "Scan")
  /\ ipc' = IF call = "CreateNetwork" /\ apConnectedEvent THEN "announce" ELSE "idle"
  /\ call' = "none" /\ answered' = FALSE
  /\ UNCHANGED <<serviceVars, connVars, stop, config, initializeEvent, scanEvent,
                 availableGames, timerVars, worker, pendingState, batch, serverVars,
                 scanId>>

\* CreateNetwork ends by calling onNetworkChange(dummyInfo, true, None).
AnnounceNetwork ==
  /\ ipc = "announce"
  /\ current_state' = StateWhenConnected(current_state)
  /\ Return
  /\ UNCHANGED <<ryuldn_client, ryuldn_proxy, connVars, stop, config, eventVars,
                 availableGames, timerVars, worker, pendingState, batch, serverVars,
                 answered, scanId>>

RequestStep ==
  \/ JoinStart \/ ScanStart
  \/ ConnectFails \/ ConnectSucceeds \/ SetConnected
  \/ ClearInitializeEvent \/ SendInitialize \/ InitializeNotSent \/ AwaitInitialize
  \/ PrepareRequest \/ BorrowForRequest \/ NoBufferForRequest \/ SendRequest
  \/ AwaitAnswer \/ AnnounceNetwork

\* DisconnectNetwork, in a network: the Disconnect packet, whose buffer may take
\* a while to come or not come at all, then DisconnectInternal.
DisconnectNetwork ==
  /\ ipc = "disconnect"
  /\ \/ CanSend /\ srvNet' = "out"
     \/ UNCHANGED srvNet
  /\ DisconnectInternal
  /\ ipc' = "leave"
  /\ UNCHANGED <<ryuldn_client, ryuldn_proxy, socket, connected, stop, config,
                 eventVars, availableGames, timeoutActive, call, worker, pendingState,
                 batch, inbox, srvInit, srvScan, answered, scanId>>

-----------------------------------------------------------------------------
(* Environment: the master server, and time *)

Push(p) ==
  /\ connected /\ socket /\ Len(inbox) + Len(batch) < MaxInbox
  /\ inbox' = Append(inbox, p)
  /\ UNCHANGED <<serviceVars, connVars, stop, config, eventVars, availableGames,
                 timerVars, ipc, call, worker, pendingState, batch, answered, scanId>>

ServerInitialize ==
  srvInit /\ Push(Packet("Initialize", 0)) /\ srvInit' = FALSE /\ UNCHANGED <<srvNet, srvScan>>

ServerProxyConfig ==
  /\ srvNet = "joining"
  /\ \E ip \in VirtualIps : Push(Packet("ProxyConfig", ip))
  /\ srvNet' = "configured" /\ UNCHANGED <<srvInit, srvScan>>

ServerConnected ==
  /\ srvNet = "configured"
  /\ Push(Packet("Connected", 0))
  /\ srvNet' = "in" /\ UNCHANGED <<srvInit, srvScan>>

ServerScanReply ==
  \E s \in srvScan :
    Push(Packet("ScanReply", s)) /\ UNCHANGED <<srvInit, srvNet, srvScan>>

ServerScanReplyEnd ==
  \E s \in srvScan :
    /\ Push(Packet("ScanReplyEnd", 0))
    /\ srvScan' = srvScan \ {s} /\ UNCHANGED <<srvInit, srvNet>>

ServerSyncNetwork ==
  /\ "SyncNetwork" \in ServerPushes /\ srvNet = "in"
  /\ Push(Packet("SyncNetwork", 0)) /\ UNCHANGED <<srvInit, srvNet, srvScan>>

ServerDisconnect ==
  /\ "Disconnect" \in ServerPushes /\ srvNet = "in"
  /\ Push(Packet("Disconnect", 0))
  /\ srvNet' = "out" /\ UNCHANGED <<srvInit, srvScan>>

ServerStep ==
  \/ ServerInitialize \/ ServerProxyConfig \/ ServerConnected
  \/ ServerScanReply \/ ServerScanReplyEnd
  \/ ServerSyncNetwork \/ ServerDisconnect

\* InactiveTimeout (6 s) has passed since the last refresh.
SixSecondsPass ==
  /\ timeoutActive /\ ~elapsed
  /\ elapsed' = TRUE
  /\ UNCHANGED <<serviceVars, connVars, stop, config, eventVars, availableGames,
                 timeoutActive, ipc, call, worker, pendingState, batch, serverVars,
                 answered, scanId>>

=============================================================================
