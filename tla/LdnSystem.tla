------------------------------ MODULE LdnSystem ------------------------------
(***************************************************************************)
(* The room-state core of ryuldn_nx: the calls a game makes on             *)
(* ICommunicationService (ldn_icommunication.cpp), served one at a time by *)
(* the IPC thread, composed with the LdnMasterProxyClient and its worker   *)
(* thread, the NetworkTimeout and the external master server.              *)
(*                                                                         *)
(* A call whose state check fails returns an error and changes nothing;    *)
(* such calls are stuttering steps and are left out.  So are the getters,  *)
(* and SetAdvertiseData and SetStationAcceptPolicy, which only send.       *)
(***************************************************************************)
EXTENDS LdnMasterProxyClient

CONSTANT Calls   \* the calls the game makes

ASSUME CallsAssumption == Calls \subseteq AllCalls

vars == <<current_state, ryuldn_client, ryuldn_proxy, socket, connected,
          networkConnected, stop, config, initializeEvent, apConnectedEvent,
          scanEvent, availableGames, timeoutActive, elapsed, ipc, call, worker,
          pendingState, inbox, batch, srvInit, srvNet, srvScan, answered, scanId>>

TypeOK == ServiceTypeOK /\ ClientTypeOK

Init == ServiceInit /\ ClientInit

-----------------------------------------------------------------------------
(* Calls that do not involve the client's connection *)

\* setState, as the whole effect of a call made between two others.
CallSetsState(c, from, to) ==
  /\ ipc = "idle" /\ c \in Calls
  /\ current_state = from
  /\ current_state' = to
  /\ UNCHANGED <<ryuldn_client, ryuldn_proxy, clientVars>>

OpenAccessPoint == CallSetsState("OpenAccessPoint", "Initialized", "AccessPoint")
OpenStation     == CallSetsState("OpenStation", "Initialized", "Station")

\* The client is created only if there is none; the state is set in any case.
\* IsConstructionSuccessful reads a member that no constructor sets: when it
\* happens to be non-zero the new client is deleted again, as it is when its
\* thread cannot be created.  Its destructor then waits for a thread that was
\* never started; that is not followed, and failed calls are left out.
Initialize ==
  /\ ipc = "idle" /\ "Initialize" \in Calls
  /\ current_state' = "Initialized"
  /\ ryuldn_client' = TRUE
  /\ IF ryuldn_client
       THEN UNCHANGED <<timeoutActive, elapsed, worker>>
       ELSE timeoutActive' = TRUE /\ elapsed' = TRUE /\ worker' = "loop"
  /\ UNCHANGED <<ryuldn_proxy, connVars, stop, config, eventVars, availableGames,
                 ipc, call, pendingState, batch, serverVars, answered, scanId>>

\* CreateNetwork, Connect and Scan pass their state check and enter the client.
\* Whether CreateNetwork is private is a matter of the passphrase.
StatesFor(c) ==
  CASE c \in {"CreateNetwork", "CreateNetworkPrivate"} -> {"AccessPoint"}
    [] c = "Connect" -> {"Station"}
    [] OTHER         -> CommState \ {"None"}

EnterRequest(c) ==
  /\ ipc = "idle" /\ c \in Calls \cap Requests
  /\ ryuldn_client
  /\ current_state \in StatesFor(c)
  /\ call' = c /\ ipc' = "enter"
  /\ UNCHANGED <<serviceVars, connVars, stop, config, eventVars, availableGames,
                 timerVars, worker, pendingState, batch, serverVars, answered, scanId>>

-----------------------------------------------------------------------------
(* Calls that leave the network: DisconnectNetwork, then setState *)

ConnectedStateFor(c) ==
  IF c \in {"CloseAccessPoint", "DestroyNetwork"} THEN "AccessPointCreated"
                                                  ELSE "StationConnected"

\* The state check; in the connected state DisconnectNetwork follows, which does
\* nothing when _networkConnected is not set.
EnterLeave(c) ==
  /\ ipc = "idle" /\ c \in Calls \cap Leaves
  /\ \/ /\ current_state = ConnectedStateFor(c)
        /\ ipc' = IF networkConnected THEN "disconnect" ELSE "leave"
     \/ /\ c = "CloseAccessPoint" /\ current_state = "AccessPoint"
        /\ ipc' = "leave"
     \/ /\ c = "CloseStation" /\ current_state = "Station"
        /\ ipc' = "leave"
  /\ call' = c
  /\ UNCHANGED <<serviceVars, connVars, stop, config, eventVars, availableGames,
                 timerVars, worker, pendingState, batch, serverVars, answered, scanId>>

\* The setState that ends the call; the Close calls check the state once more.
FinishLeave ==
  /\ ipc = "leave"
  /\ current_state' =
       CASE call = "DestroyNetwork" -> "AccessPoint"
         [] call = "Disconnect"     -> "Station"
         [] call = "CloseAccessPoint" /\ current_state \in {"AccessPoint", "AccessPointCreated"}
                                    -> "Initialized"
         [] call = "CloseStation" /\ current_state \in {"Station", "StationConnected"}
                                    -> "Initialized"
         [] OTHER                   -> current_state
  /\ Return
  /\ UNCHANGED <<ryuldn_client, ryuldn_proxy, connVars, stop, config, eventVars,
                 availableGames, timerVars, worker, pendingState, batch, serverVars,
                 answered, scanId>>

-----------------------------------------------------------------------------
(* Finalize *)

\* ICommunicationService::Finalize deletes the LdnProxy ...
FinalizeProxy ==
  /\ ipc = "idle" /\ "Finalize" \in Calls
  /\ ryuldn_proxy' = NoIp
  /\ IF ryuldn_client
       THEN ipc' = "stopWorker" /\ call' = "Finalize" /\ UNCHANGED current_state
       ELSE current_state' = "None" /\ UNCHANGED <<ipc, call>>
  /\ UNCHANGED <<ryuldn_client, connVars, stop, config, eventVars, availableGames,
                 timerVars, worker, pendingState, batch, serverVars, answered, scanId>>

\* Mutant of StopWorker: _stop is not set.
StopWorkerFlagForgotten ==
  /\ ipc = "stopWorker"
  /\ IF socket
       THEN Disconnect
       ELSE UNCHANGED <<connVars, current_state, elapsed, serverVars>>
  /\ ipc' = "disposeTimeout"
  /\ UNCHANGED <<ryuldn_client, ryuldn_proxy, stop, config, eventVars, availableGames,
                 timeoutActive, call, worker, pendingState, batch, answered, scanId>>

\* ... then LdnMasterProxyClient::Finalize sets _stop and closes the socket, ...
StopWorker ==
  /\ ipc = "stopWorker"
  /\ stop' = TRUE
  /\ IF socket
       THEN Disconnect
       ELSE UNCHANGED <<connVars, current_state, elapsed, serverVars>>
  /\ ipc' = "disposeTimeout"
  /\ UNCHANGED <<ryuldn_client, ryuldn_proxy, config, eventVars, availableGames,
                 timeoutActive, call, worker, pendingState, batch, answered, scanId>>

\* ... destroys the timeout, waiting for its mutex, ...  The mutex goes with it
\* while the worker is still running; a CheckTimeout that uses it after that is
\* not followed.
DisposeTimeout ==
  /\ ipc = "disposeTimeout" /\ ~TimeoutLocked
  /\ timeoutActive' = FALSE
  /\ ipc' = "join"
  /\ UNCHANGED <<serviceVars, connVars, stop, config, eventVars, availableGames,
                 elapsed, call, worker, pendingState, batch, serverVars, answered, scanId>>

\* Mutant of JoinWorker: the thread is not waited for.
DeleteWithoutJoin ==
  /\ ipc = "join"
  /\ ryuldn_client' = FALSE
  /\ current_state' = "None"
  /\ CloseSocket /\ connected' = FALSE /\ networkConnected' = FALSE
  /\ config' = NoIp
  /\ initializeEvent' = FALSE /\ apConnectedEvent' = FALSE /\ scanEvent' = FALSE
  /\ availableGames' = {} /\ elapsed' = FALSE
  /\ Return
  /\ UNCHANGED <<ryuldn_proxy, stop, timeoutActive, worker, pendingState, batch,
                 answered, scanId>>

\* ... and joins the worker; the client is deleted and the state becomes None.
JoinWorker ==
  /\ ipc = "join" /\ worker = "off"
  /\ ryuldn_client' = FALSE
  /\ current_state' = "None"
  /\ CloseSocket /\ connected' = FALSE /\ networkConnected' = FALSE
  /\ stop' = FALSE /\ config' = NoIp
  /\ initializeEvent' = FALSE /\ apConnectedEvent' = FALSE /\ scanEvent' = FALSE
  /\ availableGames' = {} /\ elapsed' = FALSE
  /\ Return
  /\ UNCHANGED <<ryuldn_proxy, timeoutActive, worker, pendingState, batch,
                 answered, scanId>>

-----------------------------------------------------------------------------
\* The game starts a call: it may, or may not.
GameStep ==
  \/ Initialize \/ OpenAccessPoint \/ OpenStation \/ FinalizeProxy
  \/ \E c \in Requests : EnterRequest(c)
  \/ \E c \in Leaves : EnterLeave(c)

\* The IPC thread goes on with the call it is in.
IpcStep ==
  RequestStep \/ DisconnectNetwork \/ FinishLeave
    \/ StopWorker \/ DisposeTimeout \/ JoinWorker

Next == GameStep \/ IpcStep \/ WorkerStep \/ ServerStep \/ SixSecondsPass

Spec == Init /\ [][Next]_vars

(***************************************************************************)
(* Fairness: both threads are scheduled, every TimedWait ends, and time    *)
(* passes.  A thread that waits for the timeout's mutex gets it, because   *)
(* the worker leaves it free for six seconds between two time-outs.        *)
(* Nothing is assumed of the game or of the server.                        *)
(***************************************************************************)
Fairness ==
  /\ WF_vars(IpcStep) /\ WF_vars(WorkerStep) /\ WF_vars(SixSecondsPass)
  /\ SF_vars(JoinStart \/ ScanStart \/ DisposeTimeout)

FairSpec == Spec /\ Fairness

-----------------------------------------------------------------------------
(* Properties *)

\* CheckTimeout never reaches RefreshTimeout with its own, non-recursive mutex
\* held: when the idle timeout fires, the client is in no network.
NoSelfDeadlock == worker # "relock"

\* TimeoutConnection's "while (_socket >= 0)" never waits, so the worker leaves
\* the timeout's mutex at once.
TimeoutNeverSpins == worker = "timedOut" => ~socket

\* A sequence of packets that tells the client it is in a network.
Granting(packets) == \E i \in 1 .. Len(packets) : packets[i].type = "Connected"

\* The client is in a network, or on its way into one.
InNetwork ==
  networkConnected \/ srvNet # "out" \/ Granting(inbox) \/ Granting(batch)

\* A client that is in a network, or may still learn that it is, has an idle
\* timeout that cannot fire and, unless it is being finalized, its connection to
\* the master server.
NetworkDisarmsTimeout ==
  InNetwork => ~timeoutActive /\ (stop \/ (connected /\ socket))

\* An answer handled after its request was sent is never lost: the event the
\* call waits for is still set, so the call cannot time out.
NoLostWakeup ==
  /\ ipc = "helloWait" /\ answered => initializeEvent
  /\ ipc = "wait" /\ answered => IF call = "Scan" THEN scanEvent ELSE apConnectedEvent

\* Once Finalize has returned no worker is left that could call back into the
\* service, and no client.
FinalizedIsQuiet == current_state = "None" => worker = "off" /\ ~ryuldn_client

\* While EnsureConnected sets the connection up, the client is in no network.
HandshakeOutsideNetwork ==
  ipc \in {"connecting", "up", "hello", "helloSend", "helloWait"} => ~InNetwork

\* From DisableTimeout to its answer, a request to join runs with the idle
\* timeout off.
JoinRunsUntimed ==
  ipc \in {"connecting", "up", "hello", "helloSend", "helloWait", "prepare",
          "borrow", "send", "wait"}
    /\ call # "Scan" => ~timeoutActive

\* The client object lives from Initialize to the end of Finalize, and the
\* worker's callback never sets the state None.
ClientLifetime ==
  /\ ryuldn_client \equiv current_state # "None"
  /\ ~ryuldn_client => worker = "off" /\ ~connected /\ ipc = "idle"
  /\ stop => ipc \in {"disposeTimeout", "join"}
  /\ batch # <<>> => worker \in {"read", "callback", "setState"}
  /\ worker = "setState" => pendingState \in {"AccessPointCreated", "StationConnected"}

\* The safety properties and the three facts about the threads' progress that
\* make them inductive.
Safety ==
  /\ NetworkDisarmsTimeout /\ NoSelfDeadlock /\ TimeoutNeverSpins /\ NoLostWakeup
  /\ HandshakeOutsideNetwork /\ JoinRunsUntimed /\ ClientLifetime

\* The inductive invariant: at every step of either thread, of the server and of
\* time, types and Safety are preserved.
IndInv == TypeOK /\ Safety

\* Every call the game makes returns.
CallsReturn == ipc # "idle" ~> ipc = "idle"

-----------------------------------------------------------------------------
(* What the repository says of the code, and the code does not do *)

\* GetIpv4Address takes AccessPointCreated and StationConnected for the states
\* "where we have an active network"; with both threads at rest, that is what
\* they should be.  A SyncNetwork handled after the network was left, or a
\* Disconnect handled before CreateNetwork's own announcement, sets them with no
\* network behind.
ActiveStateHasNetwork ==
  ipc = "idle" /\ worker = "loop" /\ current_state \in {"AccessPointCreated", "StationConnected"}
    => networkConnected

\* onNetworkChange's log names the transitions it makes: AccessPoint ->
\* AccessPointCreated and Station -> StationConnected.  The state is read and
\* written without a lock, so the game's Close call can come in between.
ConnectedOnlyFromOpen ==
  [][ /\ current_state' = "AccessPointCreated" => current_state \in {"AccessPoint", "AccessPointCreated"}
      /\ current_state' = "StationConnected" => current_state \in {"Station", "StationConnected"}
    ]_vars

\* InactiveTimeout "disconnects after 6s of inactivity": a connection with no
\* network and no call in progress does not stay up forever.  DisableTimeout is
\* never undone, so after the first CreateNetwork or Connect it does.
IdleConnectionTimesOut == []<>~(connected /\ ~networkConnected /\ ipc = "idle")

\* Scan "clears previous results": what an answered scan copies out answers that
\* scan.  Replies to an earlier scan that timed out are taken for the new one's.
ScanReturnsItsOwn ==
  ipc = "wait" /\ call = "Scan" /\ scanEvent => availableGames \subseteq {scanId}

\* Finalize "destroys the proxy first": none is left once it has returned.  The
\* worker still runs after that deletion and may build another one.
FinalizeLeavesNoProxy == current_state = "None" => ryuldn_proxy = NoIp

\* The service "creates and registers the proxy when it receives ProxyConfig":
\* the proxy in use is the one for the latest ProxyConfig, whose address
\* GetIpv4Address reports.  From the second network on it is the first one's.
ProxyFollowsConfig == ryuldn_proxy # NoIp => ryuldn_proxy = config

=============================================================================
