--------------------------- MODULE P2pProxyClient ---------------------------
(***************************************************************************)
(* The guest's side of a peer-to-peer network: P2pProxyClient objects, as  *)
(* LdnMasterProxyClient makes and deletes them.  Its worker handles the    *)
(* master's ExternalProxy message: it makes a client, connects it to the   *)
(* host, authenticates, and deletes it when that fails.  An IPC thread     *)
(* that leaves the network deletes the client _connectedProxy points to,   *)
(* and so does the worker when the master disconnects the console or the   *)
(* connection is lost.  Each connected client has a receive thread.        *)
(*                                                                         *)
(* The host may close the connection at any time and answers an            *)
(* authentication with a ProxyConfig (external).  A step of a thread in an *)
(* object that is gone is not followed.                                    *)
(***************************************************************************)
EXTENDS Integers, FiniteSets

CONSTANT MaxClients    \* bound on the number of ExternalProxy messages

Clients == 1 .. MaxClients
Null == 0

VARIABLES client,           \* the objects
          rx,               \* where each one's receive thread is
          connectedProxy,   \* _connectedProxy
          worker, ipc,      \* where the two threads are, and in which object
          networkConnected  \* _networkConnected

vars == <<client, rx, connectedProxy, worker, ipc, networkConnected>>

Constructed == [life |-> "alive", socket |-> "none", connected |-> FALSE,
                ready |-> FALSE, running |-> FALSE, connectedEvent |-> FALSE,
                readyEvent |-> FALSE, authenticated |-> FALSE]
Idle == [pc |-> "idle", c |-> Null]
At(pc, c) == [pc |-> pc, c |-> c]

Init == /\ client = [c \in Clients |-> [Constructed EXCEPT !.life = "unused"]]
        /\ rx = [c \in Clients |-> "off"]
        /\ connectedProxy = Null
        /\ worker = Idle /\ ipc = Idle
        /\ networkConnected = FALSE

Alive(c) == c \in Clients /\ client[c].life = "alive"
Unmade == {c \in Clients : client[c].life = "unused"}

(***************************************************************************)
(* The worker of LdnMasterProxyClient.                                     *)
(***************************************************************************)
HandleConnected ==
    /\ worker = Idle /\ ~networkConnected
    /\ networkConnected' = TRUE
    /\ UNCHANGED <<client, rx, connectedProxy, worker, ipc>>

\* DisconnectInternal deletes the client there is.
DeletesProxy == IF connectedProxy = Null THEN Idle ELSE At("delete", connectedProxy)

\* DisconnectInternal on the worker, for a Disconnect message or a failed recv().
HandleDisconnected ==
    /\ worker = Idle /\ networkConnected
    /\ networkConnected' = FALSE
    /\ worker' = DeletesProxy
    /\ UNCHANGED <<client, rx, connectedProxy, ipc>>

\* The pointer is set before the client is connected.
HandleExternalProxy ==
    /\ worker = Idle
    /\ \E c \in Unmade :
          /\ \A d \in Unmade : c <= d
          /\ client' = [client EXCEPT ![c] = Constructed]
          /\ connectedProxy' = c
          /\ worker' = At("connect", c)
    /\ UNCHANGED <<rx, ipc, networkConnected>>

\* Connect: no socket, no such address, no answer, no memory, no thread.
ConnectFails ==
    /\ worker.pc = "connect" /\ Alive(worker.c)
    /\ worker' = At("delete", worker.c)
    /\ UNCHANGED <<client, rx, connectedProxy, ipc, networkConnected>>

\* Connect, with the event signalled before the receive thread is started.
ConnectSucceeds ==
    /\ worker.pc = "connect" /\ Alive(worker.c)
    /\ client' = [client EXCEPT ![worker.c].socket = "open", ![worker.c].connected = TRUE,
                     ![worker.c].running = TRUE, ![worker.c].connectedEvent = TRUE]
    /\ rx' = [rx EXCEPT ![worker.c] = "receive"]
    /\ worker' = At("auth", worker.c)
    /\ UNCHANGED <<connectedProxy, ipc, networkConnected>>

\* PerformAuth clears the event, and waits for it.
PerformAuth ==
    /\ worker.pc = "auth" /\ Alive(worker.c)
    /\ client' = [client EXCEPT ![worker.c].connectedEvent = FALSE]
    /\ worker' = At("authWait", worker.c)
    /\ UNCHANGED <<rx, connectedProxy, ipc, networkConnected>>

AuthWaitEnds ==
    /\ worker.pc = "authWait" /\ Alive(worker.c)
    /\ worker' = At(IF client[worker.c].connectedEvent THEN "authSend" ELSE "authTimeout",
                    worker.c)
    /\ UNCHANGED <<client, rx, connectedProxy, ipc, networkConnected>>

\* The connection is looked at again and the message sent, if there is a buffer
\* and all of it goes out.
AuthSends ==
    /\ worker.pc = "authSend" /\ Alive(worker.c)
    /\ \/ /\ client[worker.c].connected /\ client[worker.c].socket = "open"
          /\ client' = [client EXCEPT ![worker.c].authenticated = TRUE]
          /\ worker' = Idle
       \/ worker' = At("delete", worker.c) /\ UNCHANGED client
    /\ UNCHANGED <<rx, connectedProxy, ipc, networkConnected>>

(***************************************************************************)
(* delete, by either thread.                                               *)
(***************************************************************************)
\* Disconnect, as the destructor calls it.  It resets _running before it asks
\* whether there is a thread to wait for, so it waits for none.
Disconnect(c) ==
    IF ~client[c].connected /\ ~client[c].running THEN client
    ELSE [client EXCEPT ![c].running = FALSE, ![c].connected = FALSE, ![c].ready = FALSE,
             ![c].connectedEvent = FALSE, ![c].readyEvent = FALSE, ![c].socket = "closed"]

WorkerDisconnects ==
    /\ worker.pc \in {"delete", "authTimeout"} /\ Alive(worker.c)
    /\ client' = Disconnect(worker.c)
    /\ worker' = At("free", worker.c)
    /\ UNCHANGED <<rx, connectedProxy, ipc, networkConnected>>

WorkerFrees ==
    /\ worker.pc = "free" /\ Alive(worker.c)
    /\ client' = [client EXCEPT ![worker.c].life = "deleted"]
    /\ connectedProxy' = Null
    /\ worker' = Idle
    /\ UNCHANGED <<rx, ipc, networkConnected>>

\* DisconnectInternal in DisconnectNetwork.
DisconnectNetwork ==
    /\ ipc = Idle /\ networkConnected
    /\ networkConnected' = FALSE
    /\ ipc' = DeletesProxy
    /\ UNCHANGED <<client, rx, connectedProxy, worker>>

\* DisconnectProxy, when a network cannot be created for want of a connection.
DisconnectProxy ==
    /\ ipc = Idle /\ connectedProxy # Null
    /\ ipc' = At("delete", connectedProxy)
    /\ UNCHANGED <<client, rx, connectedProxy, worker, networkConnected>>

IpcDisconnects ==
    /\ ipc.pc = "delete" /\ Alive(ipc.c)
    /\ client' = Disconnect(ipc.c)
    /\ ipc' = At("free", ipc.c)
    /\ UNCHANGED <<rx, connectedProxy, worker, networkConnected>>

IpcFrees ==
    /\ ipc.pc = "free" /\ Alive(ipc.c)
    /\ client' = [client EXCEPT ![ipc.c].life = "deleted"]
    /\ connectedProxy' = Null
    /\ ipc' = Idle
    /\ UNCHANGED <<rx, worker, networkConnected>>

(***************************************************************************)
(* The receive thread.                                                     *)
(***************************************************************************)
HandleProxyConfig(c) ==
    /\ rx[c] = "receive" /\ Alive(c) /\ client[c].running /\ client[c].authenticated
    /\ client' = [client EXCEPT ![c].ready = TRUE, ![c].readyEvent = TRUE]
    /\ UNCHANGED <<rx, connectedProxy, worker, ipc, networkConnected>>

\* The host has closed the connection, the socket is shut down or closed, or
\* _running is found reset.
ReceiveLoopEnds(c) ==
    /\ rx[c] = "receive" /\ Alive(c)
    /\ rx' = [rx EXCEPT ![c] = "ending"]
    /\ UNCHANGED <<client, connectedProxy, worker, ipc, networkConnected>>

ReceiveLoopClears(c) ==
    /\ rx[c] = "ending" /\ Alive(c)
    /\ client' = [client EXCEPT ![c].connected = FALSE, ![c].ready = FALSE,
                     ![c].connectedEvent = FALSE, ![c].readyEvent = FALSE]
    /\ rx' = [rx EXCEPT ![c] = "off"]
    /\ UNCHANGED <<connectedProxy, worker, ipc, networkConnected>>

WorkerStep == \/ HandleConnected \/ HandleDisconnected
              \/ HandleExternalProxy \/ ConnectFails \/ ConnectSucceeds
              \/ PerformAuth \/ AuthWaitEnds \/ AuthSends
              \/ WorkerDisconnects \/ WorkerFrees
IpcStep == DisconnectNetwork \/ DisconnectProxy \/ IpcDisconnects \/ IpcFrees
ReceiveStep(c) == HandleProxyConfig(c) \/ ReceiveLoopEnds(c) \/ ReceiveLoopClears(c)

Next == WorkerStep \/ IpcStep \/ \E c \in Clients : ReceiveStep(c)

Spec == Init /\ [][Next]_vars

\* No client is authenticated: proved in P2pProxyClientProofs.
NeverAuthenticates == \A c \in Clients : ~client[c].authenticated

(***************************************************************************)
(* What the repository says of the code, and the code does not do.         *)
(***************************************************************************)
\* PerformAuth will "wait for connection", and gives up with "Connection
\* timeout" when there is none.  It clears the event Connect has signalled, which
\* nothing signals again, and so gives up on every connected client.
TimeoutMeansUnconnected ==
    worker.pc = "authTimeout" /\ Alive(worker.c) => ~client[worker.c].connected

\* Disconnect will "wait for receive thread": none is left in an object that is
\* deleted.
DeletedHasNoReceiver == \A c \in Clients : client[c].life = "deleted" => rx[c] = "off"

\* The object a thread works on, and will delete, is there.  Both threads delete
\* what _connectedProxy points to, without a lock.
ThreadsKeepClient == /\ worker # Idle => Alive(worker.c)
                     /\ ipc # Idle => Alive(ipc.c)
=============================================================================
