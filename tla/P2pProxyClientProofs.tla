------------------------ MODULE P2pProxyClientProofs ------------------------
(***************************************************************************)
(* That PerformAuth never succeeds: nothing signals _connectedEvent        *)
(* between the moment it clears the event and the end of its wait.         *)
(***************************************************************************)
EXTENDS P2pProxyClient, TLAPS

\* The inductive invariant: the objects are records, the worker's wait has its
\* event cleared, and so the worker never comes to send.
AuthInv ==
    /\ DOMAIN client = Clients
    /\ \A c \in Clients : /\ {"connectedEvent", "authenticated"} \subseteq DOMAIN client[c]
                          /\ client[c].authenticated = FALSE
    /\ worker.pc \in {"idle", "connect", "auth", "authWait", "authTimeout",
                      "delete", "free"}
    /\ worker.pc = "authWait" => /\ worker.c \in Clients
                                 /\ client[worker.c].connectedEvent = FALSE

LEMMA AuthInit == Init => AuthInv
BY DEF Init, AuthInv, Constructed, Idle, Null

LEMMA WorkerAuth == ASSUME AuthInv, WorkerStep PROVE AuthInv'
<1> USE DEF AuthInv, At, Alive
<1>1. CASE HandleConnected
  BY <1>1 DEF HandleConnected
<1>2. CASE HandleExternalProxy
  BY <1>2 DEF HandleExternalProxy, Constructed, Unmade
<1>3. CASE ConnectFails
  BY <1>3 DEF ConnectFails
<1>4. CASE ConnectSucceeds
  BY <1>4 DEF ConnectSucceeds
<1>5. CASE PerformAuth
  BY <1>5 DEF PerformAuth
<1>6. CASE AuthWaitEnds
  BY <1>6 DEF AuthWaitEnds
<1>7. CASE AuthSends
  BY <1>7 DEF AuthSends
<1>8. CASE WorkerDisconnects
  BY <1>8 DEF WorkerDisconnects, Disconnect
<1>9. CASE WorkerFrees
  BY <1>9 DEF WorkerFrees, Idle, Null
<1>10. CASE HandleDisconnected
  BY <1>10 DEF HandleDisconnected, DeletesProxy, Idle
<1> QED BY <1>1, <1>2, <1>3, <1>4, <1>5, <1>6, <1>7, <1>8, <1>9, <1>10 DEF WorkerStep

LEMMA IpcAuth == ASSUME AuthInv, IpcStep PROVE AuthInv'
<1> USE DEF AuthInv, At, Alive
<1>1. CASE DisconnectNetwork
  BY <1>1 DEF DisconnectNetwork
<1>2. CASE DisconnectProxy
  BY <1>2 DEF DisconnectProxy
<1>3. CASE IpcDisconnects
  BY <1>3 DEF IpcDisconnects, Disconnect
<1>4. CASE IpcFrees
  BY <1>4 DEF IpcFrees
<1> QED BY <1>1, <1>2, <1>3, <1>4 DEF IpcStep

LEMMA ReceiveAuth == ASSUME AuthInv, NEW c \in Clients, ReceiveStep(c) PROVE AuthInv'
<1> USE DEF AuthInv, Alive
<1>1. CASE HandleProxyConfig(c)
  BY <1>1 DEF HandleProxyConfig
<1>2. CASE ReceiveLoopEnds(c)
  BY <1>2 DEF ReceiveLoopEnds
<1>3. CASE ReceiveLoopClears(c)
  BY <1>3 DEF ReceiveLoopClears
<1> QED BY <1>1, <1>2, <1>3 DEF ReceiveStep

\* However the worker, the IPC thread and the receive threads are interleaved, and
\* for any number of ExternalProxy messages, no client is authenticated to its
\* host: PerformAuth clears the event that Connect has signalled and then waits
\* for it.
THEOREM NoClientAuthenticates == Spec => []NeverAuthenticates
<1>1. AuthInv /\ [Next]_vars => AuthInv'
  <2> SUFFICES ASSUME AuthInv, [Next]_vars PROVE AuthInv'
    OBVIOUS
  <2>1. CASE UNCHANGED vars
    BY <2>1 DEF vars, AuthInv
  <2> QED BY <2>1, WorkerAuth, IpcAuth, ReceiveAuth DEF Next
<1>2. AuthInv => NeverAuthenticates
  BY DEF AuthInv, NeverAuthenticates
<1> QED BY AuthInit, <1>1, <1>2, PTL DEF Spec
=============================================================================
