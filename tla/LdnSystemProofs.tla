-------------------------- MODULE LdnSystemProofs --------------------------
(***************************************************************************)
(* Proofs about LdnSystem, for every set of addresses, scan identities and *)
(* calls, and with no bound on the packets in flight but MaxInbox.         *)
(*                                                                         *)
(* The types are preserved in three lemmas, FlagsStep, DataStep and        *)
(* ServiceStep, one per kind of field.  SafetyStep preserves the rest of   *)
(* IndInv.  Each of them has one step per action of Next.                  *)
(***************************************************************************)
EXTENDS LdnSystem, TLAPS

USE DEF vars, serviceVars, connVars, eventVars, timerVars, serverVars, clientVars, NoIp

-----------------------------------------------------------------------------
(* Packets that grant a network *)

\* A connection that has just been closed or opened grants nothing.
LEMMA GrantingEmpty == ~Granting(<<>>)
  BY DEF Granting

\* Handling a packet leaves no grant that was not there.
LEMMA GrantingTail ==
  ASSUME NEW q \in Seq(Packets), q # <<>>, Granting(Tail(q))
  PROVE  Granting(q)
  BY DEF Granting

\* A Connected that is about to be handled is a grant.
LEMMA GrantingHead ==
  ASSUME NEW q \in Seq(Packets), q # <<>>, Head(q).type = "Connected"
  PROVE  Granting(q)
  BY DEF Granting

\* Only a Connected adds a grant to the stream.
LEMMA GrantingAppend ==
  ASSUME NEW q \in Seq(Packets), NEW p \in Packets, Granting(Append(q, p))
  PROVE  Granting(q) \/ p.type = "Connected"
  BY DEF Granting

\* Sending any other packet does not change whether the client is in a network.
LEMMA PushGrantsNothing ==
  ASSUME TypeOK, NEW p \in Packets, Push(p), p.type # "Connected", Granting(inbox')
  PROVE  Granting(inbox)
  BY GrantingAppend DEF TypeOK, ClientTypeOK, DataTypeOK, Push

-----------------------------------------------------------------------------
(* Types *)

\* The stream from the server, and what the server knows of the client, either
\* stay or are lost with the connection.
StreamKeptOrLost ==
  \/ UNCHANGED <<inbox, srvNet, srvScan>>
  \/ inbox' = <<>> /\ srvNet' = "out" /\ srvScan' = {}

\* Either way they keep their types.
LEMMA StreamTypes ==
  ASSUME DataTypeOK, StreamKeptOrLost
  PROVE  /\ inbox' \in Seq(Packets)
         /\ srvNet' \in {"out", "joining", "configured", "in"}
         /\ srvScan' \in SUBSET Scans
<1>1. CASE UNCHANGED <<inbox, srvNet, srvScan>>
  BY <1>1 DEF DataTypeOK
<1>2. CASE inbox' = <<>> /\ srvNet' = "out" /\ srvScan' = {}
  BY <1>2
<1>. QED
  BY <1>1, <1>2 DEF StreamKeptOrLost

\* What the start of EnsureConnected does to the fields that are not flags.
LEMMA ConnectStartTypes ==
  ASSUME DataTypeOK, EnsureConnectedStart
  PROVE  /\ ipc' \in {"prepare", "connecting", "idle"}
         /\ call' \in {call, "none"}
         /\ inbox' \in Seq(Packets)
         /\ srvNet' \in {"out", "joining", "configured", "in"}
         /\ srvScan' \in SUBSET Scans
<1>1. /\ StreamKeptOrLost
      /\ ipc' \in {"prepare", "connecting", "idle"}
      /\ call' \in {call, "none"}
  BY Zenon DEF EnsureConnectedStart, Return, StreamKeptOrLost
<1>. QED
  BY <1>1, StreamTypes


\* Every step of the system keeps the Boolean fields of the client Boolean.
LEMMA FlagsStep == ASSUME FlagsTypeOK, Next PROVE FlagsTypeOK'
<1>1. CASE Initialize
  BY <1>1, Zenon
    DEF FlagsTypeOK, Initialize
<1>2. CASE OpenAccessPoint
  BY <1>2, Zenon
    DEF FlagsTypeOK, OpenAccessPoint, CallSetsState
<1>3. CASE OpenStation
  BY <1>3, Zenon
    DEF FlagsTypeOK, OpenStation, CallSetsState
<1>4. CASE FinalizeProxy
  BY <1>4, Zenon
    DEF FlagsTypeOK, FinalizeProxy
<1>5. ASSUME NEW c \in Requests, EnterRequest(c) PROVE FlagsTypeOK'
  BY <1>5, Zenon
    DEF FlagsTypeOK, EnterRequest
<1>6. ASSUME NEW c \in Leaves, EnterLeave(c) PROVE FlagsTypeOK'
  BY <1>6, Zenon
    DEF FlagsTypeOK, EnterLeave, ConnectedStateFor
<1>7. CASE JoinStart
  BY <1>7, Zenon
    DEF FlagsTypeOK, JoinStart, EnsureConnectedStart, Return
<1>8. CASE ScanStart
  BY <1>8, Zenon
    DEF FlagsTypeOK, ScanStart, EnsureConnectedStart, Return, RefreshTimeout,
           NewScanId
<1>9. CASE ConnectFails
  BY <1>9, Zenon
    DEF FlagsTypeOK, ConnectFails, CloseSocket, Return
<1>10. CASE ConnectSucceeds
  BY <1>10, Zenon
    DEF FlagsTypeOK, ConnectSucceeds
<1>11. CASE SetConnected
  BY <1>11, Zenon
    DEF FlagsTypeOK, SetConnected
<1>12. CASE ClearInitializeEvent
  BY <1>12, Zenon
    DEF FlagsTypeOK, ClearInitializeEvent
<1>13. CASE SendInitialize
  BY <1>13, Zenon
    DEF FlagsTypeOK, SendInitialize
<1>14. CASE InitializeNotSent
  BY <1>14, Zenon
    DEF FlagsTypeOK, InitializeNotSent, Return
<1>15. CASE AwaitInitialize
  BY <1>15, Zenon
    DEF FlagsTypeOK, AwaitInitialize, Return
<1>16. CASE PrepareRequest
  BY <1>16, Zenon
    DEF FlagsTypeOK, PrepareRequest, DisconnectInternal, RefreshTimeout,
           StateWhenDisconnected
<1>17. CASE BorrowForRequest
  BY <1>17, Zenon
    DEF FlagsTypeOK, BorrowForRequest
<1>18. CASE NoBufferForRequest
  BY <1>18, Zenon
    DEF FlagsTypeOK, NoBufferForRequest, Return
<1>19. CASE SendRequest
  BY <1>19, Zenon
    DEF FlagsTypeOK, SendRequest, CanSend
<1>20. CASE AwaitAnswer
  BY <1>20, Zenon
    DEF FlagsTypeOK, AwaitAnswer
<1>21. CASE AnnounceNetwork
  BY <1>21, Zenon
    DEF FlagsTypeOK, AnnounceNetwork, Return, StateWhenConnected
<1>22. CASE DisconnectNetwork
  BY <1>22, Zenon
    DEF FlagsTypeOK, DisconnectNetwork, DisconnectInternal, RefreshTimeout,
           StateWhenDisconnected, CanSend
<1>23. CASE FinishLeave
  BY <1>23, Zenon
    DEF FlagsTypeOK, FinishLeave, Return
<1>24. CASE StopWorker
  BY <1>24, Zenon
    DEF FlagsTypeOK, StopWorker, Disconnect, CloseSocket, DisconnectInternal,
           RefreshTimeout, StateWhenDisconnected
<1>25. CASE DisposeTimeout
  BY <1>25, Zenon
    DEF FlagsTypeOK, DisposeTimeout
<1>26. CASE JoinWorker
  BY <1>26, Zenon
    DEF FlagsTypeOK, JoinWorker, CloseSocket, Return
<1>27. CASE Poll
  BY <1>27, Zenon
    DEF FlagsTypeOK, Poll
<1>28. CASE PollTimesOut
  BY <1>28, Zenon
    DEF FlagsTypeOK, PollTimesOut
<1>29. CASE ReceiveData
  BY <1>29, Zenon
    DEF FlagsTypeOK, ReceiveData
<1>30. CASE ReceiveDone
  BY <1>30, Zenon
    DEF FlagsTypeOK, ReceiveDone
<1>31. CASE HandleInitialize
  BY <1>31, Zenon
    DEF FlagsTypeOK, HandleInitialize, Receive
<1>32. CASE HandleConnected
  BY <1>32, Zenon
    DEF FlagsTypeOK, HandleConnected, Receive
<1>33. CASE HandleSyncNetwork
  BY <1>33, Zenon
    DEF FlagsTypeOK, HandleSyncNetwork, Receive
<1>34. CASE ReadStateInCallback
  BY <1>34, Zenon
    DEF FlagsTypeOK, ReadStateInCallback, StateWhenConnected
<1>35. CASE SetStateInCallback
  BY <1>35, Zenon
    DEF FlagsTypeOK, SetStateInCallback
<1>36. CASE HandleDisconnected
  BY <1>36, Zenon
    DEF FlagsTypeOK, HandleDisconnected, Receive, DisconnectInternal,
           RefreshTimeout, StateWhenDisconnected
<1>37. CASE HandleScanReply
  BY <1>37, Zenon
    DEF FlagsTypeOK, HandleScanReply, Receive
<1>38. CASE HandleScanReplyEnd
  BY <1>38, Zenon
    DEF FlagsTypeOK, HandleScanReplyEnd, Receive
<1>39. CASE HandleProxyConfig
  BY <1>39, Zenon
    DEF FlagsTypeOK, HandleProxyConfig, Receive, OnProxyConfig
<1>40. CASE ReceiveFails
  BY <1>40, Zenon
    DEF FlagsTypeOK, ReceiveFails, Disconnect, CloseSocket, DisconnectInternal,
           RefreshTimeout, StateWhenDisconnected
<1>41. CASE TimeoutConnection
  BY <1>41, Zenon
    DEF FlagsTypeOK, TimeoutConnection, CloseSocket, StateWhenDisconnected,
           TimeoutDue
<1>42. CASE TimeoutDone
  BY <1>42, Zenon
    DEF FlagsTypeOK, TimeoutDone
<1>43. CASE WorkerExit
  BY <1>43, Zenon
    DEF FlagsTypeOK, WorkerExit
<1>44. CASE ServerInitialize
  BY <1>44, Zenon
    DEF FlagsTypeOK, ServerInitialize, Push, Packet
<1>45. CASE ServerProxyConfig
  BY <1>45, Zenon
    DEF FlagsTypeOK, ServerProxyConfig, Push, Packet
<1>46. CASE ServerConnected
  BY <1>46, Zenon
    DEF FlagsTypeOK, ServerConnected, Push, Packet
<1>47. CASE ServerScanReply
  BY <1>47, Zenon
    DEF FlagsTypeOK, ServerScanReply, Push, Packet
<1>48. CASE ServerScanReplyEnd
  BY <1>48, Zenon
    DEF FlagsTypeOK, ServerScanReplyEnd, Push, Packet
<1>49. CASE ServerSyncNetwork
  BY <1>49, Zenon
    DEF FlagsTypeOK, ServerSyncNetwork, Push, Packet
<1>50. CASE ServerDisconnect
  BY <1>50, Zenon
    DEF FlagsTypeOK, ServerDisconnect, Push, Packet
<1>51. CASE SixSecondsPass
  BY <1>51, Zenon
    DEF FlagsTypeOK, SixSecondsPass
<1>. QED
  BY <1>1, <1>2, <1>3, <1>4, <1>5, <1>6, <1>7, <1>8, <1>9, <1>10, <1>11, <1>12,
         <1>13, <1>14, <1>15, <1>16, <1>17, <1>18, <1>19, <1>20, <1>21, <1>22,
         <1>23, <1>24, <1>25, <1>26, <1>27, <1>28, <1>29, <1>30, <1>31, <1>32,
         <1>33, <1>34, <1>35, <1>36, <1>37, <1>38, <1>39, <1>40, <1>41, <1>42,
         <1>43, <1>44, <1>45, <1>46, <1>47, <1>48, <1>49, <1>50, <1>51
    DEF Next, GameStep, IpcStep, RequestStep, WorkerStep, ServerStep

\* Every step of the system keeps the other fields of the client in their types.
LEMMA DataStep == ASSUME ServiceTypeOK, DataTypeOK, Next PROVE DataTypeOK'
<1>1. CASE Initialize
  BY <1>1
    DEF DataTypeOK, IpcPCs, WorkerPCs, Initialize
<1>2. CASE OpenAccessPoint
  BY <1>2
    DEF DataTypeOK, IpcPCs, WorkerPCs, OpenAccessPoint, CallSetsState
<1>3. CASE OpenStation
  BY <1>3
    DEF DataTypeOK, IpcPCs, WorkerPCs, OpenStation, CallSetsState
<1>4. CASE FinalizeProxy
  BY <1>4
    DEF DataTypeOK, IpcPCs, WorkerPCs, AllCalls, FinalizeProxy
<1>5. ASSUME NEW c \in Requests, EnterRequest(c) PROVE DataTypeOK'
  BY <1>5
    DEF DataTypeOK, IpcPCs, WorkerPCs, AllCalls, EnterRequest
<1>6. ASSUME NEW c \in Leaves, EnterLeave(c) PROVE DataTypeOK'
  BY <1>6
    DEF DataTypeOK, IpcPCs, WorkerPCs, AllCalls, EnterLeave, ConnectedStateFor
<1>7. CASE JoinStart
  <2>1. EnsureConnectedStart
    BY <1>7 DEF JoinStart
  <2>2. UNCHANGED <<config, availableGames, worker, pendingState, batch, scanId>>
    BY <1>7 DEF JoinStart
  <2>. QED
    BY <2>1, <2>2, ConnectStartTypes DEF DataTypeOK, IpcPCs
<1>8. CASE ScanStart
  <2>1. EnsureConnectedStart
    BY <1>8 DEF ScanStart
  <2>2. /\ UNCHANGED <<config, worker, pendingState, batch>>
        /\ availableGames' = {} /\ scanId' \in Scans
    BY <1>8 DEF ScanStart, NewScanId
  <2>. QED
    BY <2>1, <2>2, ConnectStartTypes DEF DataTypeOK, IpcPCs
<1>9. CASE ConnectFails
  BY <1>9
    DEF DataTypeOK, IpcPCs, WorkerPCs, ConnectFails, CloseSocket, Return
<1>10. CASE ConnectSucceeds
  BY <1>10
    DEF DataTypeOK, IpcPCs, WorkerPCs, ConnectSucceeds
<1>11. CASE SetConnected
  BY <1>11
    DEF DataTypeOK, IpcPCs, WorkerPCs, SetConnected
<1>12. CASE ClearInitializeEvent
  BY <1>12
    DEF DataTypeOK, IpcPCs, WorkerPCs, ClearInitializeEvent
<1>13. CASE SendInitialize
  BY <1>13
    DEF DataTypeOK, IpcPCs, WorkerPCs, SendInitialize
<1>14. CASE InitializeNotSent
  BY <1>14
    DEF DataTypeOK, IpcPCs, WorkerPCs, InitializeNotSent, Return
<1>15. CASE AwaitInitialize
  BY <1>15
    DEF DataTypeOK, IpcPCs, WorkerPCs, AwaitInitialize, Return
<1>16. CASE PrepareRequest
  BY <1>16
    DEF DataTypeOK, IpcPCs, WorkerPCs, PrepareRequest, DisconnectInternal,
           RefreshTimeout, StateWhenDisconnected
<1>17. CASE BorrowForRequest
  BY <1>17
    DEF DataTypeOK, IpcPCs, WorkerPCs, BorrowForRequest
<1>18. CASE NoBufferForRequest
  BY <1>18
    DEF DataTypeOK, IpcPCs, WorkerPCs, NoBufferForRequest, Return
<1>19. CASE SendRequest
  BY <1>19
    DEF DataTypeOK, IpcPCs, WorkerPCs, SendRequest, CanSend
<1>20. CASE AwaitAnswer
  BY <1>20
    DEF DataTypeOK, IpcPCs, WorkerPCs, AwaitAnswer
<1>21. CASE AnnounceNetwork
  BY <1>21
    DEF DataTypeOK, ServiceTypeOK, CommState, IpcPCs, WorkerPCs, AnnounceNetwork,
           Return, StateWhenConnected
<1>22. CASE DisconnectNetwork
  BY <1>22
    DEF DataTypeOK, IpcPCs, WorkerPCs, DisconnectNetwork, DisconnectInternal,
           RefreshTimeout, StateWhenDisconnected, CanSend
<1>23. CASE FinishLeave
  BY <1>23
    DEF DataTypeOK, IpcPCs, WorkerPCs, FinishLeave, Return
<1>24. CASE StopWorker
  <2>1. StreamKeptOrLost
    BY <1>24, Zenon DEF StopWorker, Disconnect, CloseSocket, StreamKeptOrLost
  <2>2. /\ UNCHANGED <<config, availableGames, call, worker, pendingState, batch, scanId>>
        /\ ipc' = "disposeTimeout"
    BY <1>24 DEF StopWorker
  <2>. QED
    BY <2>1, <2>2, StreamTypes DEF DataTypeOK, IpcPCs
<1>25. CASE DisposeTimeout
  BY <1>25
    DEF DataTypeOK, IpcPCs, WorkerPCs, DisposeTimeout
<1>26. CASE JoinWorker
  BY <1>26
    DEF DataTypeOK, IpcPCs, WorkerPCs, JoinWorker, CloseSocket, Return
<1>27. CASE Poll
  BY <1>27
    DEF DataTypeOK, IpcPCs, WorkerPCs, Poll
<1>28. CASE PollTimesOut
  BY <1>28
    DEF DataTypeOK, IpcPCs, WorkerPCs, PollTimesOut
<1>29. CASE ReceiveData
  BY <1>29
    DEF DataTypeOK, IpcPCs, WorkerPCs, ReceiveData
<1>30. CASE ReceiveDone
  BY <1>30
    DEF DataTypeOK, IpcPCs, WorkerPCs, ReceiveDone
<1>31. CASE HandleInitialize
  BY <1>31
    DEF DataTypeOK, IpcPCs, WorkerPCs, HandleInitialize, Receive
<1>32. CASE HandleConnected
  BY <1>32
    DEF DataTypeOK, IpcPCs, WorkerPCs, HandleConnected, Receive
<1>33. CASE HandleSyncNetwork
  BY <1>33
    DEF DataTypeOK, IpcPCs, WorkerPCs, HandleSyncNetwork, Receive
<1>34. CASE ReadStateInCallback
  BY <1>34
    DEF DataTypeOK, ServiceTypeOK, CommState, IpcPCs, WorkerPCs,
           ReadStateInCallback, StateWhenConnected
<1>35. CASE SetStateInCallback
  BY <1>35
    DEF DataTypeOK, ServiceTypeOK, CommState, IpcPCs, WorkerPCs, SetStateInCallback
<1>36. CASE HandleDisconnected
  BY <1>36
    DEF DataTypeOK, IpcPCs, WorkerPCs, HandleDisconnected, Receive,
           DisconnectInternal, RefreshTimeout, StateWhenDisconnected
<1>37. CASE HandleScanReply
  BY <1>37
    DEF DataTypeOK, IpcPCs, WorkerPCs, Packets, PlainPackets, HandleScanReply,
           Receive
<1>38. CASE HandleScanReplyEnd
  BY <1>38
    DEF DataTypeOK, IpcPCs, WorkerPCs, HandleScanReplyEnd, Receive
<1>39. CASE HandleProxyConfig
  BY <1>39, VirtualIpsAssumption
    DEF DataTypeOK, IpcPCs, WorkerPCs, Packets, PlainPackets, HandleProxyConfig,
           Receive, OnProxyConfig
<1>40. CASE ReceiveFails
  BY <1>40
    DEF DataTypeOK, IpcPCs, WorkerPCs, ReceiveFails, Disconnect, CloseSocket,
           DisconnectInternal, RefreshTimeout, StateWhenDisconnected
<1>41. CASE TimeoutConnection
  BY <1>41
    DEF DataTypeOK, IpcPCs, WorkerPCs, TimeoutConnection, CloseSocket,
           StateWhenDisconnected, TimeoutDue
<1>42. CASE TimeoutDone
  BY <1>42
    DEF DataTypeOK, IpcPCs, WorkerPCs, TimeoutDone
<1>43. CASE WorkerExit
  BY <1>43
    DEF DataTypeOK, IpcPCs, WorkerPCs, WorkerExit
<1>44. CASE ServerInitialize
  BY <1>44
    DEF DataTypeOK, IpcPCs, WorkerPCs, Packets, PlainPackets, ServerInitialize,
           Push, Packet
<1>45. CASE ServerProxyConfig
  BY <1>45, VirtualIpsAssumption
    DEF DataTypeOK, IpcPCs, WorkerPCs, Packets, PlainPackets, ServerProxyConfig,
           Push, Packet
<1>46. CASE ServerConnected
  BY <1>46
    DEF DataTypeOK, IpcPCs, WorkerPCs, Packets, PlainPackets, ServerConnected, Push,
           Packet
<1>47. CASE ServerScanReply
  BY <1>47
    DEF DataTypeOK, IpcPCs, WorkerPCs, Packets, PlainPackets, ServerScanReply, Push,
           Packet
<1>48. CASE ServerScanReplyEnd
  BY <1>48
    DEF DataTypeOK, IpcPCs, WorkerPCs, Packets, PlainPackets, ServerScanReplyEnd,
           Push, Packet
<1>49. CASE ServerSyncNetwork
  BY <1>49
    DEF DataTypeOK, IpcPCs, WorkerPCs, Packets, PlainPackets, ServerSyncNetwork,
           Push, Packet
<1>50. CASE ServerDisconnect
  BY <1>50
    DEF DataTypeOK, IpcPCs, WorkerPCs, Packets, PlainPackets, ServerDisconnect,
           Push, Packet
<1>51. CASE SixSecondsPass
  BY <1>51
    DEF DataTypeOK, IpcPCs, WorkerPCs, SixSecondsPass
<1>. QED
  BY <1>1, <1>2, <1>3, <1>4, <1>5, <1>6, <1>7, <1>8, <1>9, <1>10, <1>11, <1>12,
         <1>13, <1>14, <1>15, <1>16, <1>17, <1>18, <1>19, <1>20, <1>21, <1>22,
         <1>23, <1>24, <1>25, <1>26, <1>27, <1>28, <1>29, <1>30, <1>31, <1>32,
         <1>33, <1>34, <1>35, <1>36, <1>37, <1>38, <1>39, <1>40, <1>41, <1>42,
         <1>43, <1>44, <1>45, <1>46, <1>47, <1>48, <1>49, <1>50, <1>51
    DEF Next, GameStep, IpcStep, RequestStep, WorkerStep, ServerStep

\* Every step of the system keeps the service's fields in their types.
LEMMA ServiceStep == ASSUME ServiceTypeOK, DataTypeOK, Next PROVE ServiceTypeOK'
<1>1. CASE Initialize
  BY <1>1
    DEF ServiceTypeOK, CommState, Initialize
<1>2. CASE OpenAccessPoint
  BY <1>2
    DEF ServiceTypeOK, CommState, OpenAccessPoint, CallSetsState
<1>3. CASE OpenStation
  BY <1>3
    DEF ServiceTypeOK, CommState, OpenStation, CallSetsState
<1>4. CASE FinalizeProxy
  BY <1>4
    DEF ServiceTypeOK, CommState, FinalizeProxy
<1>5. ASSUME NEW c \in Requests, EnterRequest(c) PROVE ServiceTypeOK'
  BY <1>5
    DEF ServiceTypeOK, CommState, EnterRequest
<1>6. ASSUME NEW c \in Leaves, EnterLeave(c) PROVE ServiceTypeOK'
  BY <1>6
    DEF ServiceTypeOK, CommState, EnterLeave, ConnectedStateFor
<1>7. CASE JoinStart
  BY <1>7
    DEF ServiceTypeOK, CommState, JoinStart, EnsureConnectedStart, Return
<1>8. CASE ScanStart
  BY <1>8
    DEF ServiceTypeOK, CommState, ScanStart, EnsureConnectedStart, Return,
           RefreshTimeout, NewScanId
<1>9. CASE ConnectFails
  BY <1>9
    DEF ServiceTypeOK, CommState, ConnectFails, CloseSocket, Return
<1>10. CASE ConnectSucceeds
  BY <1>10
    DEF ServiceTypeOK, CommState, ConnectSucceeds
<1>11. CASE SetConnected
  BY <1>11
    DEF ServiceTypeOK, CommState, SetConnected
<1>12. CASE ClearInitializeEvent
  BY <1>12
    DEF ServiceTypeOK, CommState, ClearInitializeEvent
<1>13. CASE SendInitialize
  BY <1>13
    DEF ServiceTypeOK, CommState, SendInitialize
<1>14. CASE InitializeNotSent
  BY <1>14
    DEF ServiceTypeOK, CommState, InitializeNotSent, Return
<1>15. CASE AwaitInitialize
  BY <1>15
    DEF ServiceTypeOK, CommState, AwaitInitialize, Return
<1>16. CASE PrepareRequest
  BY <1>16
    DEF ServiceTypeOK, CommState, PrepareRequest, DisconnectInternal,
           RefreshTimeout, StateWhenDisconnected
<1>17. CASE BorrowForRequest
  BY <1>17
    DEF ServiceTypeOK, CommState, BorrowForRequest
<1>18. CASE NoBufferForRequest
  BY <1>18
    DEF ServiceTypeOK, CommState, NoBufferForRequest, Return
<1>19. CASE SendRequest
  BY <1>19
    DEF ServiceTypeOK, CommState, SendRequest, CanSend
<1>20. CASE AwaitAnswer
  BY <1>20
    DEF ServiceTypeOK, CommState, AwaitAnswer
<1>21. CASE AnnounceNetwork
  BY <1>21
    DEF ServiceTypeOK, CommState, AnnounceNetwork, Return, StateWhenConnected
<1>22. CASE DisconnectNetwork
  BY <1>22
    DEF ServiceTypeOK, CommState, DisconnectNetwork, DisconnectInternal,
           RefreshTimeout, StateWhenDisconnected, CanSend
<1>23. CASE FinishLeave
  BY <1>23
    DEF ServiceTypeOK, CommState, FinishLeave, Return
<1>24. CASE StopWorker
  BY <1>24
    DEF ServiceTypeOK, CommState, StopWorker, Disconnect, CloseSocket,
           DisconnectInternal, RefreshTimeout, StateWhenDisconnected
<1>25. CASE DisposeTimeout
  BY <1>25
    DEF ServiceTypeOK, CommState, DisposeTimeout
<1>26. CASE JoinWorker
  BY <1>26
    DEF ServiceTypeOK, CommState, JoinWorker, CloseSocket, Return
<1>27. CASE Poll
  BY <1>27
    DEF ServiceTypeOK, CommState, Poll
<1>28. CASE PollTimesOut
  BY <1>28
    DEF ServiceTypeOK, CommState, PollTimesOut
<1>29. CASE ReceiveData
  BY <1>29
    DEF ServiceTypeOK, CommState, ReceiveData
<1>30. CASE ReceiveDone
  BY <1>30
    DEF ServiceTypeOK, CommState, ReceiveDone
<1>31. CASE HandleInitialize
  BY <1>31
    DEF ServiceTypeOK, CommState, HandleInitialize, Receive
<1>32. CASE HandleConnected
  BY <1>32
    DEF ServiceTypeOK, CommState, HandleConnected, Receive
<1>33. CASE HandleSyncNetwork
  BY <1>33
    DEF ServiceTypeOK, CommState, HandleSyncNetwork, Receive
<1>34. CASE ReadStateInCallback
  BY <1>34
    DEF ServiceTypeOK, CommState, ReadStateInCallback, StateWhenConnected
<1>35. CASE SetStateInCallback
  BY <1>35
    DEF ServiceTypeOK, DataTypeOK, CommState, SetStateInCallback
<1>36. CASE HandleDisconnected
  BY <1>36
    DEF ServiceTypeOK, CommState, HandleDisconnected, Receive, DisconnectInternal,
           RefreshTimeout, StateWhenDisconnected
<1>37. CASE HandleScanReply
  BY <1>37
    DEF ServiceTypeOK, CommState, HandleScanReply, Receive
<1>38. CASE HandleScanReplyEnd
  BY <1>38
    DEF ServiceTypeOK, CommState, HandleScanReplyEnd, Receive
<1>39. CASE HandleProxyConfig
  BY <1>39, VirtualIpsAssumption
    DEF ServiceTypeOK, DataTypeOK, CommState, Packets, PlainPackets,
           HandleProxyConfig, Receive, OnProxyConfig
<1>40. CASE ReceiveFails
  BY <1>40
    DEF ServiceTypeOK, CommState, ReceiveFails, Disconnect, CloseSocket,
           DisconnectInternal, RefreshTimeout, StateWhenDisconnected
<1>41. CASE TimeoutConnection
  BY <1>41
    DEF ServiceTypeOK, CommState, TimeoutConnection, CloseSocket,
           StateWhenDisconnected, TimeoutDue
<1>42. CASE TimeoutDone
  BY <1>42
    DEF ServiceTypeOK, CommState, TimeoutDone
<1>43. CASE WorkerExit
  BY <1>43
    DEF ServiceTypeOK, CommState, WorkerExit
<1>44. CASE ServerInitialize
  BY <1>44
    DEF ServiceTypeOK, CommState, ServerInitialize, Push, Packet
<1>45. CASE ServerProxyConfig
  BY <1>45
    DEF ServiceTypeOK, CommState, ServerProxyConfig, Push, Packet
<1>46. CASE ServerConnected
  BY <1>46
    DEF ServiceTypeOK, CommState, ServerConnected, Push, Packet
<1>47. CASE ServerScanReply
  BY <1>47
    DEF ServiceTypeOK, CommState, ServerScanReply, Push, Packet
<1>48. CASE ServerScanReplyEnd
  BY <1>48
    DEF ServiceTypeOK, CommState, ServerScanReplyEnd, Push, Packet
<1>49. CASE ServerSyncNetwork
  BY <1>49
    DEF ServiceTypeOK, CommState, ServerSyncNetwork, Push, Packet
<1>50. CASE ServerDisconnect
  BY <1>50
    DEF ServiceTypeOK, CommState, ServerDisconnect, Push, Packet
<1>51. CASE SixSecondsPass
  BY <1>51
    DEF ServiceTypeOK, CommState, SixSecondsPass
<1>. QED
  BY <1>1, <1>2, <1>3, <1>4, <1>5, <1>6, <1>7, <1>8, <1>9, <1>10, <1>11, <1>12,
         <1>13, <1>14, <1>15, <1>16, <1>17, <1>18, <1>19, <1>20, <1>21, <1>22,
         <1>23, <1>24, <1>25, <1>26, <1>27, <1>28, <1>29, <1>30, <1>31, <1>32,
         <1>33, <1>34, <1>35, <1>36, <1>37, <1>38, <1>39, <1>40, <1>41, <1>42,
         <1>43, <1>44, <1>45, <1>46, <1>47, <1>48, <1>49, <1>50, <1>51
    DEF Next, GameStep, IpcStep, RequestStep, WorkerStep, ServerStep

\* Every step of the system preserves Safety.
LEMMA SafetyStep == ASSUME IndInv, Next PROVE Safety'
<1>. USE DEF IndInv, Safety, TypeOK, ServiceTypeOK, ClientTypeOK, DataTypeOK, FlagsTypeOK,
             NetworkDisarmsTimeout, HandshakeOutsideNetwork, JoinRunsUntimed, ClientLifetime,
             NoSelfDeadlock, TimeoutNeverSpins, NoLostWakeup, InNetwork, TimeoutLocked
<1>1. CASE Initialize
  BY <1>1, GrantingEmpty
    DEF Initialize
<1>2. CASE OpenAccessPoint
  BY <1>2, GrantingEmpty
    DEF OpenAccessPoint, CallSetsState
<1>3. CASE OpenStation
  BY <1>3, GrantingEmpty
    DEF OpenStation, CallSetsState
<1>4. CASE FinalizeProxy
  BY <1>4, GrantingEmpty
    DEF FinalizeProxy
<1>5. ASSUME NEW c \in Requests, EnterRequest(c) PROVE Safety'
  BY <1>5, GrantingEmpty
    DEF EnterRequest
<1>6. ASSUME NEW c \in Leaves, EnterLeave(c) PROVE Safety'
  BY <1>6, GrantingEmpty
    DEF EnterLeave, ConnectedStateFor
<1>7. CASE JoinStart
  BY <1>7, GrantingEmpty
    DEF JoinStart, EnsureConnectedStart, Return
<1>8. CASE ScanStart
  <2>1. NetworkDisarmsTimeout' /\ HandshakeOutsideNetwork'
    BY <1>8, GrantingEmpty DEF ScanStart, EnsureConnectedStart, Return
  <2>2. TimeoutNeverSpins'
    BY <1>8, GrantingEmpty DEF ScanStart, EnsureConnectedStart
  <2>3. JoinRunsUntimed' /\ ClientLifetime'
    BY <1>8 DEF ScanStart, EnsureConnectedStart, Return
  <2>4. NoSelfDeadlock' /\ NoLostWakeup'
    BY <1>8 DEF ScanStart, EnsureConnectedStart, Return
  <2>. QED
    BY <2>1, <2>2, <2>3, <2>4
<1>9. CASE ConnectFails
  BY <1>9, GrantingEmpty
    DEF ConnectFails, CloseSocket, Return
<1>10. CASE ConnectSucceeds
  BY <1>10, GrantingEmpty
    DEF ConnectSucceeds
<1>11. CASE SetConnected
  BY <1>11, GrantingEmpty
    DEF SetConnected
<1>12. CASE ClearInitializeEvent
  BY <1>12, GrantingEmpty
    DEF ClearInitializeEvent
<1>13. CASE SendInitialize
  BY <1>13, GrantingEmpty
    DEF SendInitialize
<1>14. CASE InitializeNotSent
  BY <1>14, GrantingEmpty
    DEF InitializeNotSent, Return
<1>15. CASE AwaitInitialize
  BY <1>15, GrantingEmpty
    DEF AwaitInitialize, Return
<1>16. CASE PrepareRequest
  BY <1>16, GrantingEmpty
    DEF PrepareRequest, DisconnectInternal, RefreshTimeout, StateWhenDisconnected
<1>17. CASE BorrowForRequest
  BY <1>17, GrantingEmpty
    DEF BorrowForRequest
<1>18. CASE NoBufferForRequest
  BY <1>18, GrantingEmpty
    DEF NoBufferForRequest, Return
<1>19. CASE SendRequest
  BY <1>19, GrantingEmpty
    DEF SendRequest, CanSend
<1>20. CASE AwaitAnswer
  BY <1>20, GrantingEmpty
    DEF AwaitAnswer
<1>21. CASE AnnounceNetwork
  BY <1>21, GrantingEmpty
    DEF AnnounceNetwork, Return, StateWhenConnected
<1>22. CASE DisconnectNetwork
  BY <1>22, GrantingEmpty
    DEF DisconnectNetwork, DisconnectInternal, RefreshTimeout,
           StateWhenDisconnected, CanSend
<1>23. CASE FinishLeave
  BY <1>23, GrantingEmpty
    DEF FinishLeave, Return
<1>24. CASE StopWorker
  BY <1>24, GrantingEmpty
    DEF StopWorker, Disconnect, CloseSocket, DisconnectInternal, RefreshTimeout,
           StateWhenDisconnected
<1>25. CASE DisposeTimeout
  BY <1>25, GrantingEmpty
    DEF DisposeTimeout
<1>26. CASE JoinWorker
  BY <1>26, GrantingEmpty
    DEF JoinWorker, CloseSocket, Return
<1>27. CASE Poll
  BY <1>27, GrantingEmpty
    DEF Poll
<1>28. CASE PollTimesOut
  BY <1>28, GrantingEmpty
    DEF PollTimesOut
<1>29. CASE ReceiveData
  BY <1>29, GrantingEmpty
    DEF ReceiveData
<1>30. CASE ReceiveDone
  BY <1>30, GrantingEmpty
    DEF ReceiveDone
<1>31. CASE HandleInitialize
  BY <1>31, GrantingTail
    DEF HandleInitialize, Receive
<1>32. CASE HandleConnected
  BY <1>32, GrantingTail, GrantingHead
    DEF HandleConnected, Receive
<1>33. CASE HandleSyncNetwork
  BY <1>33, GrantingTail
    DEF HandleSyncNetwork, Receive
<1>34. CASE ReadStateInCallback
  BY <1>34, GrantingEmpty
    DEF ReadStateInCallback, StateWhenConnected
<1>35. CASE SetStateInCallback
  BY <1>35, GrantingEmpty
    DEF SetStateInCallback
<1>36. CASE HandleDisconnected
  BY <1>36, GrantingTail
    DEF HandleDisconnected, Receive, DisconnectInternal, RefreshTimeout,
           StateWhenDisconnected
<1>37. CASE HandleScanReply
  BY <1>37, GrantingTail
    DEF HandleScanReply, Receive
<1>38. CASE HandleScanReplyEnd
  BY <1>38, GrantingTail
    DEF HandleScanReplyEnd, Receive
<1>39. CASE HandleProxyConfig
  BY <1>39, GrantingTail
    DEF HandleProxyConfig, Receive, OnProxyConfig
<1>40. CASE ReceiveFails
  BY <1>40, GrantingEmpty
    DEF ReceiveFails, Disconnect, CloseSocket, DisconnectInternal, RefreshTimeout,
           StateWhenDisconnected
<1>41. CASE TimeoutConnection
  BY <1>41, GrantingEmpty
    DEF TimeoutConnection, CloseSocket, StateWhenDisconnected, TimeoutDue
<1>42. CASE TimeoutDone
  BY <1>42, GrantingEmpty
    DEF TimeoutDone
<1>43. CASE WorkerExit
  BY <1>43, GrantingEmpty
    DEF WorkerExit
<1>44. CASE ServerInitialize
  <2>1. Packet("Initialize", 0) \in Packets /\ Packet("Initialize", 0).type # "Connected"
    BY DEF Packet, Packets, PlainPackets
  <2>2. Granting(inbox') => Granting(inbox)
    BY <1>44, <2>1, PushGrantsNothing DEF ServerInitialize
  <2>. QED
    BY <1>44, <2>2 DEF ServerInitialize, Push
<1>45. CASE ServerProxyConfig
  BY <1>45
    DEF ServerProxyConfig, Push, Packet
<1>46. CASE ServerConnected
  BY <1>46
    DEF ServerConnected, Push, Packet
<1>47. CASE ServerScanReply
  <2>1. PICK s \in srvScan : Push(Packet("ScanReply", s)) /\ UNCHANGED <<srvInit, srvNet, srvScan>>
    BY <1>47 DEF ServerScanReply
  <2>2. Packet("ScanReply", s) \in Packets /\ Packet("ScanReply", s).type # "Connected"
    BY DEF Packet, Packets, PlainPackets
  <2>3. Granting(inbox') => Granting(inbox)
    BY <2>1, <2>2, PushGrantsNothing
  <2>. QED
    BY <2>1, <2>3 DEF Push
<1>48. CASE ServerScanReplyEnd
  <2>1. /\ Push(Packet("ScanReplyEnd", 0))
        /\ UNCHANGED <<srvInit, srvNet>>
    BY <1>48 DEF ServerScanReplyEnd
  <2>2. Packet("ScanReplyEnd", 0) \in Packets /\ Packet("ScanReplyEnd", 0).type # "Connected"
    BY DEF Packet, Packets, PlainPackets
  <2>3. Granting(inbox') => Granting(inbox)
    BY <2>1, <2>2, PushGrantsNothing
  <2>. QED
    BY <2>1, <2>3 DEF Push
<1>49. CASE ServerSyncNetwork
  BY <1>49
    DEF ServerSyncNetwork, Push, Packet
<1>50. CASE ServerDisconnect
  BY <1>50
    DEF ServerDisconnect, Push, Packet
<1>51. CASE SixSecondsPass
  BY <1>51, GrantingEmpty
    DEF SixSecondsPass
<1>. QED
  BY <1>1, <1>2, <1>3, <1>4, <1>5, <1>6, <1>7, <1>8, <1>9, <1>10, <1>11, <1>12,
         <1>13, <1>14, <1>15, <1>16, <1>17, <1>18, <1>19, <1>20, <1>21, <1>22,
         <1>23, <1>24, <1>25, <1>26, <1>27, <1>28, <1>29, <1>30, <1>31, <1>32,
         <1>33, <1>34, <1>35, <1>36, <1>37, <1>38, <1>39, <1>40, <1>41, <1>42,
         <1>43, <1>44, <1>45, <1>46, <1>47, <1>48, <1>49, <1>50, <1>51
    DEF Next, GameStep, IpcStep, RequestStep, WorkerStep, ServerStep

-----------------------------------------------------------------------------
(* The invariant, and what follows from it *)

\* A freshly loaded service, with no client, satisfies the invariant.
LEMMA InitInv == Init => IndInv
<1>. SUFFICES ASSUME Init PROVE IndInv
  OBVIOUS
<1>. USE DEF Init, ServiceInit, ClientInit
<1>1. FlagsTypeOK
  BY Zenon DEF FlagsTypeOK
<1>2. DataTypeOK
  BY DEF DataTypeOK, IpcPCs, WorkerPCs, CommState
<1>3. ServiceTypeOK
  BY DEF ServiceTypeOK, CommState
<1>4. Safety
  BY GrantingEmpty
     DEF Safety, NetworkDisarmsTimeout, NoSelfDeadlock, TimeoutNeverSpins, NoLostWakeup,
         HandshakeOutsideNetwork, JoinRunsUntimed, ClientLifetime, InNetwork
<1>. QED
  BY <1>1, <1>2, <1>3, <1>4 DEF IndInv, TypeOK, ClientTypeOK

\* The invariant is inductive: every step of the game, of the IPC thread, of the
\* worker, of the server and of time preserves it.
LEMMA InductiveStep == IndInv /\ [Next]_vars => IndInv'
<1>. SUFFICES ASSUME IndInv, [Next]_vars PROVE IndInv'
  OBVIOUS
<1>1. CASE Next
  BY <1>1, FlagsStep, DataStep, ServiceStep, SafetyStep DEF IndInv, TypeOK, ClientTypeOK
<1>2. CASE UNCHANGED vars
  BY <1>2
     DEF IndInv, TypeOK, ServiceTypeOK, ClientTypeOK, DataTypeOK, FlagsTypeOK, Safety,
         NetworkDisarmsTimeout, NoSelfDeadlock, TimeoutNeverSpins, NoLostWakeup,
         HandshakeOutsideNetwork, JoinRunsUntimed, ClientLifetime, InNetwork, Granting
<1>. QED
  BY <1>1, <1>2

\* IndInv, the conjunction of TypeOK and Safety, holds in every reachable state.
THEOREM Invariance == Spec => []IndInv
<1>. QED
  BY InitInv, InductiveStep, PTL DEF Spec

\* Every field keeps its type in every interleaving of the two threads.
THEOREM TypeCorrect == Spec => []TypeOK
<1>1. IndInv => TypeOK
  BY DEF IndInv
<1>. QED
  BY <1>1, Invariance, PTL

\* CheckTimeout's callback never comes back to the mutex CheckTimeout holds:
\* when the idle timeout fires, the client is in no network, so DisconnectInternal
\* has nothing to refresh.
THEOREM TimeoutDoesNotDeadlock == Spec => []NoSelfDeadlock
<1>1. IndInv => NoSelfDeadlock
  BY DEF IndInv, Safety
<1>. QED
  BY <1>1, Invariance, PTL

\* From the request to join until it leaves, a client in a network cannot be
\* thrown off its connection by the idle timeout.
THEOREM NetworkIsNotTimedOut == Spec => []NetworkDisarmsTimeout
<1>1. IndInv => NetworkDisarmsTimeout
  BY DEF IndInv, Safety
<1>. QED
  BY <1>1, Invariance, PTL

\* The wait in TimeoutConnection for the socket to be closed ends at once, for no
\* thread opens a socket while the timeout's mutex is held.
THEOREM TimeoutIsBrief == Spec => []TimeoutNeverSpins
<1>1. IndInv => TimeoutNeverSpins
  BY DEF IndInv, Safety
<1>. QED
  BY <1>1, Invariance, PTL

\* Clearing the event before the send suffices: no answer that arrives while its
\* call waits is lost.
THEOREM AnswersAreSeen == Spec => []NoLostWakeup
<1>1. IndInv => NoLostWakeup
  BY DEF IndInv, Safety
<1>. QED
  BY <1>1, Invariance, PTL

\* When Finalize has returned, the worker thread has ended and the client is gone.
THEOREM FinalizeIsComplete == Spec => []FinalizedIsQuiet
<1>1. IndInv => FinalizedIsQuiet
  BY DEF IndInv, Safety, ClientLifetime, FinalizedIsQuiet
<1>. QED
  BY <1>1, Invariance, PTL

=============================================================================
