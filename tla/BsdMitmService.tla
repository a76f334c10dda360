--------------------------- MODULE BsdMitmService ---------------------------
(***************************************************************************)
(* BsdMitmService over LdnProxy: the game's bsd:u calls, made on the       *)
(* threads of the IPC server.  A descriptor's entry says whether it is     *)
(* served by an emulated socket.  An action is a call, or the part of it   *)
(* up to a wait; call[t] says where thread t waits.  Connect and Recv wait *)
(* with socket_map_mutex held; Accept, which does not take that mutex,     *)
(* registers the accepted socket with _connectRequestsMutex held.  Calls   *)
(* that go to the console's own service change nothing here, and are left  *)
(* out, as are the calls that fail without effect.                         *)
(***************************************************************************)
EXTENDS LdnProxySocket, FiniteSets

CONSTANTS Fds,        \* descriptors of the console's own service
          MaxSockets, \* size of socket_map
          Threads,    \* threads of the IPC server
          MaxCalls    \* bound on the number of calls

VARIABLES entry,      \* socket_map
          opened,     \* descriptors open at the console's own service
          call,       \* what each thread waits for
          calls       \* calls made so far

vars == <<net, worker, proxy, entry, opened, call, calls>>

AcceptFd == 1          \* BsdAccept's placeholder descriptor
BufferSize == 1        \* size of the buffer of a Recv

Entries == [type : {"Real", "Virtual"}, vsock : Sockets \cup {NoSocket},
            proto : Protocols \cup {NoProtocol}]
EmptyEntry == [type |-> "Real", vsock |-> NoSocket, proto |-> NoProtocol]
\* A thread's place in a call, and a thread that is in none.
Waiting(op, fd, s, peek) == [op |-> op, fd |-> fd, s |-> s, peek |-> peek]
Returned == [op |-> "none", fd |-> 0, s |-> NoSocket, peek |-> FALSE]

Init == /\ NetInit
        /\ entry = [fd \in Fds |-> EmptyEntry]
        /\ opened = {}
        /\ call = [t \in Threads |-> Returned]
        /\ calls = 0

(***************************************************************************)
(* Locks, and the emulated socket of a descriptor.                         *)
(***************************************************************************)
MapMutexFree == \A t \in Threads : call[t].op \notin {"connect", "receive"}

RequestsHeld == {call[t].s : t \in {u \in Threads : call[u].op = "acceptRegister"}}

InTable(fd) == fd < MaxSockets
IsVirtual(fd) == InTable(fd) /\ entry[fd].type = "Virtual"

\* GetVirtualSocket makes a socket for the descriptor when it has none.  The
\* constructor has registered it by then, and it is registered once more.
CanGet(fd) == /\ proxy = "up" /\ InTable(fd)
              /\ entry[fd].vsock = NoSocket => SocketsMutexFree /\ Unallocated # {}
VirtualSocket(fd) == IF entry[fd].vsock # NoSocket THEN entry[fd].vsock ELSE Fresh

\* Mutant: registers the socket at every lookup.
GetVirtualSocketEachTime(fd) ==
    RegisterSocket(IF entry[fd].vsock # NoSocket THEN net
                   ELSE Construct(net, Fresh, entry[fd].proto), VirtualSocket(fd))

GetVirtualSocket(fd) ==
    IF entry[fd].vsock # NoSocket THEN net
    ELSE RegisterSocket(Construct(net, Fresh, entry[fd].proto), Fresh)

\* A call of thread t on a descriptor the game was given: by socket, or by
\* accept.
Calls(t, fd) == /\ call[t] = Returned /\ calls < MaxCalls
                /\ fd \in opened \/ IsVirtual(fd)
                /\ calls' = calls + 1
                /\ UNCHANGED <<worker, proxy>>

\* What such a call leaves in the table when it used the emulated socket.
KeepsSocket(fd, type) ==
    entry' = [entry EXCEPT ![fd].type = type, ![fd].vsock = VirtualSocket(fd)]

(***************************************************************************)
(* Calls that return at once.                                              *)
(***************************************************************************)
\* The console's service returns a descriptor that is not open; it is entered
\* in the table when it fits.
Socket(t, fd, proto) ==
    /\ call[t] = Returned /\ calls < MaxCalls /\ MapMutexFree /\ fd \notin opened
    /\ opened' = opened \cup {fd}
    /\ entry' = IF InTable(fd)
                THEN [entry EXCEPT ![fd] = [EmptyEntry EXCEPT !.proto = proto]]
                ELSE entry
    /\ calls' = calls + 1
    /\ UNCHANGED <<net, worker, proxy, call>>

\* bind to INADDR_ANY or to an address of the emulated network.
BindVirtual(t, fd, port) ==
    /\ Calls(t, fd) /\ MapMutexFree /\ CanGet(fd)
    /\ net' = Bind(GetVirtualSocket(fd), VirtualSocket(fd), port)
    /\ KeepsSocket(fd, "Virtual")
    /\ UNCHANGED <<opened, call>>

ListenVirtual(t, fd) ==
    /\ Calls(t, fd) /\ IsVirtual(fd) /\ CanGet(fd)
    /\ net' = Listen(GetVirtualSocket(fd), VirtualSocket(fd))
    /\ KeepsSocket(fd, "Virtual")
    /\ UNCHANGED <<opened, call>>

\* fcntl(F_SETFL) that changes the mode.
FcntlVirtual(t, fd, blocking) ==
    /\ Calls(t, fd) /\ IsVirtual(fd) /\ CanGet(fd)
    /\ LET n == GetVirtualSocket(fd)
           s == VirtualSocket(fd)
       IN  /\ n.sock[s].blocking # blocking
           /\ net' = [n EXCEPT !.sock[s].blocking = blocking]
    /\ KeepsSocket(fd, "Virtual")
    /\ UNCHANGED <<opened, call>>

\* setsockopt(SO_BROADCAST) that changes the option.
SetBroadcast(t, fd, broadcast) ==
    /\ Calls(t, fd) /\ IsVirtual(fd) /\ CanGet(fd)
    /\ LET n == GetVirtualSocket(fd)
           s == VirtualSocket(fd)
       IN  /\ n.sock[s].broadcast # broadcast
           /\ net' = [n EXCEPT !.sock[s].broadcast = broadcast]
    /\ KeepsSocket(fd, "Virtual")
    /\ UNCHANGED <<opened, call>>

ShutdownVirtual(t, fd) ==
    /\ Calls(t, fd) /\ IsVirtual(fd) /\ CanGet(fd)
    /\ net' = Shutdown(GetVirtualSocket(fd), VirtualSocket(fd))
    /\ KeepsSocket(fd, "Virtual")
    /\ UNCHANGED <<opened, call>>

\* getsockopt, and fcntl(F_GETFL): only their making the socket has an effect.
GetSockOptVirtual(t, fd) ==
    /\ Calls(t, fd) /\ IsVirtual(fd) /\ CanGet(fd) /\ entry[fd].vsock = NoSocket
    /\ net' = GetVirtualSocket(fd)
    /\ KeepsSocket(fd, "Virtual")
    /\ UNCHANGED <<opened, call>>

\* send, on a connected socket.
SendVirtual(t, fd) ==
    /\ Calls(t, fd) /\ MapMutexFree /\ IsVirtual(fd) /\ CanGet(fd)
    /\ LET n == GetVirtualSocket(fd)
           s == VirtualSocket(fd)
       IN  net' = IF n.sock[s].connected THEN SendTo(n, s) ELSE n
    /\ KeepsSocket(fd, "Virtual")
    /\ UNCHANGED <<opened, call>>

\* Mutant: socket_map_mutex is not taken.
CloseFdUnlocked(t, fd) ==
    /\ Calls(t, fd) /\ IsVirtual(fd) /\ entry[fd].vsock # NoSocket
    /\ SocketsMutexFree /\ proxy = "up"
    /\ opened' = opened \ {fd}
    /\ entry' = [entry EXCEPT ![fd] = EmptyEntry]
    /\ net' = Delete(net, entry[fd].vsock)
    /\ UNCHANGED call

\* close: the emulated socket of a virtual descriptor is deleted, that of a
\* descriptor still marked real is not.  With the proxy gone the destructor
\* would call into it; what happens then is not followed.
CloseFd(t, fd) ==
    /\ Calls(t, fd) /\ MapMutexFree
    /\ opened' = opened \ {fd}
    /\ IF IsVirtual(fd)
       THEN /\ SocketsMutexFree /\ (proxy = "up" \/ entry[fd].vsock = NoSocket)
            /\ entry' = [entry EXCEPT ![fd] = EmptyEntry]
            /\ net' = IF entry[fd].vsock = NoSocket THEN net
                      ELSE Delete(UnregisterSocket(net, {entry[fd].vsock}),
                                  entry[fd].vsock)
       ELSE UNCHANGED <<entry, net>>
    /\ UNCHANGED call

(***************************************************************************)
(* Calls that wait.                                                        *)
(***************************************************************************)
\* sendto to an address of the emulated network: the socket is looked up under
\* the mutex and used after it was let go.  The entry's type is not changed.
SendToLookup(t, fd) ==
    /\ Calls(t, fd) /\ MapMutexFree /\ CanGet(fd)
    /\ net' = GetVirtualSocket(fd)
    /\ KeepsSocket(fd, entry[fd].type)
    /\ call' = [call EXCEPT ![t] = Waiting("sendto", fd, VirtualSocket(fd), FALSE)]
    /\ UNCHANGED opened

SendToSocket(t) ==
    /\ call[t].op = "sendto" /\ Open(call[t].s) /\ proxy = "up"
    /\ net' = SendTo(net, call[t].s)
    /\ call' = [call EXCEPT ![t] = Returned]
    /\ UNCHANGED <<worker, proxy, entry, opened, calls>>

\* select and poll look at the emulated sockets once, making those that are
\* missing.  When the call also names a descriptor of the console's service they
\* go on to wait there, without the mutex, whatever they have found.
Select(t, fd) ==
    /\ Calls(t, fd) /\ MapMutexFree /\ IsVirtual(fd) /\ CanGet(fd)
    /\ net' = GetVirtualSocket(fd)
    /\ KeepsSocket(fd, "Virtual")
    /\ call' = [call EXCEPT ![t] = Waiting("select", fd, VirtualSocket(fd), FALSE)]
    /\ UNCHANGED opened

\* poll of emulated sockets only.
Poll(t, fd) ==
    /\ Calls(t, fd) /\ MapMutexFree /\ IsVirtual(fd) /\ CanGet(fd)
    /\ entry[fd].vsock = NoSocket
    /\ net' = GetVirtualSocket(fd)
    /\ KeepsSocket(fd, "Virtual")
    /\ UNCHANGED <<opened, call>>

SelectReturns(t) ==
    /\ call[t].op = "select"
    /\ call' = [call EXCEPT ![t] = Returned]
    /\ UNCHANGED <<net, worker, proxy, entry, opened, calls>>

\* connect: waits for the answer, except over non-blocking TCP.  It returns
\* success whatever the socket did.
ConnectVirtual(t, fd) ==
    /\ Calls(t, fd) /\ MapMutexFree /\ CanGet(fd)
    /\ LET n == GetVirtualSocket(fd)
           s == VirtualSocket(fd)
       IN  /\ net' = IF MayConnect(n, s) THEN RequestConnection(n, s) ELSE n
           /\ call' = IF MayConnect(n, s) /\ ConnectWaits(n, s)
                      THEN [call EXCEPT ![t] = Waiting("connect", fd, s, FALSE)]
                      ELSE call
    /\ KeepsSocket(fd, "Virtual")
    /\ UNCHANGED opened

ConnectWakes(t) ==
    /\ call[t].op = "connect" /\ net.sock[call[t].s].connectEvent
    /\ net' = [net EXCEPT !.sock[call[t].s].connectEvent = FALSE]
    /\ call' = [call EXCEPT ![t] = Returned]
    /\ UNCHANGED <<worker, proxy, entry, opened, calls>>

\* recv and recvfrom, when something is there and when they have to wait.
RecvAtOnce(t, fd, peek) ==
    /\ Calls(t, fd) /\ MapMutexFree /\ IsVirtual(fd) /\ CanGet(fd)
    /\ entry[fd].vsock # NoSocket
    /\ net.sock[entry[fd].vsock].queue # <<>> /\ ~Reset(net, entry[fd].vsock)
    /\ net' = ReceiveAtOnce(net, entry[fd].vsock, BufferSize, peek)
    /\ UNCHANGED <<entry, opened, call>>

RecvWaits(t, fd, peek) ==
    /\ Calls(t, fd) /\ MapMutexFree /\ IsVirtual(fd) /\ CanGet(fd)
    /\ LET n == GetVirtualSocket(fd)
           s == VirtualSocket(fd)
       IN  /\ ReceiveWaits(n, s) /\ ~Reset(n, s)
           /\ net' = n
           /\ call' = [call EXCEPT ![t] = Waiting("receive", fd, s, peek)]
    /\ KeepsSocket(fd, "Virtual")
    /\ UNCHANGED opened

\* The wait ends with the event or with its time limit.
RecvWakes(t) ==
    /\ call[t].op = "receive"
    /\ net' = ReceiveAfterWait([net EXCEPT !.sock[call[t].s].receiveEvent = FALSE],
                               call[t].s, call[t].peek)
    /\ call' = [call EXCEPT ![t] = Returned]
    /\ UNCHANGED <<worker, proxy, entry, opened, calls>>

\* accept: a non-blocking one with nothing to accept returns.
AcceptVirtual(t, fd) ==
    /\ Calls(t, fd) /\ IsVirtual(fd) /\ CanGet(fd)
    /\ LET n == GetVirtualSocket(fd)
           s == VirtualSocket(fd)
       IN  /\ n.sock[s].listening /\ s \notin RequestsHeld
           /\ n.sock[s].blocking \/ n.sock[s].requests # <<>>
           /\ net' = n
           /\ call' = [call EXCEPT ![t] = Waiting("accept", fd, s, FALSE)]
    /\ KeepsSocket(fd, "Virtual")
    /\ UNCHANGED opened

\* The wait for _acceptEvent ends and clears the event.
AcceptWakes(t) ==
    /\ call[t].op = "accept" /\ Open(call[t].s) /\ net.sock[call[t].s].acceptEvent
    /\ net' = [net EXCEPT !.sock[call[t].s].acceptEvent = FALSE]
    /\ call' = [call EXCEPT ![t].op = "acceptLock"]
    /\ UNCHANGED <<worker, proxy, entry, opened, calls>>

\* Mutant: the event is not set again.
TakeRequestSilently(sock) ==
    LET Mine == {i \in 1 .. Len(sock.requests) : sock.requests[i].dest = "local"
                                                 /\ sock.requests[i].port = sock.port}
        i == IF Mine = {} THEN Len(sock.requests)
             ELSE CHOOSE k \in Mine : \A j \in Mine : k <= j
    IN  [found |-> Mine # {},
         sock |-> [sock EXCEPT !.requests = SubSeq(@, i + 1, Len(@))]]

\* With _connectRequestsMutex: requests are taken up to the first for this
\* socket, and the event is set again when some are left.
TakeRequest(sock) ==
    LET q == sock.requests
        Mine == {i \in 1 .. Len(q) : q[i].dest = "local" /\ q[i].port = sock.port}
        i == IF Mine = {} THEN Len(q)
             ELSE CHOOSE k \in Mine : \A j \in Mine : k <= j
    IN  [found |-> Mine # {},
         sock |-> [sock EXCEPT !.requests = SubSeq(q, i + 1, Len(q)),
                               !.acceptEvent = @ \/ Len(q) > 1]]

AcceptTakes(t) ==
    /\ call[t].op = "acceptLock" /\ Open(call[t].s) /\ call[t].s \notin RequestsHeld
    /\ LET taken == TakeRequest(net.sock[call[t].s])
       IN  /\ net' = [net EXCEPT !.sock[call[t].s] = taken.sock]
           /\ call' = [call EXCEPT ![t].op = IF taken.found THEN "acceptRegister"
                                             ELSE "accept"]
    /\ UNCHANGED <<worker, proxy, entry, opened, calls>>

\* The accepted socket is made and registered, which takes _socketsMutex; the
\* game gets the placeholder descriptor.
AcceptRegisters(t) ==
    /\ call[t].op = "acceptRegister" /\ proxy = "up" /\ Open(call[t].s)
    /\ SocketsMutexFree /\ Unallocated # {}
    /\ LET l == call[t].s
           n == AsAccepted(Construct(net, Fresh, net.sock[l].proto), Fresh)
       IN  net' = [n EXCEPT !.sock[l].children = @ \cup {Fresh}]
    /\ entry' = [entry EXCEPT ![AcceptFd].type = "Virtual",
                              ![AcceptFd].proto = entry[call[t].fd].proto]
    /\ call' = [call EXCEPT ![t] = Returned]
    /\ UNCHANGED <<worker, proxy, opened, calls>>

\* There is no memory for it: accept fails, and the request is gone.
AcceptFails(t) ==
    /\ call[t].op = "acceptRegister" /\ Open(call[t].s)
    /\ call' = [call EXCEPT ![t] = Returned]
    /\ UNCHANGED <<net, worker, proxy, entry, opened, calls>>

ThreadStep(t) ==
    \/ SendToSocket(t) \/ SelectReturns(t) \/ ConnectWakes(t) \/ RecvWakes(t)
    \/ AcceptWakes(t) \/ AcceptTakes(t) \/ AcceptRegisters(t) \/ AcceptFails(t)

GameCall(t, fd) ==
    \/ \E proto \in Protocols \cup {NoProtocol} : Socket(t, fd, proto)
    \/ \E port \in ExplicitPorts \cup {NoPort} : BindVirtual(t, fd, port)
    \/ ListenVirtual(t, fd) \/ ShutdownVirtual(t, fd) \/ SendVirtual(t, fd)
    \/ \E flag \in BOOLEAN : FcntlVirtual(t, fd, flag) \/ SetBroadcast(t, fd, flag)
    \/ GetSockOptVirtual(t, fd) \/ Select(t, fd) \/ Poll(t, fd)
    \/ CloseFd(t, fd) \/ SendToLookup(t, fd) \/ ConnectVirtual(t, fd)
    \/ \E peek \in BOOLEAN : RecvAtOnce(t, fd, peek) \/ RecvWaits(t, fd, peek)
    \/ AcceptVirtual(t, fd)

WorkerStep ==
    /\ \/ \E pkt \in Packets : ForRoutedSockets(pkt)
       \/ \E s \in Sockets : RouteTo(s, RequestsHeld)
       \/ RouteEnd
       \/ Dispose
    /\ UNCHANGED <<entry, opened, call, calls>>

Next == \/ WorkerStep
        \/ \E t \in Threads : ThreadStep(t) \/ \E fd \in Fds : GameCall(t, fd)

Spec == Init /\ [][Next]_vars

(***************************************************************************)
(* Properties.                                                             *)
(***************************************************************************)
\* The type invariant of sockets, table and threads.
TypeOK ==
    /\ \A s \in Sockets :
          /\ net.sock[s].port \in EphemeralPorts \cup ExplicitPorts \cup {NoPort}
          /\ net.registered[s] \in 0 .. 2
          /\ net.sock[s].children \subseteq Sockets
    /\ entry \in [Fds -> Entries]
    /\ opened \subseteq Fds
    /\ \A t \in Threads : call[t].s \in Sockets \cup {NoSocket}

\* The proxy routes to every open socket and to no other: Close and the
\* destructor take a socket out of the list however often it is in it
\* (list::remove), with the sockets it has accepted.
RoutedSocketsAreOpen ==
    /\ proxy = "up" => \A s \in Sockets : net.registered[s] > 0 <=> Open(s)
    /\ \A s \in Sockets : worker.todo[s] > 0 => Open(s)

\* Each list of ephemeral ports stays sorted and in range, which AllocatePort
\* relies on, however allocations and returns are mixed.
PortListsSorted ==
    \A proto \in Protocols : /\ Sorted(net.ports[proto])
                             /\ InUse(net.ports[proto]) \subseteq EphemeralPorts

\* No ephemeral port is given out twice: the port of an open socket is in use in
\* the pool, and no two sockets of a protocol have the same.  Bind checks a port a
\* game names against nothing, so that this is not so of the ports it names.
EphemeralPortsUnique ==
    \A s \in Sockets :
       /\ Open(s) /\ net.sock[s].proto \in Protocols
       /\ net.sock[s].port \in EphemeralPorts \ ExplicitPorts
       => /\ net.sock[s].port \in InUse(net.ports[net.sock[s].proto])
          /\ \A r \in Sockets \ {s} :
                Open(r) /\ net.sock[r].proto = net.sock[s].proto =>
                   net.sock[r].port # net.sock[s].port

\* A thread that waits in connect, recv or recvfrom has its socket: close,
\* which deletes sockets, waits for socket_map_mutex.
WaiterKeepsSocket ==
    \A t \in Threads : call[t].op \in {"connect", "receive"} => Open(call[t].s)

\* A connection request in a socket's queue is never forgotten: _acceptEvent,
\* which clears itself when it wakes a thread, is set, or the thread it woke
\* has not looked at the queue yet.
NoLostRequest ==
    \A s \in Sockets :
       Open(s) /\ net.sock[s].requests # <<>> =>
          \/ net.sock[s].acceptEvent
          \/ \E t \in Threads : call[t].op = "acceptLock" /\ call[t].s = s

(***************************************************************************)
(* What the code does not ensure; the README says how each fails.          *)
(***************************************************************************)
\* Every open socket can be used or closed by the game: it belongs to a
\* descriptor, or to a call in progress.  close forgets the socket of a
\* descriptor that was only used for sendto, and BsdAccept returns a placeholder
\* descriptor, so that the accepted socket is entered nowhere.
OpenSocketsHaveDescriptor ==
    \A s \in Sockets :
       Open(s) => \/ \E fd \in Fds : entry[fd].vsock = s
                  \/ \E t \in Threads : call[t].s = s

\* A packet for a socket is delivered to it once: the socket is in the proxy's
\* list once.  GetVirtualSocket registers what the constructor has registered.
RegisteredOnce == \A s \in Sockets : net.registered[s] <= 1

\* Accept, which holds _connectRequestsMutex and wants _socketsMutex, and
\* ForRoutedSockets, which holds the latter and wants the former to deliver a
\* connection request, do not wait for one another.
NoLockCycle ==
    \A t \in Threads :
       ~ /\ call[t].op = "acceptRegister" /\ worker.pkt.kind = "connect"
         /\ worker.todo[call[t].s] > 0 /\ Matches(call[t].s, worker.pkt)

\* A call in progress has its socket.  sendto uses the socket after it let the
\* table's mutex go and accept never takes it, while close deletes the socket.
CallHasSocket == \A t \in Threads : call[t].s # NoSocket => Open(call[t].s)

\* No open socket is left when the proxy is deleted, as Dispose expects
\* ("Sockets should close themselves"): each would call into it.
SocketsCloseFirst == proxy = "gone" => \A s \in Sockets : ~Open(s)

\* A TCP read that takes a part of a payload leaves the rest, as the first half
\* of ReceiveFrom does; its second half, after the wait, drops it.
TcpKeepsRest ==
    [][\A s \in Sockets :
          LET q == net.sock[s].queue
              r == net.sock[s].queue'
          IN  /\ Open(s) /\ Open(s)' /\ net.sock[s].proto = "tcp"
              /\ Len(r) < Len(q)
              => Head(q) <= BufferSize]_vars

\* A descriptor select has found readable ends the call: it does not go on to
\* wait at the console's service.
ReadyDoesNotWait ==
    \A t \in Threads :
       call[t].op = "select" /\ Open(call[t].s) => ~IsReadable(net, call[t].s)
============================================================================
