--------------------------- MODULE LdnProxySocket ---------------------------
(***************************************************************************)
(* LdnProxy and its emulated sockets.  net holds what they share: the      *)
(* socket objects, how often each is in the proxy's list _sockets, and     *)
(* the ephemeral ports in use of each protocol.  The socket operations are *)
(* functions from net to net, since BsdMitmService performs several of     *)
(* them in one call.  worker is the master client's thread, which routes   *)
(* an incoming packet to the sockets of its port with _socketsMutex held.  *)
(*                                                                         *)
(* Addresses are abstracted to what the code compares: a packet was sent   *)
(* to this console ("local") or broadcast.  A payload is its size.         *)
(***************************************************************************)
EXTENDS EphemeralPortPool

CONSTANTS Sockets,       \* LdnProxySocket objects there is memory for (numbers)
          ExplicitPorts, \* ports a game binds by number
          PacketProtocols, \* protocols of the packets that arrive (a bound)
          Sizes,         \* sizes of payloads
          MaxQueue       \* bound on what has arrived at a socket and was not read

ASSUME SocketsAssumption == Sockets \subseteq Nat \ {0}
ASSUME SizesAssumption == Sizes \subseteq Nat

VARIABLES net,           \* [sock, registered, ports]
          worker,        \* the packet being routed and the sockets left to visit
          proxy          \* "up" while the LdnProxy exists

Protocols == {"tcp", "udp"}
NoProtocol == "ip"      \* protocol 0: the default of the socket's type
NoSocket == 0

ASSUME PacketAssumption == PacketProtocols \subseteq Protocols \cup {NoProtocol}

\* Packets the master server relays to this console (external).
Packets ==
    {pkt \in [kind : {"connect", "accepted", "refused", "data", "disconnect"},
              proto : PacketProtocols, port : EphemeralPorts \cup ExplicitPorts,
              dest : {"local", "broadcast"}, size : Sizes \cup {0}] :
        /\ pkt.size # 0 <=> pkt.kind = "data"
        /\ pkt.dest = "broadcast" => pkt.kind \in {"connect", "data"}}
NoPacket == [kind |-> "none", proto |-> "tcp", port |-> NoPort,
             dest |-> "local", size |-> 0]

NoTodo == [s \in Sockets |-> 0]
WorkerIdle == [pkt |-> NoPacket, todo |-> NoTodo]

\* _socketsMutex is held by the worker while it routes.
SocketsMutexFree == worker = WorkerIdle

NewSocket(proto) ==
    [life |-> "open", proto |-> proto, bound |-> FALSE, port |-> NoPort,
     listening |-> FALSE, connecting |-> FALSE, connected |-> FALSE,
     blocking |-> TRUE, broadcast |-> FALSE, readShutdown |-> FALSE,
     acceptEvent |-> FALSE, connectEvent |-> FALSE, receiveEvent |-> FALSE,
     requests |-> <<>>, queue |-> <<>>, children |-> {}]
Unused == [NewSocket("tcp") EXCEPT !.life = "unused"]

NetInit == /\ net = [sock |-> [s \in Sockets |-> Unused],
                     registered |-> [s \in Sockets |-> 0],
                     ports |-> [proto \in Protocols |-> <<>>]]
           /\ worker = WorkerIdle
           /\ proxy = "up"

Open(s) == s \in Sockets /\ net.sock[s].life = "open"

\* Objects that can still be allocated; memory is taken in order.
Unallocated == {s \in Sockets : net.sock[s].life = "unused"}
Fresh == CHOOSE s \in Unallocated : \A r \in Unallocated : s <= r

(***************************************************************************)
(* The proxy's list and ports.                                             *)
(***************************************************************************)
RegisterSocket(n, s) == [n EXCEPT !.registered[s] = @ + 1]

\* list::remove takes out every occurrence of each of the sockets.
UnregisterSocket(n, gone) ==
    [n EXCEPT !.registered = [s \in Sockets |-> IF s \in gone THEN 0
                                                ELSE n.registered[s]]]

ReturnEphemeralPort(n, proto, port) ==
    IF proto \in Protocols THEN [n EXCEPT !.ports[proto] = ReturnPort(@, port)] ELSE n

\* GetEphemeralPort, its result stored as the local port of s.  There is a pool
\* for each of Protocols; sockets of any other get the same port.
GetEphemeralPort(n, s) ==
    LET proto == n.sock[s].proto
    IN  IF proto \in Protocols
        THEN [n EXCEPT !.sock[s].port = AllocatePort(n.ports[proto]),
                       !.ports[proto] = AfterAllocate(@)]
        ELSE [n EXCEPT !.sock[s].port = EphemeralBase]

(***************************************************************************)
(* Socket operations.                                                      *)
(***************************************************************************)
\* The constructor registers the socket with the proxy.
Construct(n, s, proto) ==
    RegisterSocket([n EXCEPT !.sock[s] = NewSocket(proto)], s)

\* The port of a bound socket goes back to the pool before it is replaced.
GiveUpPort(n, s) ==
    IF n.sock[s].bound /\ n.sock[s].port # NoPort
    THEN ReturnEphemeralPort(n, n.sock[s].proto, n.sock[s].port)
    ELSE n

\* Mutant: keeps the port it has given back.
EnsureLocalEndpointKeeps(n, s, replace) ==
    IF ~n.sock[s].bound \/ n.sock[s].port = NoPort THEN GetEphemeralPort(n, s)
    ELSE IF replace THEN GiveUpPort(n, s) ELSE n

EnsureLocalEndpoint(n, s, replace) ==
    IF n.sock[s].bound /\ n.sock[s].port # NoPort /\ ~replace THEN n
    ELSE GetEphemeralPort(GiveUpPort(n, s), s)

Bind(n, s, port) ==
    LET m == GiveUpPort(n, s)
        b == IF port = NoPort THEN GetEphemeralPort(m, s)
             ELSE [m EXCEPT !.sock[s].port = port]
    IN  [b EXCEPT !.sock[s].bound = TRUE]

AsAccepted(n, s) ==
    EnsureLocalEndpoint([n EXCEPT !.sock[s].connected = TRUE], s, TRUE)

Disconnect(n, s) == [n EXCEPT !.sock[s].connected = FALSE]

\* Mutant: the sockets it accepted stay in the proxy's list.
CloseKeepsChildren(n, s) ==
    LET closed == {s} \cup n.sock[s].children
    IN  [UnregisterSocket(n, {s}) EXCEPT
           !.sock = [r \in Sockets |-> IF r \notin closed THEN n.sock[r]
                                       ELSE [n.sock[r] EXCEPT !.life = "closed"]]]

\* Close unregisters the socket and closes those it accepted, which have
\* accepted none themselves.  The port stays allocated.  The code sets _closed
\* first and takes _socketsMutex for one socket after the other; between these
\* the worker may route a packet to a socket that is about to close, and the
\* object is deleted after all of them.
Close(n, s) ==
    LET closed == {s} \cup n.sock[s].children
    IN  [UnregisterSocket(n, closed) EXCEPT
           !.sock = [r \in Sockets |->
                        IF r \notin closed \/ n.sock[r].life # "open" THEN n.sock[r]
                        ELSE [n.sock[r] EXCEPT !.life = "closed",
                                !.connected = FALSE, !.listening = FALSE,
                                !.children = {}]]]

\* ~LdnProxySocket closes; the object is gone.
Delete(n, s) == [Close(n, s) EXCEPT !.sock[s] = [Unused EXCEPT !.life = "deleted"]]

\* Connect up to its wait: nothing happens on an unbound or listening socket.
MayConnect(n, s) == n.sock[s].bound /\ ~n.sock[s].listening
RequestConnection(n, s) ==
    [EnsureLocalEndpoint(n, s, TRUE) EXCEPT !.sock[s].connecting = TRUE]
ConnectWaits(n, s) == n.sock[s].blocking \/ n.sock[s].proto # "tcp"

Listen(n, s) == IF n.sock[s].bound THEN [n EXCEPT !.sock[s].listening = TRUE] ELSE n

\* TCP is refused until it is connected.
Reset(n, s) == n.sock[s].proto = "tcp" /\ ~n.sock[s].connected

\* SendTo: only the local port changes here; the packet leaves through the
\* master client.
SendTo(n, s) == IF Reset(n, s) THEN n ELSE EnsureLocalEndpoint(n, s, FALSE)

\* poll and select ask these.
IsReadable(n, s) == IF n.sock[s].listening THEN n.sock[s].requests # <<>>
                    ELSE n.sock[s].readShutdown \/ n.sock[s].queue # <<>>

\* Shutdown of the receiving side.
Shutdown(n, s) ==
    [n EXCEPT !.sock[s].readShutdown = TRUE, !.sock[s].receiveEvent = TRUE]

\* ReceiveFrom before its wait.  A payload too large for the buffer is lost
\* over UDP, split over TCP, also when only peeking, and stays otherwise.
ReceiveAtOnce(n, s, size, peek) ==
    LET q == n.sock[s].queue
        proto == n.sock[s].proto
        tooLarge == Head(q) > size
    IN  IF tooLarge /\ proto = "tcp"
        THEN [n EXCEPT !.sock[s].queue = <<Head(q) - size>> \o Tail(q)]
        ELSE IF peek \/ (tooLarge /\ proto = NoProtocol) THEN n
        ELSE [n EXCEPT !.sock[s].queue = Tail(q)]

ReceiveWaits(n, s) == /\ n.sock[s].queue = <<>> /\ ~n.sock[s].readShutdown
                      /\ n.sock[s].blocking

\* ReceiveFrom after its wait: what does not fit is dropped.
ReceiveAfterWait(n, s, peek) ==
    IF Reset(n, s) \/ peek \/ n.sock[s].queue = <<>> THEN n
    ELSE [n EXCEPT !.sock[s].queue = Tail(@)]

(***************************************************************************)
(* Packets routed to a socket.                                             *)
(***************************************************************************)
IncomingConnectionRequest(n, s, pkt) ==
    [n EXCEPT !.sock[s].requests = Append(@, [dest |-> pkt.dest, port |-> pkt.port]),
              !.sock[s].acceptEvent = TRUE]

HandleConnectResponse(n, s, accepted) ==
    IF ~n.sock[s].connecting THEN n
    ELSE [n EXCEPT !.sock[s].connecting = FALSE,
                   !.sock[s].connected = @ \/ accepted,
                   !.sock[s].connectEvent = TRUE]

IncomingData(n, s, pkt) ==
    IF ~n.sock[s].broadcast /\ pkt.dest = "broadcast" THEN n
    ELSE [n EXCEPT !.sock[s].queue = Append(@, pkt.size),
                   !.sock[s].receiveEvent = TRUE]

Handle(n, s, pkt) ==
    CASE pkt.kind = "connect" -> IncomingConnectionRequest(n, s, pkt)
      [] pkt.kind \in {"accepted", "refused"} ->
            HandleConnectResponse(n, s, pkt.kind = "accepted")
      [] pkt.kind = "data" -> IncomingData(n, s, pkt)
      [] pkt.kind = "disconnect" -> Disconnect(n, s)

Matches(s, pkt) == net.sock[s].proto = pkt.proto /\ net.sock[s].port = pkt.port

HasRoom(s) == Len(net.sock[s].queue) + Len(net.sock[s].requests) < MaxQueue

\* A packet arrives: ForRoutedSockets takes _socketsMutex.  A packet that
\* matches no socket has no effect.
ForRoutedSockets(pkt) ==
    /\ proxy = "up" /\ worker = WorkerIdle
    /\ \E s \in Sockets : net.registered[s] > 0 /\ Matches(s, pkt)
    /\ \A s \in Sockets : Matches(s, pkt) => HasRoom(s)
    /\ worker' = [pkt |-> pkt, todo |-> net.registered]
    /\ UNCHANGED <<net, proxy>>

\* One turn of its loop.  requestsHeld: the sockets whose _connectRequestsMutex
\* another thread holds.
RouteTo(s, requestsHeld) ==
    /\ worker.todo[s] > 0 /\ Matches(s, worker.pkt)
    /\ worker.pkt.kind = "connect" => s \notin requestsHeld
    /\ net' = Handle(net, s, worker.pkt)
    /\ worker' = [worker EXCEPT !.todo[s] = @ - 1]
    /\ UNCHANGED proxy

RouteEnd ==
    /\ worker # WorkerIdle
    /\ \A s \in Sockets : worker.todo[s] > 0 => ~Matches(s, worker.pkt)
    /\ worker' = WorkerIdle
    /\ UNCHANGED <<net, proxy>>

\* Finalize deletes the proxy: Dispose takes the handlers away from the
\* protocol and empties the list; the sockets keep their pointer to it.
Dispose ==
    /\ proxy = "up" /\ worker = WorkerIdle
    /\ proxy' = "gone"
    /\ net' = [net EXCEPT !.registered = NoTodo]
    /\ UNCHANGED worker
============================================================================
