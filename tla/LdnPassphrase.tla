--------------------------- MODULE LdnPassphrase ----------------------------
(***************************************************************************)
(* The passphrase of private rooms, from the overlay to the master server: *)
(* LdnConfig keeps it, ICommunicationService hands it to its client when   *)
(* it starts, through a handler when it changes, and before each private   *)
(* request, and the client sends it to the server when it is new.          *)
(*                                                                         *)
(* The server forgets the passphrase of a connection that has ended        *)
(* (external).  A call through the handler into a service that is gone is  *)
(* not followed.  Steps here are whole calls: what is at stake is their    *)
(* order, not their overlap.                                               *)
(***************************************************************************)
CONSTANT Passphrases    \* passphrases that are not empty

Empty == "empty"

VARIABLES enabled, passphrase,   \* LdnConfig
          handler,               \* PassphraseUpdateHandler has been set
          service,               \* the game's ICommunicationService exists
          client                 \* its LdnMasterProxyClient

vars == <<enabled, passphrase, handler, service, client>>

\* Fields of the client: _passphrase and _connected, the passphrase the server
\* has for the connection, and the last private request: the passphrase it was
\* made for and the one the server had.
NoRequest == [made |-> FALSE]
NoClient == [exists |-> FALSE]
NewClient == [exists |-> TRUE, passphrase |-> Empty, connected |-> FALSE,
              server |-> Empty, request |-> NoRequest]

Init == /\ enabled = TRUE /\ passphrase = Empty
        /\ handler = FALSE /\ service = FALSE /\ client = NoClient

\* sent: there was a buffer to send it from.
UpdatePassphraseIfNeeded(c, p, sent) ==
    IF c.passphrase = p THEN c
    ELSE [c EXCEPT !.passphrase = p,
                   !.server = IF c.connected /\ sent THEN p ELSE @]

(***************************************************************************)
(* The overlay's calls.                                                    *)
(***************************************************************************)
SetEnabled(on) == enabled' = on /\ UNCHANGED <<passphrase, handler, service, client>>

SetPassphrase(p, sent) ==
    /\ handler => service
    /\ passphrase' = p
    /\ client' = IF handler /\ client.exists /\ p # Empty
                 THEN UpdatePassphraseIfNeeded(client, p, sent) ELSE client
    /\ UNCHANGED <<enabled, handler, service>>

(***************************************************************************)
(* The game's calls.                                                       *)
(***************************************************************************)
CreateUserLocalCommunicationService ==
    /\ enabled /\ ~service
    /\ service' = TRUE
    /\ UNCHANGED <<enabled, passphrase, handler, client>>

Initialize ==
    /\ service /\ ~client.exists
    /\ client' = IF passphrase # Empty
                 THEN UpdatePassphraseIfNeeded(NewClient, passphrase, TRUE)
                 ELSE NewClient
    /\ handler' = TRUE
    /\ UNCHANGED <<enabled, passphrase, service>>

\* EnsureConnected, as every request begins with it.
EnsureConnected(c) == IF c.connected THEN c
                      ELSE [c EXCEPT !.connected = TRUE, !.server = Empty]

\* Scan and public requests.
PublicRequest ==
    /\ client.exists
    /\ client' = EnsureConnected(client)
    /\ UNCHANGED <<enabled, passphrase, handler, service>>

\* CreateNetworkPrivate and ConnectPrivate: without a passphrase the request is
\* made public.
PrivateRequest(sent) ==
    /\ client.exists /\ passphrase # Empty
    /\ LET c == EnsureConnected(UpdatePassphraseIfNeeded(client, passphrase, sent))
       IN  client' = [c EXCEPT !.request = [made |-> TRUE, wants |-> passphrase,
                                            server |-> c.server]]
    /\ UNCHANGED <<enabled, passphrase, handler, service>>

\* There is no connection to be had.
PrivateRequestFails(sent) ==
    /\ client.exists /\ passphrase # Empty /\ ~client.connected
    /\ client' = UpdatePassphraseIfNeeded(client, passphrase, sent)
    /\ UNCHANGED <<enabled, passphrase, handler, service>>

\* The connection ends: by the idle timeout, the server, or an error.
Disconnect ==
    /\ client.exists /\ client.connected
    /\ client' = [client EXCEPT !.connected = FALSE]
    /\ UNCHANGED <<enabled, passphrase, handler, service>>

Finalize ==
    /\ client.exists
    /\ client' = NoClient
    /\ UNCHANGED <<enabled, passphrase, handler, service>>

\* The destructor finalizes; the handler stays.
CloseService ==
    /\ service
    /\ service' = FALSE /\ client' = NoClient
    /\ UNCHANGED <<enabled, passphrase, handler>>

Next == \/ \E on \in BOOLEAN : SetEnabled(on)
        \/ \E p \in Passphrases \cup {Empty}, sent \in BOOLEAN : SetPassphrase(p, sent)
        \/ CreateUserLocalCommunicationService \/ Initialize \/ PublicRequest
        \/ \E sent \in BOOLEAN : PrivateRequest(sent) \/ PrivateRequestFails(sent)
        \/ Disconnect \/ Finalize \/ CloseService

Spec == Init /\ [][Next]_vars

(***************************************************************************)
(* What the repository says of the code, and the code does not do.         *)
(***************************************************************************)
\* "Ensure server sees the current passphrase", before each private request.  A
\* passphrase the client was given before it connected, or on an earlier
\* connection, is not new to the client, and is not sent.
ServerSeesPassphrase ==
    client.exists /\ client.request.made => client.request.server = client.request.wants

\* The handler SetPassphrase calls belongs to a service that exists: it captures
\* the service, and no destructor takes it back.
HandlerHasService == handler => service

\* A passphrase the overlay takes away is forgotten by the client as well; the
\* handler passes on those only that are not empty.
ClientFollowsPassphrase ==
    client.exists /\ client.passphrase # Empty => client.passphrase = passphrase
=============================================================================
