------------------------ MODULE ICommunicationService ------------------------
(***************************************************************************)
(* The state of ldn:u's ICommunicationService (ldn_icommunication.cpp) and *)
(* the parts of it that run inside other threads' steps: the two callbacks *)
(* the service installs in its LdnMasterProxyClient.  Both run on whatever *)
(* thread the client calls them from (the worker thread, or the IPC thread *)
(* inside a call), with no lock.                                           *)
(*                                                                         *)
(* NetworkInfo, disconnect_reason and disconnect_ip are payloads that no   *)
(* branch reads back; they are left out.  ProxyConfig is abstracted to its *)
(* proxyIp.                                                                *)
(***************************************************************************)
EXTENDS Naturals

CONSTANT VirtualIps    \* the non-zero proxyIp values the server hands out

ASSUME VirtualIpsAssumption == VirtualIps \subseteq Nat \ {0}

NoIp == 0

VARIABLES
  current_state,   \* CommState
  ryuldn_client,   \* TRUE iff the LdnMasterProxyClient object exists
  ryuldn_proxy     \* proxyIp the LdnProxy was built with, NoIp iff nullptr

serviceVars == <<current_state, ryuldn_client, ryuldn_proxy>>

CommState == {"None", "Initialized", "AccessPoint", "AccessPointCreated",
              "Station", "StationConnected"}

ServiceTypeOK ==
  /\ current_state \in CommState
  /\ ryuldn_client \in BOOLEAN
  /\ ryuldn_proxy \in VirtualIps \cup {NoIp}

ServiceInit ==
  /\ current_state = "None"
  /\ ryuldn_client = FALSE
  /\ ryuldn_proxy = NoIp

(***************************************************************************)
(* onNetworkChange: the state that follows s when the client reports that  *)
(* the network is up, or down.  States other than these are left alone.    *)
(***************************************************************************)
\* Mutant of StateWhenConnected: an unexpected state becomes CommState::Error.
ErrorWhenConnected(s) ==
  CASE s = "AccessPoint" -> "AccessPointCreated"
    [] s = "Station"     -> "StationConnected"
    [] OTHER             -> "Error"

StateWhenConnected(s) ==
  CASE s = "AccessPoint" -> "AccessPointCreated"
    [] s = "Station"     -> "StationConnected"
    [] OTHER             -> s

StateWhenDisconnected(s) ==
  CASE s = "AccessPointCreated" -> "AccessPoint"
    [] s = "StationConnected"   -> "Station"
    [] OTHER                    -> s

(***************************************************************************)
(* The proxy-config callback: the LdnProxy is built from the first         *)
(* ProxyConfig with a non-zero address and kept until Finalize.            *)
(***************************************************************************)
OnProxyConfig(ip) ==
  ryuldn_proxy' = IF ryuldn_proxy = NoIp /\ ip # NoIp THEN ip ELSE ryuldn_proxy

=============================================================================
