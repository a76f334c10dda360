----------------------------- MODULE MCLdnSystem -----------------------------
(* Instances of LdnSystem for TLC: what the game of each run does. *)
EXTENDS LdnSystem

\* A game that hosts a room, in public or with a passphrase.
HostCalls == {"Initialize", "OpenAccessPoint", "CreateNetwork", "CreateNetworkPrivate",
              "DestroyNetwork", "CloseAccessPoint", "Finalize"}

\* A game that looks for rooms and joins one.
StationCalls == {"Initialize", "OpenStation", "Scan", "Connect", "Disconnect",
                 "CloseStation", "Finalize"}

\* A game that scans and hosts.
ScanAndHostCalls == {"Initialize", "OpenAccessPoint", "Scan", "CreateNetwork",
                     "CreateNetworkPrivate", "DestroyNetwork", "CloseAccessPoint",
                     "Finalize"}

=============================================================================
