--------------------------- MODULE MCServiceLaunch ---------------------------
(***************************************************************************)
(* Instances of ServiceLaunch for TLC.                                     *)
(***************************************************************************)
EXTENDS ServiceLaunch

CONSTANTS scripted, probed    \* two services

\* The first has setup commands and one TCP port.  The second has none; it has a TCP
\* port too, and UDP ports, on one of which it is probed.
ApartButTcp ==
    [s \in Service |-> IF s = scripted THEN {"TCP_2"} ELSE {"TCP_1", "UDP_1", "UDP_2"}]

\* One uses all its three TCP ports, the other all its UDP ports.
AllThree == [s \in Service |-> IF s = scripted THEN TcpNames ELSE UdpNames]
TwoCommands == [s \in Service |-> IF s = scripted THEN 2 ELSE 0]
=============================================================================
