-------------------------- MODULE MCEngineSession --------------------------
(* Small instances of EngineSession for TLC.                                 *)
EXTENDS EngineSession, TLC

Client(auto) == [mode |-> "tcpClient", serial |-> FALSE, net |-> "tcp", auto |-> auto]
Server       == [mode |-> "tcpServer", serial |-> FALSE, net |-> "listener", auto |-> FALSE]
Udp          == [mode |-> "udp", serial |-> FALSE, net |-> "udp", auto |-> FALSE]
Serial       == [mode |-> "serial", serial |-> TRUE, net |-> "none", auto |-> FALSE]
Bridge(net, auto) == [mode |-> "bridge", serial |-> TRUE, net |-> net, auto |-> auto]

AllConfigs == {Client(TRUE), Client(FALSE), Server, Udp, Serial, NoConfig,
               Bridge("listener", FALSE), Bridge("tcp", TRUE)}

\* Links whose end is answered by a new dial, and links whose end the window hears of.
LinkConfigs == {Client(TRUE), Client(FALSE)}

\* Nothing distinguishes one handle from another.
HandleSymmetry == Permutations(Handles)
=============================================================================
