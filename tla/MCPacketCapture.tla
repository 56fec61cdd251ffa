-------------------------- MODULE MCPacketCapture --------------------------
(* PacketCapture with a configuration of every mode. *)
EXTENDS PacketCapture, TLC

Cfg(m, n, d) == [mode |-> m, net |-> n, dialed |-> d]

AllConfigs == {Cfg("serial", "none", FALSE), Cfg("bridge", "listener", FALSE),
               Cfg("bridge", "udp", TRUE), Cfg("tcp", "tcp", FALSE),
               Cfg("udp", "udp", FALSE), Cfg("http", "none", FALSE)}

Symmetry == Permutations(Threads) \cup Permutations(Conns)
=============================================================================
