-------------------------- MODULE MCNetConnection --------------------------
(* A small instance: sizes that keep the code's proportions (a chunk can   *)
(* hold more than one package, a package more than one chunk, the buffer   *)
(* is exactly as large as RecvBufferAssumption needs).                     *)
EXTENDS NetConnection

Package(sign, command, size) == [Sign |-> sign, Command |-> command, BodySize |-> size]

\* An empty heartbeat, the largest login, one wrong sign, one too large, one negative.
MCPackages ==
    { Package(HEADER_SIGN, CMD_HEARTBEAT, 0), Package(HEADER_SIGN, CMD_LOGIN, 2),
      Package(0, 0, 0), Package(HEADER_SIGN, CMD_LOGIN, 7),
      Package(HEADER_SIGN, CMD_HEARTBEAT, -3) }
============================================================================
