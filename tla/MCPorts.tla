-------------------------------- MODULE MCPorts --------------------------------
(* Ports.tla on a small instance: a server, a second one on another table, a  *)
(* client of the first and a unix socket.                                     *)
EXTENDS Ports

http == 80
alt == 81
ephemeral == 99

At(table, local, peer) == [table |-> table, local |-> local, peer |-> peer]

MCAddr == [server |-> At("tcp", http, 0), other |-> At("udp6", alt, 0),
           client |-> At("tcp", ephemeral, http), local |-> At("unix", http, 0)]

MCSock == DOMAIN MCAddr

\* Pid 1 has the client and the unix socket, and may have the server.  Pid 2 may be
\* free; both servers may be nobody's yet.
MCOwners(pids) ==
    {o \in [MCSock -> pids \cup {0}] : o.client = 1 /\ o.local = 1 /\ o.other # 1}

MCStart == UNION {[alive : {pids}, owner : MCOwners(pids)] : pids \in {{1, 3}, {1, 2, 3}}}

MCRequests == {<<alt, http>>, <<http, http>>}

MCTables == {{"tcp", "tcp6", "udp", "udp6", "proc"}, {"tcp", "tcp6", "udp", "udp6"},
             {"tcp", "proc"}, {"proc"}}
================================================================================
