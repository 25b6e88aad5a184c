------------------------ MODULE MCInMemoryConnection ------------------------
(* A small instance of InMemoryConnection.  c1 and c2 compete for the      *)
(* client's messages, s1 for the server's.                                 *)
EXTENDS InMemoryConnection

CONSTANTS c1, c2, s1, a, b

MCClients == {c1, c2}
MCServers == {s1}
MCData == {a, b}
=============================================================================
