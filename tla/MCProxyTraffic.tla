--------------------------- MODULE MCProxyTraffic ---------------------------
(* Instances of ProxyTraffic.  Three numbers serve the listening socket    *)
(* and one connection: with two clients they are reused.                   *)
EXTENDS ProxyTraffic, TLC

MCFds == 0..2

(* Clients are interchangeable.  Only for runs without liveness.           *)
MCClients == Permutations(Conns)
=============================================================================
