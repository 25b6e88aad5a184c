--------------------------- MODULE MCProxyLatency ---------------------------
(* Instances of ProxyLatency: clients, and order identifiers, are          *)
(* interchangeable.                                                        *)
EXTENDS ProxyLatency, TLC

MCAlike == Permutations(Conns) \cup Permutations(ClOrdIDs)
=============================================================================
