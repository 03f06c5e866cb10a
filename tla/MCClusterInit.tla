--------------------------- MODULE MCClusterInit ---------------------------
(* A server whose bootstrap has a primary cluster, with its addresses from *)
(* DNS, and a secondary one, with its endpoints from EDS.                  *)
EXTENDS ClusterInit

CONSTANTS dns, eds, p1, p2, s1, s2, bad

MCBootstrap == dns :> p1 @@ eds :> s1
=============================================================================
