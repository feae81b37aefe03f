--------------------------- MODULE MCLoadBalancer ---------------------------
(* Three requests and three servers, one of them registered at the start.  *)
EXTENDS LoadBalancer, TLC

Symmetry == Permutations(Requests)
=============================================================================
