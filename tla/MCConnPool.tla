----------------------------- MODULE MCConnPool -----------------------------
(* Instances of the connection pool for model checking; the .cfg files     *)
(* choose the protocol and the bounds.                                     *)
EXTENDS ConnPool, TLC

Symmetry == Permutations(Clients) \cup Permutations(Streams)

=============================================================================
