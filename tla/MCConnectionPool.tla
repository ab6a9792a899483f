-------------------------- MODULE MCConnectionPool --------------------------
(* ConnectionPool for TLC: the users of the pool are interchangeable. *)
EXTENDS ConnectionPool, TLC

Symmetry == Permutations(User)
=============================================================================
