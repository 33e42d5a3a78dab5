---------------------------- MODULE MCHttpServer ----------------------------
(***************************************************************************)
(* Model-checking instances of HttpServer.  Workers, and connections, are  *)
(* interchangeable; descriptors are not, the lowest free one is taken.     *)
(***************************************************************************)
EXTENDS HttpServer, TLC

Symmetry == Permutations(Workers) \cup Permutations(Conns)

=============================================================================
