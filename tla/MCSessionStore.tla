--------------------------- MODULE MCSessionStore ---------------------------
(* SessionStore for TLC: sessions, projects and requests are symmetric.    *)
EXTENDS SessionStore, TLC

Symmetry == Permutations(Ids) \cup Permutations(Projects)
              \cup Permutations(Requests)
=============================================================================
