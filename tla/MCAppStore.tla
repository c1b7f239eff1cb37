----------------------------- MODULE MCAppStore -----------------------------
(* A small instance of AppStore: two applications beside other deployments. *)
EXTENDS AppStore, TLC

CONSTANTS a1, a2

\* The applications are alike.
Sym == Permutations({a1, a2})
=============================================================================
