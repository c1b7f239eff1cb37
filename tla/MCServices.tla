----------------------------- MODULE MCServices -----------------------------
(* Small instances of the services.                                        *)
EXTENDS Services, TLC

CONSTANTS
    d1, d2      \* deployments, moves, backup runs, password resets, sockets

\* What stands under d1 and d2 is alike in every part.
Sym == Permutations({d1, d2})
=============================================================================
