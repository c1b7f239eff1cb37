------------------------------ MODULE MCPanel ------------------------------
(* Small instances of the parts of the panel.                              *)
EXTENDS Panel, TLC

CONSTANTS
    d1, d2      \* threads, requests, logins, jobs

\* Of three servers two have nodes of one name.
MCNodeName == [s \in Servers |-> IF s = 2 THEN "pve2" ELSE "pve"]
MCLonger == {}
MCGrants == {{"manage"}, {"delete", "roles"}}

\* What stands under d1 and d2 is alike in every part.
Sym == Permutations({d1, d2})
=============================================================================
