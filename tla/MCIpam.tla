------------------------------- MODULE MCIpam -------------------------------
(* Small instances of Ipam: two guests of two servers with the same vmid.  *)
EXTENDS Ipam, TLC

CONSTANTS g1, g2

MCGuests == {g1, g2}
MCVmid == [g \in MCGuests |-> 100]
MCSymmetry == Permutations(MCGuests) \union Permutations(Threads)
=============================================================================
