------------------------------ MODULE MCVmSync ------------------------------
(* Small instances of VmSync.                                              *)
EXTENDS VmSync

\* Two servers of one cluster, one guest or two.
ClusterSite == [s \in 1..NServers |-> "cluster"]
ClusterHome == [g \in Guests |-> "cluster"]

\* Two hosts of their own, one guest each.
HostSite == [s \in 1..NServers |-> IF s = 1 THEN "hostA" ELSE "hostB"]
HostHome == [g \in Guests |-> IF g = "ga" THEN "hostA" ELSE "hostB"]
=============================================================================
