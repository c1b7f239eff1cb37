-------------------------- MODULE MCGuestAddresses --------------------------
(* Small instances of GuestAddresses: containers with a configuration file *)
(* and systemd, with NetworkManager, and with none of them.                *)
EXTENDS GuestAddresses, TLC

MCStacks == {{}, {"nm"}, {"file", "systemd"}}
MCSymmetry == Permutations(Threads)
=============================================================================
