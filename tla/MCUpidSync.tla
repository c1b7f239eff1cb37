----------------------------- MODULE MCUpidSync -----------------------------
(* Small instances of UpidSync: a task of each kind on two servers.        *)
EXTENDS UpidSync

MCServerOf == [t \in Tasks |-> IF t = "job" THEN 1 ELSE 2]
MCKind == [t \in Tasks |-> CASE t = "ct" -> "ct_delete" [] t = "vm" -> "vm_delete"
                             [] OTHER -> "upid"]
=============================================================================
