----------------------------- MODULE MCPromises -----------------------------
(* Small instances of the components that promise something in the end:    *)
(* tasks of one and of two items, two users.                               *)
EXTENDS Promises

MCTotal == [t \in 1..MaxTasks |-> IF t = 2 THEN 1 ELSE 2]
MCOwner == [t \in 1..MaxTasks |-> IF t = 2 THEN "bob" ELSE "ann"]
MCUsers == {"ann", "bob"}
=============================================================================
