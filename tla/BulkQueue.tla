------------------------------ MODULE BulkQueue ------------------------------
(***************************************************************************)
(* What the bulk-operation queue promises whoever queues a job: the jobs   *)
(* are claimed one at a time, the oldest first; the calls of a job are     *)
(* made while it is claimed, in the order of its items and none twice; a   *)
(* job goes back to the queue only if none of its calls was made, and a    *)
(* job that is over is never taken up again.                               *)
(***************************************************************************)
EXTENDS Naturals, Sequences

CONSTANTS
    Jobs,    \* jobs, numbered by age
    Total    \* Total[j]: number of items of job j

VARIABLES
    phase,   \* phase[j]: absent, waiting, claimed or over
    sent     \* sent[j]: the items of j a call was made for

Init ==
    /\ phase = [j \in Jobs |-> "absent"]
    /\ sent = [j \in Jobs |-> << >>]

Becomes(j, before, after) ==
    /\ phase[j] = before
    /\ phase' = [phase EXCEPT ![j] = after]
    /\ UNCHANGED sent

Submit(j) == Becomes(j, "absent", "waiting")
Withdraw(j) == Becomes(j, "waiting", "over")

Claim(j) ==
    /\ \A k \in Jobs : phase[k] # "claimed"
    /\ \A k \in Jobs : phase[k] = "waiting" => j <= k
    /\ Becomes(j, "waiting", "claimed")

Send(j, item) ==
    /\ phase[j] = "claimed"
    /\ \A i \in DOMAIN sent[j] : sent[j][i] < item
    /\ sent' = [sent EXCEPT ![j] = Append(@, item)]
    /\ UNCHANGED phase

GiveBack(j) == sent[j] = << >> /\ Becomes(j, "claimed", "waiting")
End(j) == Becomes(j, "claimed", "over")

Next == \E j \in Jobs :
    \/ Submit(j) \/ Withdraw(j) \/ Claim(j) \/ GiveBack(j) \/ End(j)
    \/ \E item \in 1..Total[j] : Send(j, item)

Spec == Init /\ [][Next]_<<phase, sent>>
=============================================================================
