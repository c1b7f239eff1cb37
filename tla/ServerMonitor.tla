---------------------------- MODULE ServerMonitor ----------------------------
(***************************************************************************)
(* Watching one Proxmox server: the availability check and the VM status   *)
(* job ask it in threads of their own every 30 seconds and tell the users  *)
(* when it goes and when it is back.  Both work on the same last known     *)
(* state, alert time and proxmox_servers row, without a lock.              *)
(***************************************************************************)
EXTENDS Naturals

CONSTANTS
    MaxFlips      \* bound: how often the server goes or comes back, and restarts of the panel

VARIABLES
    up,           \* whether the server answers
    online,       \* is_online of its row
    known,        \* last_server_states: up, down or unknown
    alerted,      \* last_server_alerts: none, recent, or ten minutes old
    avail,        \* the availability check: how far it is and what it has read
    vmjob,        \* the VM status job
    told,         \* history: what the users were told last
    excused,      \* history: the jobs have crossed, or the panel was restarted
    flips

vars == <<up, online, known, alerted, avail, vmjob, told, excused, flips>>

Idle == [pc |-> "idle", ok |-> TRUE, was |-> FALSE, row |-> TRUE]

Init ==
    /\ up = TRUE /\ online = TRUE
    /\ known = "unknown" /\ alerted = "none"
    /\ avail = Idle /\ vmjob = Idle
    /\ told = "nothing" /\ excused = FALSE /\ flips = 0

-----------------------------------------------------------------------------
\* The known state is written while the other job is between reading it and
\* writing it itself.
Crossing(other) == excused' = (excused \/ other.pc \in {"recovered", "alert", "know", "online"})

(* The availability check.                                                 *)

\* The rows are loaded, then the server is asked.
AskAvailable ==
    /\ avail.pc = "idle"
    /\ avail' = [Idle EXCEPT !.pc = "asked", !.ok = up, !.row = online]
    /\ UNCHANGED <<up, online, known, alerted, vmjob, told, excused, flips>>

\* Mutant: whether it was offline is taken from the row, which both jobs write.
MutFoundUp ==
    /\ avail.pc = "asked" /\ avail.ok
    /\ LET was == ~avail.row IN
       /\ online' = IF was THEN TRUE ELSE online
       /\ avail' = [avail EXCEPT !.pc = IF was THEN "recovered" ELSE "know", !.was = was]
    /\ UNCHANGED <<up, known, alerted, vmjob, told, excused, flips>>

\* Online: the row is written when it or the known state said otherwise.
FoundUp ==
    /\ avail.pc = "asked" /\ avail.ok
    /\ LET was == known = "down" IN
       /\ online' = IF ~avail.row \/ was THEN TRUE ELSE online
       /\ avail' = [avail EXCEPT !.pc = IF was THEN "recovered" ELSE "know", !.was = was]
    /\ UNCHANGED <<up, known, alerted, vmjob, told, excused, flips>>

\* The alert time goes with the recovery, so that the next outage is told at once.
TellRecovered ==
    /\ avail.pc = "recovered"
    /\ told' = "up"
    /\ alerted' = "none"
    /\ avail' = [avail EXCEPT !.pc = "know"]
    /\ UNCHANGED <<up, online, known, vmjob, excused, flips>>

\* Offline: told when it was online as far as known, and every ten minutes.
FoundDown ==
    /\ avail.pc = "asked" /\ ~avail.ok
    /\ online' = IF avail.row THEN FALSE ELSE online
    /\ LET was == known # "down" IN
       avail' = [avail EXCEPT !.pc = IF was \/ alerted # "recent" THEN "alert" ELSE "know", !.was = was]
    /\ UNCHANGED <<up, known, alerted, vmjob, told, excused, flips>>

TellDown ==
    /\ avail.pc = "alert"
    /\ told' = "down"
    /\ alerted' = "recent"
    /\ avail' = [avail EXCEPT !.pc = "know"]
    /\ UNCHANGED <<up, online, known, vmjob, excused, flips>>

Know ==
    /\ avail.pc = "know"
    /\ known' = IF avail.ok THEN "up" ELSE "down"
    /\ avail' = Idle
    /\ Crossing(vmjob)
    /\ UNCHANGED <<up, online, alerted, vmjob, told, flips>>

-----------------------------------------------------------------------------
(* The VM status job.                                                      *)
AskVms ==
    /\ vmjob.pc = "idle"
    /\ vmjob' = [Idle EXCEPT !.pc = "asked", !.ok = up]
    /\ UNCHANGED <<up, online, known, alerted, avail, told, excused, flips>>

\* _notify_server_online; the list of guests that follows may still fail, and
\* then the server counts as offline after all.
NotifyOnline ==
    /\ vmjob.pc = "asked" /\ vmjob.ok
    /\ online' = TRUE
    /\ vmjob' = [vmjob EXCEPT !.pc = "online", !.was = known = "down"]
    /\ UNCHANGED <<up, known, alerted, avail, told, excused, flips>>

TellOnline ==
    /\ vmjob.pc = "online"
    /\ told' = IF vmjob.was THEN "up" ELSE told
    /\ known' = "up"
    /\ vmjob' \in {Idle} \union (IF up THEN {} ELSE {[vmjob EXCEPT !.pc = "asked", !.ok = FALSE]})
    /\ Crossing(avail)
    /\ UNCHANGED <<up, online, alerted, avail, flips>>

\* _notify_server_offline: within ten minutes of an alert nothing is done at all.
NotifyOffline ==
    /\ vmjob.pc = "asked" /\ ~vmjob.ok
    /\ IF alerted = "recent" THEN vmjob' = Idle /\ UNCHANGED online
                             ELSE vmjob' = [vmjob EXCEPT !.pc = "offline"] /\ online' = FALSE
    /\ UNCHANGED <<up, known, alerted, avail, told, excused, flips>>

TellOffline ==
    /\ vmjob.pc = "offline"
    /\ told' = "down"
    /\ alerted' = "recent" /\ known' = "down"
    /\ vmjob' = Idle
    /\ Crossing(avail)
    /\ UNCHANGED <<up, online, avail, flips>>

-----------------------------------------------------------------------------
TenMinutes ==
    /\ alerted = "recent"
    /\ alerted' = "old"
    /\ UNCHANGED <<up, online, known, avail, vmjob, told, excused, flips>>

Flip ==
    /\ flips < MaxFlips /\ flips' = flips + 1
    /\ up' = ~up
    /\ UNCHANGED <<online, known, alerted, avail, vmjob, told, excused>>

\* The worker's memory is lost, the row stays.
Restart ==
    /\ flips < MaxFlips /\ flips' = flips + 1
    /\ known' = "unknown" /\ alerted' = "none"
    /\ avail' = Idle /\ vmjob' = Idle
    /\ excused' = TRUE
    /\ UNCHANGED <<up, online, told>>

AvailabilityStep == AskAvailable \/ FoundUp \/ TellRecovered \/ FoundDown \/ TellDown \/ Know
VmStatusStep == AskVms \/ NotifyOnline \/ TellOnline \/ NotifyOffline \/ TellOffline

Next == AvailabilityStep \/ VmStatusStep \/ TenMinutes \/ Flip \/ Restart

Spec == Init /\ [][Next]_vars

\* The scheduler starts both jobs again and again, and time goes on.
Fairness == WF_vars(AvailabilityStep) /\ WF_vars(VmStatusStep) /\ WF_vars(TenMinutes)
FairSpec == Spec /\ Fairness

-----------------------------------------------------------------------------
Pcs == {"idle", "asked", "recovered", "alert", "know", "online", "offline"}
TypeOK ==
    /\ up \in BOOLEAN /\ online \in BOOLEAN /\ excused \in BOOLEAN /\ flips \in 0..MaxFlips
    /\ known \in {"up", "down", "unknown"} /\ alerted \in {"none", "recent", "old"}
    /\ avail.pc \in Pcs /\ vmjob.pc \in Pcs
    /\ told \in {"nothing", "up", "down"}

\* A server that stays away is told of in the end, and the last the users hear
\* is not that it is back: however the two jobs overlap, and whatever was lost
\* with a restart.
OutageTold == ~up ~> (told = "down" \/ up)

\* A server that stays is told to be back, as far as the jobs did not cross
\* (one setting the known state between the other's look at it and its own
\* setting) and the panel was not restarted: its memory is all that knows of it.
RecoveryTold == (up /\ told = "down") ~> (told = "up" \/ ~up \/ excused)
=============================================================================
