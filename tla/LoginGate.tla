------------------------------ MODULE LoginGate ------------------------------
(***************************************************************************)
(* What a login has to get past besides the lock of the account: the block *)
(* of its address after too many failures, and the second factor of the    *)
(* user with its recovery codes.  Requests run in threads; what each one   *)
(* has read may be changed by another before it writes.                    *)
(***************************************************************************)
EXTENDS Naturals, FiniteSets

CONSTANTS
    Logins,      \* requests, each used again and again
    Threshold,   \* ip_block_threshold
    MaxFails,    \* bound: failures the window holds
    MaxSecrets,  \* bound: secrets of the second factor
    MaxCodes     \* bound: recovery codes

None == 0
Secrets == 1..MaxSecrets
Codes == 1..MaxCodes

VARIABLES
    block,      \* the row of the address in blocked_ips
    fails,      \* failures recorded of the address in the window
    tried,      \* history: passwords and codes refused in the window
    tfa,        \* the user: is the second factor on, its secret, its recovery codes
    thr,        \* thr[l]: what the thread does, and what it has read
    confirmed,  \* history: the secret a code was last shown for
    spent,      \* history: recovery codes that were accepted
    crossed,    \* history: a thread wrote over what it had not read
    drawn       \* secrets and codes so far

vars == <<block, fails, tried, tfa, thr, confirmed, spent, crossed, drawn>>

Idle == [pc |-> "idle", seen |-> [on |-> FALSE, secret |-> None, codes |-> {}], code |-> None]

Init ==
    /\ block = "none" /\ fails = 0 /\ tried = 0
    /\ tfa = [on |-> FALSE, secret |-> None, codes |-> {}]
    /\ thr = [l \in Logins |-> Idle]
    /\ confirmed = None /\ spent = {} /\ crossed = FALSE
    /\ drawn = [secrets |-> 0, codes |-> 0]

-----------------------------------------------------------------------------
At(l, pc) == thr[l].pc = pc
GoTo(l, pc) == thr' = [thr EXCEPT ![l].pc = pc]
End(l) == thr' = [thr EXCEPT ![l] = Idle]
\* A thread that changes the user reads it, and writes later.
Read(l, pc, c) == thr' = [thr EXCEPT ![l] = [pc |-> pc, seen |-> tfa, code |-> c]]
Write(l, t) == tfa' = t /\ crossed' = (crossed \/ tfa # thr[l].seen) /\ End(l)
RecordFailure == fails < MaxFails /\ fails' = fails + 1
Refused == RecordFailure /\ tried' = tried + 1

(* A login.                                                                *)
\* A block that has run out is removed.
CheckBlocked(l) ==
    /\ At(l, "idle")
    /\ IF block \in {"timed", "permanent"}
       THEN RecordFailure /\ UNCHANGED <<block, thr>>
       ELSE block' = "none" /\ GoTo(l, "count") /\ UNCHANGED fails
    /\ UNCHANGED <<tried, tfa, confirmed, spent, crossed, drawn>>

\* Mutant: one failure more is let pass.
MutCountFailures(l) ==
    /\ At(l, "count")
    /\ IF fails > Threshold THEN GoTo(l, "block") ELSE Read(l, "password", None)
    /\ UNCHANGED <<block, fails, tried, tfa, confirmed, spent, crossed, drawn>>

\* Below the threshold the user is loaded.
CountFailures(l) ==
    /\ At(l, "count")
    /\ IF fails >= Threshold THEN GoTo(l, "block") ELSE Read(l, "password", None)
    /\ UNCHANGED <<block, fails, tried, tfa, confirmed, spent, crossed, drawn>>

\* Whatever block there is by now is replaced by one for an hour.
BlockAddress(l) ==
    /\ At(l, "block") /\ End(l)
    /\ block' = "timed" /\ RecordFailure
    /\ UNCHANGED <<tried, tfa, confirmed, spent, crossed, drawn>>

\* A wrong password, or a user that is not there.
WrongPassword(l) ==
    /\ At(l, "password") /\ Refused /\ End(l)
    /\ UNCHANGED <<block, tfa, confirmed, spent, crossed, drawn>>

\* With the second factor on, as it was when the user was loaded, a code is
\* asked for: of the authenticator, or one of the recovery codes.
RightPassword(l) ==
    /\ At(l, "password")
    /\ \/ End(l) /\ UNCHANGED <<fails, tried>>
       \/ thr[l].seen.on /\ Refused /\ End(l)
       \/ /\ thr[l].seen.on
          /\ \E c \in thr[l].seen.codes : thr' = [thr EXCEPT ![l].pc = "consume", ![l].code = c]
          /\ UNCHANGED <<fails, tried>>
    /\ UNCHANGED <<block, tfa, confirmed, spent, crossed, drawn>>

\* Mutant: the code is accepted and kept.
MutConsumeBackupCode(l) ==
    /\ At(l, "consume") /\ Write(l, tfa)
    /\ spent' = spent \union {thr[l].code}
    /\ UNCHANGED <<block, fails, tried, confirmed, drawn>>

\* The list that was read is written back without the code; no other column.
ConsumeBackupCode(l) ==
    /\ At(l, "consume")
    /\ Write(l, [tfa EXCEPT !.codes = thr[l].seen.codes \ {thr[l].code}])
    /\ spent' = spent \union {thr[l].code}
    /\ UNCHANGED <<block, fails, tried, confirmed, drawn>>

(* The second factor.                                                      *)
\* Mutant: a secret can be drawn over one that is in use.
MutStartSetup(l) ==
    /\ At(l, "idle") /\ Read(l, "setup", None)
    /\ UNCHANGED <<block, fails, tried, tfa, confirmed, spent, crossed, drawn>>

StartSetup(l) ==
    /\ At(l, "idle") /\ ~tfa.on /\ Read(l, "setup", None)
    /\ UNCHANGED <<block, fails, tried, tfa, confirmed, spent, crossed, drawn>>

Setup(l) ==
    /\ At(l, "setup") /\ drawn.secrets < MaxSecrets
    /\ drawn' = [drawn EXCEPT !.secrets = @ + 1]
    /\ Write(l, [tfa EXCEPT !.secret = drawn.secrets + 1])
    /\ UNCHANGED <<block, fails, tried, confirmed, spent>>

\* A code for the secret of the row is shown.
StartEnable(l) ==
    /\ At(l, "idle") /\ ~tfa.on /\ tfa.secret # None /\ Read(l, "enable", None)
    /\ UNCHANGED <<block, fails, tried, tfa, confirmed, spent, crossed, drawn>>

Enable(l) ==
    /\ At(l, "enable") /\ drawn.codes + 2 <= MaxCodes
    /\ drawn' = [drawn EXCEPT !.codes = @ + 2]
    /\ Write(l, [tfa EXCEPT !.on = TRUE, !.codes = {drawn.codes + 1, drawn.codes + 2}])
    /\ confirmed' = thr[l].seen.secret
    /\ UNCHANGED <<block, fails, tried, spent>>

\* By the user with the password and a code, or by an administrator.
StartDisable(l) ==
    /\ At(l, "idle") /\ Read(l, "disable", None)
    /\ UNCHANGED <<block, fails, tried, tfa, confirmed, spent, crossed, drawn>>

Disable(l) ==
    /\ At(l, "disable")
    /\ Write(l, [on |-> FALSE, secret |-> None, codes |-> {}])
    /\ UNCHANGED <<block, fails, tried, confirmed, spent, drawn>>

-----------------------------------------------------------------------------
(* Administrators and time.                                                *)
BlockByHand ==
    /\ block = "none" /\ block' \in {"timed", "permanent"}
    /\ UNCHANGED <<fails, tried, tfa, thr, confirmed, spent, crossed, drawn>>

Unblock ==
    /\ block # "none" /\ block' = "none"
    /\ UNCHANGED <<fails, tried, tfa, thr, confirmed, spent, crossed, drawn>>

BlockExpires ==
    /\ block = "timed" /\ block' = "expired"
    /\ UNCHANGED <<fails, tried, tfa, thr, confirmed, spent, crossed, drawn>>

\* The window of half an hour moves on; a login does not last that long.
WindowMoves ==
    /\ fails > 0 /\ \A l \in Logins : thr[l].pc \notin {"count", "block", "password"}
    /\ fails' = 0 /\ tried' = 0
    /\ UNCHANGED <<block, tfa, thr, confirmed, spent, crossed, drawn>>

Next ==
    \/ \E l \in Logins :
          \/ CheckBlocked(l) \/ CountFailures(l) \/ BlockAddress(l)
          \/ WrongPassword(l) \/ RightPassword(l) \/ ConsumeBackupCode(l)
          \/ StartSetup(l) \/ Setup(l) \/ StartEnable(l) \/ Enable(l) \/ StartDisable(l) \/ Disable(l)
    \/ BlockByHand \/ Unblock \/ BlockExpires \/ WindowMoves

Spec == Init /\ [][Next]_vars

-----------------------------------------------------------------------------
Factor == [on : BOOLEAN, secret : 0..MaxSecrets, codes : SUBSET Codes]

TypeOK ==
    /\ block \in {"none", "timed", "expired", "permanent"}
    /\ fails \in 0..MaxFails /\ tried \in 0..MaxFails
    /\ tfa \in Factor
    /\ thr \in [Logins -> [pc : {"idle", "count", "block", "password", "consume", "setup", "enable", "disable"},
                           seen : Factor, code : 0..MaxCodes]]
    /\ confirmed \in 0..MaxSecrets /\ spent \subseteq Codes /\ crossed \in BOOLEAN
    /\ drawn \in [secrets : 0..MaxSecrets, codes : 0..MaxCodes]

\* However many logins run at once, an address gets at most one guess for each
\* of them beyond the threshold before it is blocked.
TriesBounded == tried <= Threshold - 1 + Cardinality(Logins)

\* A recovery code opens once, and the second factor is on with a secret whose
\* owner has shown a code for it, unless one request wrote over another's.
SecondFactorTrue ==
    ~crossed => tfa.codes \intersect spent = {} /\ (tfa.on => tfa.secret = confirmed)
=============================================================================
