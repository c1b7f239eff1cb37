------------------------------ MODULE Accounts ------------------------------
(***************************************************************************)
(* One user account: the counter of wrong answers and the lock it sets,    *)
(* the sessions opened by logins and by an administrator who impersonates, *)
(* and the handlers that reset the password, unlock, disable and delete.   *)
(*                                                                         *)
(* Every handler is a thread with a database session of its own.  It works *)
(* on the row as it loaded it, and a commit writes only the columns it     *)
(* changed: setting a column to the value it was loaded with writes        *)
(* nothing.  A commit also makes the next access load the row again.       *)
(***************************************************************************)
EXTENDS Naturals, FiniteSets

CONSTANTS
    Logins,        \* login attempts (or impersonations); a session bears the name of its login
    Resets,        \* password resets and deletions that may run at a time
    MaxAttempts,   \* max_login_attempts
    MaxEvents      \* bound: handlers started by administrators and by mail, crashes

VARIABLES
    present,   \* the row of the user is there
    enabled,   \* User.is_active
    failed,    \* failed_login_attempts; no more than one each login, so bounded
    lock,      \* locked_until: none, in the future ("locked") or past ("expired")
    login,     \* login[r]: a login with the row as it loaded it
    sess,      \* sess[r]: row of ActiveSession: none, active, ended or gone
    fresh,     \* sess[r].expires_at is in the future
    request,   \* request[r]: a call made with the session
    reset,     \* reset[h]: a handler that changes the password or deletes
    outdated,  \* history: sessions that were active when the password was reset
    crashed,   \* history: a crash cut a reset short
    wrong,     \* history: wrong answers counted since the counter was cleared
    crossed,   \* history: the counter was written while a login was about to write it
    events

accountVars == <<present, enabled, failed, lock>>
history == <<outdated, crashed, wrong, crossed>>
vars == <<present, enabled, failed, lock, login, sess, fresh, request, reset, history, events>>

NoRow == [failed |-> 0, lock |-> "none", enabled |-> FALSE]
Row == [failed |-> failed, lock |-> lock, enabled |-> enabled]

\* A user who is not logged in, with wrong answers that did not set a lock yet.
Init ==
    /\ present = TRUE /\ enabled = TRUE /\ failed \in 0..(MaxAttempts - 1) /\ lock = "none"
    /\ login = [r \in Logins |-> [pc |-> "new", row |-> NoRow]]
    /\ sess = [r \in Logins |-> "none"] /\ fresh = [r \in Logins |-> FALSE]
    /\ request = [r \in Logins |-> "none"]
    /\ reset = [h \in Resets |-> [pc |-> "idle", row |-> NoRow]]
    /\ outdated = {} /\ crashed = FALSE /\ wrong = failed /\ crossed = FALSE
    /\ events = 0

Counted == events < MaxEvents /\ events' = events + 1

-----------------------------------------------------------------------------
(* What a write of the counter means for the history.                      *)
Counting(r) == login[r].pc = "counting"
CounterWritten(others, n) ==
    /\ wrong' = n
    /\ crossed' = (crossed \/ \E r \in others : Counting(r))

\* Mutant: both columns are written whatever was loaded.
MutClear(row, others) == failed' = 0 /\ lock' = "none" /\ CounterWritten(others, 0)

\* failed_login_attempts = 0 and locked_until = None on a row loaded earlier.
Clear(row, others) ==
    /\ failed' = IF row.failed = 0 THEN failed ELSE 0
    /\ lock' = IF row.lock = "none" THEN lock ELSE "none"
    /\ IF row.failed = 0 THEN UNCHANGED <<wrong, crossed>> ELSE CounterWritten(others, 0)

-----------------------------------------------------------------------------
(* Login.                                                                  *)
LoginGoes(r, pc) == login' = [login EXCEPT ![r].pc = pc]
\* A blocked or too eager address is refused before the account is looked at.
RefuseAddress(r) ==
    /\ login[r].pc = "new"
    /\ LoginGoes(r, "done")
    /\ UNCHANGED <<accountVars, sess, fresh, request, reset, history, events>>

\* The lock, the password and is_active are judged on the row loaded here.
LoadUser(r) ==
    /\ login[r].pc = "new"
    /\ login' = [login EXCEPT ![r] =
                    IF present /\ lock # "locked" THEN [pc |-> "loaded", row |-> Row]
                    ELSE [pc |-> "done", row |-> NoRow]]
    /\ UNCHANGED <<accountVars, sess, fresh, request, reset, history, events>>

\* The attempt is recorded and committed; the counter is read anew after it.
WrongPassword(r) ==
    /\ login[r].pc = "loaded"
    /\ LoginGoes(r, "wrong")
    /\ UNCHANGED <<accountVars, sess, fresh, request, reset, history, events>>

\* Mutant: the count loaded before the check of the password is increased.
MutReadCounter(r) ==
    /\ login[r].pc = "wrong"
    /\ LoginGoes(r, "counting")
    /\ UNCHANGED <<accountVars, sess, fresh, request, reset, history, events>>

ReadCounter(r) ==
    /\ login[r].pc = "wrong"
    /\ login' = [login EXCEPT ![r] = IF present THEN [pc |-> "counting", row |-> Row]
                                     ELSE [pc |-> "done", row |-> NoRow]]
    /\ UNCHANGED <<accountVars, sess, fresh, request, reset, history, events>>

IncrementFailed(r) ==
    /\ Counting(r)
    /\ LET n == login[r].row.failed + 1 IN
       IF present
       THEN /\ failed' = n
            /\ lock' = IF n >= MaxAttempts THEN "locked" ELSE lock
            /\ CounterWritten(Logins \ {r}, wrong + 1)
       ELSE UNCHANGED <<failed, lock, wrong, crossed>>
    /\ LoginGoes(r, "done")
    /\ UNCHANGED <<present, enabled, sess, fresh, request, reset, outdated, crashed, events>>

\* The account is disabled, or a second factor missing or wrong.
RefuseCorrect(r) ==
    /\ login[r].pc = "loaded"
    /\ LoginGoes(r, "done")
    /\ UNCHANGED <<accountVars, sess, fresh, request, reset, history, events>>

ResetFailed(r) ==
    /\ login[r].pc = "loaded" /\ login[r].row.enabled
    /\ IF present THEN Clear(login[r].row, Logins \ {r}) ELSE UNCHANGED <<failed, lock, wrong, crossed>>
    /\ LoginGoes(r, IF present THEN "session" ELSE "done")
    /\ UNCHANGED <<present, enabled, sess, fresh, request, reset, outdated, crashed, events>>

Open(r, pc) ==
    /\ sess' = [sess EXCEPT ![r] = "active"]
    /\ fresh' = [fresh EXCEPT ![r] = TRUE]
    /\ LoginGoes(r, pc)

CreateSession(r) ==
    /\ login[r].pc = "session"
    /\ IF present THEN Open(r, "done") ELSE LoginGoes(r, "done") /\ UNCHANGED <<sess, fresh>>
    /\ UNCHANGED <<accountVars, request, reset, history, events>>

\* An administrator gets a session of the user.
Impersonate(r) ==
    /\ login[r].pc = "new" /\ present /\ enabled /\ Counted
    /\ Open(r, "impersonated")
    /\ UNCHANGED <<accountVars, request, reset, history>>

-----------------------------------------------------------------------------
(* A call with a session.                                                  *)
EndSessions(S) == sess' = [r \in Logins |-> IF r \in S /\ sess[r] = "active" THEN "ended" ELSE sess[r]]

ValidateLoad(r) ==
    /\ sess[r] = "active" /\ request[r] = "none"
    /\ IF fresh[r] THEN request' = [request EXCEPT ![r] = "valid"] /\ UNCHANGED sess
       ELSE EndSessions({r}) /\ UNCHANGED request
    /\ UNCHANGED <<accountVars, login, fresh, reset, history, events>>

\* Mutant: the row is written back as it was loaded.
MutValidateExtend(r) ==
    /\ request[r] = "valid"
    /\ fresh' = [fresh EXCEPT ![r] = TRUE]
    /\ sess' = [sess EXCEPT ![r] = IF @ = "gone" THEN @ ELSE "active"]
    /\ request' = [request EXCEPT ![r] = "none"]
    /\ UNCHANGED <<accountVars, login, reset, history, events>>

\* last_activity and expires_at are written, is_active is not; logout is
\* the call that goes on to end the session.
ValidateExtend(r) ==
    /\ request[r] = "valid"
    /\ fresh' = [fresh EXCEPT ![r] = (sess[r] # "gone")]
    /\ \E next \in {"none", "logout"} :
          request' = [request EXCEPT ![r] = IF sess[r] = "gone" THEN "none" ELSE next]
    /\ UNCHANGED <<accountVars, login, sess, reset, history, events>>

\* terminate_session of a logout; stop_impersonating needs no valid session.
TerminateSession(r) ==
    /\ \/ request[r] = "logout" /\ request' = [request EXCEPT ![r] = "none"]
       \/ login[r].pc = "impersonated" /\ sess[r] = "active" /\ UNCHANGED request
    /\ EndSessions({r})
    /\ UNCHANGED <<accountVars, login, fresh, reset, history, events>>

SessionExpires(r) ==
    /\ fresh[r] /\ sess[r] = "active"
    /\ fresh' = [fresh EXCEPT ![r] = FALSE]
    /\ UNCHANGED <<accountVars, login, sess, request, reset, history, events>>

-----------------------------------------------------------------------------
(* Handlers that change the account.                                       *)
\* reset_password (from a mail, for an active user) and reset_user_password.
StartReset(h) ==
    /\ reset[h].pc = "idle" /\ present /\ Counted
    /\ reset' = [reset EXCEPT ![h] = [pc |-> "save", row |-> Row]]
    /\ UNCHANGED <<accountVars, login, sess, fresh, request, history>>

ResetGoes(h, pc) == reset' = [reset EXCEPT ![h] = [@ EXCEPT !.pc = pc]]
\* Mutant: the sessions are forgotten, as when a user changes the password.
MutSavePassword(h) ==
    /\ reset[h].pc = "save"
    /\ Clear(reset[h].row, Logins)
    /\ outdated' = outdated \union {r \in Logins : sess[r] = "active"}
    /\ ResetGoes(h, "idle")
    /\ UNCHANGED <<present, enabled, login, sess, fresh, request, crashed, events>>

SavePassword(h) ==
    /\ reset[h].pc = "save"
    /\ IF present
       THEN /\ Clear(reset[h].row, Logins)
            /\ outdated' = outdated \union {r \in Logins : sess[r] = "active"}
       ELSE UNCHANGED <<failed, lock, wrong, crossed, outdated>>
    /\ ResetGoes(h, IF present THEN "terminate" ELSE "idle")
    /\ UNCHANGED <<present, enabled, login, sess, fresh, request, crashed, events>>

\* terminate_all_user_sessions in a transaction of its own.
TerminateAll(h) ==
    /\ reset[h].pc \in {"terminate", "erase"}
    /\ EndSessions(Logins)
    /\ ResetGoes(h, IF reset[h].pc = "erase" THEN "delete" ELSE "idle")
    /\ UNCHANGED <<accountVars, login, fresh, request, history, events>>

StartDelete(h) ==
    /\ reset[h].pc = "idle" /\ present /\ Counted
    /\ reset' = [reset EXCEPT ![h] = [pc |-> "erase", row |-> NoRow]]
    /\ UNCHANGED <<accountVars, login, sess, fresh, request, history>>

\* Rows of sessions, also those opened since, go with the user.
DeleteUser(h) ==
    /\ reset[h].pc = "delete"
    /\ present' = FALSE
    /\ sess' = [r \in Logins |-> IF sess[r] = "none" THEN "none" ELSE "gone"]
    /\ ResetGoes(h, "idle")
    /\ UNCHANGED <<enabled, failed, lock, login, fresh, request, history, events>>

\* update_user: is_active and the end of the sessions are one commit.
SetEnabled(on) ==
    /\ present /\ Counted
    /\ enabled' = on
    /\ IF on THEN UNCHANGED sess ELSE EndSessions(Logins)
    /\ UNCHANGED <<present, failed, lock, login, fresh, request, reset, history>>

UnlockUser ==
    /\ present /\ Counted
    /\ Clear(Row, Logins)
    /\ UNCHANGED <<present, enabled, login, sess, fresh, request, reset, outdated, crashed>>

\* terminate-sessions ends those of a user, a session terminated in the list
\* of sessions loses its row.
AdminTerminates(S, gone) ==
    /\ S # {} /\ Counted
    /\ IF gone THEN sess' = [r \in Logins |-> IF r \in S /\ sess[r] # "none" THEN "gone" ELSE sess[r]]
       ELSE EndSessions(S)
    /\ UNCHANGED <<accountVars, login, fresh, request, reset, history>>

LockExpires ==
    /\ lock = "locked"
    /\ lock' = "expired"
    /\ UNCHANGED <<present, enabled, failed, login, sess, fresh, request, reset, history, events>>

\* Handlers under way are lost; what they committed stays.
Crash ==
    /\ Counted
    /\ login' = [r \in Logins |-> IF login[r].pc \in {"new", "impersonated"} THEN login[r] ELSE [login[r] EXCEPT !.pc = "done"]]
    /\ request' = [r \in Logins |-> "none"]
    /\ reset' = [h \in Resets |-> [pc |-> "idle", row |-> NoRow]]
    /\ crashed' = (crashed \/ \E h \in Resets : reset[h].pc = "terminate")
    /\ UNCHANGED <<accountVars, sess, fresh, outdated, wrong, crossed>>

-----------------------------------------------------------------------------
LoginStep(r) ==
    \/ RefuseAddress(r) \/ LoadUser(r) \/ WrongPassword(r) \/ ReadCounter(r)
    \/ IncrementFailed(r) \/ RefuseCorrect(r) \/ ResetFailed(r) \/ CreateSession(r) \/ Impersonate(r)
SessionStep(r) == ValidateLoad(r) \/ ValidateExtend(r) \/ TerminateSession(r) \/ SessionExpires(r)
ResetStep(h) ==
    \/ StartReset(h) \/ SavePassword(h) \/ TerminateAll(h) \/ StartDelete(h) \/ DeleteUser(h)

Next ==
    \/ \E r \in Logins : LoginStep(r) \/ SessionStep(r)
    \/ \E h \in Resets : ResetStep(h)
    \/ \E on \in BOOLEAN : SetEnabled(on)
    \/ \E S \in {Logins} \union {{r} : r \in Logins} : AdminTerminates(S, S # Logins)
    \/ UnlockUser \/ LockExpires \/ Crash

Spec == Init /\ [][Next]_vars

-----------------------------------------------------------------------------
TypeOK ==
    /\ present \in BOOLEAN /\ enabled \in BOOLEAN /\ failed \in Nat
    /\ lock \in {"none", "locked", "expired"}
    /\ \A r \in Logins :
          /\ login[r].pc \in {"new", "loaded", "wrong", "counting", "session", "done", "impersonated"}
          /\ sess[r] \in {"none", "active", "ended", "gone"}
          /\ request[r] \in {"none", "valid", "logout"}
    /\ \A h \in Resets : reset[h].pc \in {"idle", "save", "terminate", "erase", "delete"}
    /\ fresh \in [Logins -> BOOLEAN] /\ outdated \subseteq Logins /\ events \in 0..MaxEvents

\* A session that was ended, by logout, by an administrator, by expiry or by
\* a password reset, is never active again, though requests that found it
\* valid are still writing to its row.
EndedStaysEnded ==
    [][\A r \in Logins : sess[r] \in {"ended", "gone"} => sess'[r] \in {"ended", "gone"}]_vars

\* Once a password reset is through, no session from before it is active:
\* one is so only while the reset still has to end the sessions, or when a
\* crash came between its two commits.
ResetEndsSessions ==
    \A r \in outdated : sess[r] = "active" =>
        crashed \/ \E h \in Resets : reset[h].pc = "terminate"

\* A lock in force is lifted by an administrator, by a password reset, or by
\* a login that had loaded an earlier lock that was over; a login that passed
\* its check before the lock was set does not take it away.
LockLifted ==
    [][lock = "locked" /\ lock' = "none" =>
          \A r \in Logins : login'[r] = login[r] \/ login[r].row.lock = "expired"]_vars

\* The counter is the number of wrong answers since it was cleared, unless two
\* handlers wrote it at once: the value a wrong answer adds to is loaded after
\* the slow check of the password, not before it.
CounterTrue == crossed \/ failed = wrong
=============================================================================
