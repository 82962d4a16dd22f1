------------------------------ MODULE Sessions ------------------------------
(***************************************************************************)
(* monitor/internal/auth: the admin's row in admin_users and the sessions  *)
(* of the dashboard, and the handlers of monitor/internal/server that use  *)
(* them.  There is one admin.  A request is a goroutine: it reads the row, *)
(* compares hashes outside of any lock and only then enters its result, so *)
(* logins and password changes overlap.                                    *)
(*                                                                         *)
(* A login stands for the session that it opens.  Expired sessions are     *)
(* those that are no longer there; hashing and tokens are left out.        *)
(***************************************************************************)
EXTENDS Integers, FiniteSets

CONSTANTS
    Logins,       \* login requests
    Changes,      \* change-password requests
    Default,      \* the password of the account that is created
    Chosen,       \* passwords that an admin may choose
    Wrong,        \* what is offered by mistake
    MaxFailures,  \* failed logins until the client is locked out
    NoRow

ASSUME SessionsAssumption ==
    /\ MaxFailures \in Nat \ {0}
    /\ Default \notin Chosen
    /\ Wrong \notin Chosen \cup {Default, NoRow} /\ NoRow \notin Chosen \cup {Default}

Passwords == {Default} \cup Chosen

VARIABLES
    password,   \* the password of the row, or NoRow; persistent
    must,       \* its must_change_password; persistent
    login,      \* login[l]: how far l is
    readMust,   \* readMust[l]: must_change_password as l has read it
    sessions,   \* Store.sessions: the logins whose session is open
    restricted, \* those of them with mustChangePassword set
    failures,   \* loginAttempts.failures of the client
    locked,     \* its lockout has not run out
    change      \* change[q]: [step, to], how far q is and the password it sets

row == <<password, must>>
attempts == <<failures, locked>>
authVars == <<row, login, readMust, sessions, restricted, attempts, change>>

SessionsTypeOK ==
    /\ password \in Passwords \cup {NoRow} /\ must \in BOOLEAN
    /\ login \in [Logins -> {"new", "sent", "matched", "done"}]
    /\ readMust \in [Logins -> BOOLEAN]
    /\ restricted \subseteq sessions /\ sessions \subseteq Logins
    /\ failures \in 0 .. MaxFailures - 1 /\ locked \in BOOLEAN
    /\ change \in [Changes -> [step : {"new", "compared", "updated", "done"}, to : Chosen]]

SessionsInit ==
    /\ password = NoRow /\ must = FALSE
    /\ login = [l \in Logins |-> "new"]
    /\ readMust = [l \in Logins |-> FALSE]
    /\ sessions = {} /\ restricted = {}
    /\ failures = 0 /\ locked = FALSE
    /\ change \in [Changes -> [step : {"new"}, to : Chosen]]

\* When the monitor starts.
EnsureDefaultAdmin ==
    /\ password = NoRow
    /\ password' = Default /\ must' = TRUE
    /\ UNCHANGED <<login, readMust, sessions, restricted, attempts, change>>

\* checkLockout; a client that is locked out is answered at once.
CheckLockout(l) ==
    /\ password # NoRow
    /\ login[l] = "new"
    /\ login' = [login EXCEPT ![l] = IF locked THEN "done" ELSE "sent"]
    /\ UNCHANGED <<row, readMust, sessions, restricted, attempts, change>>

\* The failure that makes MaxFailures locks the client out, and the count begins anew.
RecordFailure ==
    /\ failures' = (failures + 1) % MaxFailures
    /\ locked' = (locked \/ failures + 1 = MaxFailures)

\* The row is read and the password offered compared with it.  A failure is counted,
\* also if the client has been locked out in the meantime.
Compare(l, offered) ==
    /\ login[l] = "sent"
    /\ IF offered = password
       THEN /\ login' = [login EXCEPT ![l] = "matched"]
            /\ readMust' = [readMust EXCEPT ![l] = must]
            /\ UNCHANGED attempts
       ELSE /\ login' = [login EXCEPT ![l] = "done"]
            /\ RecordFailure
            /\ UNCHANGED readMust
    /\ UNCHANGED <<row, sessions, restricted, change>>

\* clearFailures forgets the lockout too; the session gets what was read.
OpenSession(l) ==
    /\ login[l] = "matched"
    /\ login' = [login EXCEPT ![l] = "done"]
    /\ failures' = 0 /\ locked' = FALSE
    /\ sessions' = sessions \cup {l}
    /\ restricted' = IF readMust[l] THEN restricted \cup {l} ELSE restricted
    /\ UNCHANGED <<row, readMust, change>>

LockoutEnds ==
    /\ locked
    /\ locked' = FALSE
    /\ UNCHANGED <<row, login, readMust, sessions, restricted, failures, change>>

\* handleLogout, or 24 hours have passed.
EndSession(l) ==
    /\ l \in sessions
    /\ sessions' = sessions \ {l} /\ restricted' = restricted \ {l}
    /\ UNCHANGED <<row, login, readMust, attempts, change>>

---------------------------------------------------------------------------
\* handleChangePassword, open to restricted sessions as well

CompareCurrent(q, current) ==
    /\ change[q].step = "new"
    /\ sessions # {}
    /\ current = password /\ change[q].to # current
    /\ change' = [change EXCEPT ![q].step = "compared"]
    /\ UNCHANGED <<row, login, readMust, sessions, restricted, attempts>>

UpdatePassword(q) ==
    /\ change[q].step = "compared"
    /\ password' = change[q].to /\ must' = FALSE
    /\ change' = [change EXCEPT ![q].step = "updated"]
    /\ UNCHANGED <<login, readMust, sessions, restricted, attempts>>

\* Fault: the sessions are released before the row is written.
ReleaseEarly(q) ==
    /\ change[q].step \in {"compared", "updated"}
    /\ change' = [change EXCEPT ![q].step = IF @ = "updated" THEN "done" ELSE @]
    /\ restricted' = {}
    /\ UNCHANGED <<row, login, readMust, sessions, attempts>>

\* mustChangePassword is cleared in all sessions of the admin.
ReleaseSessions(q) ==
    /\ change[q].step = "updated"
    /\ change' = [change EXCEPT ![q].step = "done"]
    /\ restricted' = {}
    /\ UNCHANGED <<row, login, readMust, sessions, attempts>>

\* requireAuth and requireAuthWS.
Allowed(l) == l \in sessions \ restricted

\* The monitor stops: sessions, attempts and requests are gone, the row is not.
SessionsLost ==
    /\ login' = [l \in Logins |-> IF login[l] = "new" THEN "new" ELSE "done"]
    /\ change' = [q \in Changes |-> IF change[q].step = "new" THEN change[q]
                                    ELSE [change[q] EXCEPT !.step = "done"]]
    /\ readMust' = [l \in Logins |-> FALSE]
    /\ sessions' = {} /\ restricted' = {}
    /\ failures' = 0 /\ locked' = FALSE
    /\ UNCHANGED row

SessionStep ==
    \/ EnsureDefaultAdmin
    \/ LockoutEnds
    \/ \E l \in Logins : CheckLockout(l) \/ OpenSession(l)
    \/ \E l \in Logins, w \in Passwords \cup {Wrong} : Compare(l, w)
    \/ \E q \in Changes : UpdatePassword(q) \/ ReleaseSessions(q)
    \/ \E q \in Changes, w \in Passwords : CompareCurrent(q, w)

\* Nobody acts on the dashboard before the default password is gone: a session that
\* may act exists only once a password has been chosen, whatever logins and changes
\* overlap.
DefaultIsReplaced ==
    sessions \ restricted # {} => password \in Chosen /\ ~must
=============================================================================
