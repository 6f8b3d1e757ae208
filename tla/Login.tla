-------------------------------- MODULE Login --------------------------------
(***************************************************************************)
(* The panel's password, its sessions and the limiter of logins            *)
(* (internal/auth and the handlers login, logout and changePassword of     *)
(* internal/api/server.go), with the password reset of the command line,   *)
(* which is another process.  Reading the password, verifying it (slow)    *)
(* and writing the session are separate steps; a change of the password    *)
(* is one transaction.  There is one remote address; the clock is the      *)
(* actions WindowEnds, BlockEnds and Expire.                               *)
(***************************************************************************)
EXTENDS Integers, FiniteSets

CONSTANTS
    Browser,      \* clients; each holds the cookie of at most one session
    Password,     \* passwords that are used
    Default,      \* the password of a new panel
    NoPassword,   \* no password
    MaxFailures,  \* failed logins a minute: 5 in the code
    MaxPasswordChanges,   \* bound on changes and resets of the password
    MaxLogins     \* bound on logins

ASSUME LoginAssumption ==
    /\ Default \in Password /\ NoPassword \notin Password
    /\ MaxFailures \in Nat \ {0} /\ MaxPasswordChanges \in Nat /\ MaxLogins \in Nat

VARIABLES
    auth,     \* auth_state: the password and must_change_password
    session,  \* the session each browser holds, if it is still in the table
    visit,    \* the request each browser is in the middle of
    entry,    \* the limiter's entry of the address
    changes, logins

loginVars == <<auth, session, visit, entry, changes, logins>>

\* late: the login had read the password before a change, and wrote its session after.
NoSession == [password |-> NoPassword, restricted |-> FALSE, late |-> FALSE]

NoVisit == [pc |-> "idle", password |-> NoPassword, restricted |-> FALSE, late |-> FALSE]

\* No entry, and what Allow and Failure make of one a minute after its window began.
NewEntry == [open |-> FALSE, failures |-> 0, blocked |-> FALSE]

LoginTypeOK ==
    /\ auth \in [password: Password, mustChange: BOOLEAN]
    /\ session \in [Browser -> [password: Password \cup {NoPassword}, restricted: BOOLEAN, late: BOOLEAN]]
    /\ visit \in [Browser -> [pc: {"idle", "wait", "verify", "insert", "hash"},
                              password: Password \cup {NoPassword}, restricted: BOOLEAN,
                              late: BOOLEAN]]
    /\ entry \in [open: BOOLEAN, failures: Nat, blocked: BOOLEAN]
    /\ changes \in Nat /\ logins \in Nat

LoginInit ==
    /\ auth = [password |-> Default, mustChange |-> TRUE]
    /\ session = [b \in Browser |-> NoSession]
    /\ visit = [b \in Browser |-> NoVisit]
    /\ entry = NewEntry
    /\ changes = 0 /\ logins = 0

-----------------------------------------------------------------------------
\* Limiter.Allow.
Admits == ~entry.blocked /\ entry.failures < MaxFailures

\* The request is let in; its body is still to be read.
Allow(b) ==
    /\ visit[b].pc = "idle" /\ logins < MaxLogins
    /\ Admits
    /\ entry' = [entry EXCEPT !.open = TRUE]
    /\ \E p \in Password :
        visit' = [visit EXCEPT ![b] = [NoVisit EXCEPT !.pc = "wait", !.password = p]]
    /\ logins' = logins + 1
    /\ UNCHANGED <<auth, session, changes>>

\* loginGate lets one login in; another gets LOGIN_BUSY.
GateTaken == \E b \in Browser : visit[b].pc \in {"verify", "insert"}

\* The password and must_change_password are read in one statement, before the slow
\* verification, whose verdict is settled by what was read.
ReadPassword(b) ==
    /\ visit[b].pc = "wait"
    /\ visit' = [visit EXCEPT ![b] =
                    IF GateTaken THEN NoVisit
                    ELSE [pc |-> IF @.password = auth.password THEN "insert" ELSE "verify",
                          password |-> @.password, restricted |-> auth.mustChange, late |-> FALSE]]
    /\ UNCHANGED <<auth, session, entry, changes, logins>>

\* Limiter.Failure, before the gate is left.
Reject(b) ==
    /\ visit[b].pc = "verify"
    /\ entry' = [open |-> TRUE, failures |-> entry.failures + 1,
                 blocked |-> entry.blocked \/ entry.failures + 1 >= MaxFailures]
    /\ visit' = [visit EXCEPT ![b] = NoVisit]
    /\ UNCHANGED <<auth, session, changes, logins>>

Opened(b) ==
    [password |-> visit[b].password, restricted |-> visit[b].restricted, late |-> visit[b].late]

\* The session is written whatever became of the password; Success forgets the failures.
OpenSession(b) ==
    /\ visit[b].pc = "insert"
    /\ session' = [session EXCEPT ![b] = Opened(b)]
    /\ entry' = NewEntry
    /\ visit' = [visit EXCEPT ![b] = NoVisit]
    /\ UNCHANGED <<auth, changes, logins>>

\* A request with a session: requireSession lets it in, and it hashes the new password.
AskChange(b) ==
    /\ visit[b].pc = "idle" /\ session[b] # NoSession /\ changes < MaxPasswordChanges
    /\ \E p \in Password \ {Default} :
        visit' = [visit EXCEPT ![b] = [NoVisit EXCEPT !.pc = "hash", !.password = p]]
    /\ UNCHANGED <<auth, session, entry, changes, logins>>

\* Mutant of Sessions: the sessions are kept.
SessionsKept == session

\* A transaction that writes the password deletes every session.
Sessions == [b \in Browser |-> NoSession]

\* A login that has read the old password does not look again.
Overtaken(v) == [v EXCEPT !.late = v.pc = "insert"]

SetPassword(p, must) ==
    /\ auth' = [password |-> p, mustChange |-> must]
    /\ session' = Sessions
    /\ changes' = changes + 1

ChangePassword(b) ==
    /\ visit[b].pc = "hash" /\ changes < MaxPasswordChanges
    /\ SetPassword(visit[b].password, FALSE)
    /\ visit' = [c \in Browser |-> IF c = b THEN NoVisit ELSE Overtaken(visit[c])]
    /\ UNCHANGED <<entry, logins>>

\* panelctl; the panel keeps running.
ResetPassword ==
    /\ changes < MaxPasswordChanges
    /\ SetPassword(Default, TRUE)
    /\ visit' = [c \in Browser |-> Overtaken(visit[c])]
    /\ UNCHANGED <<entry, logins>>

\* The restore of a backup brings its password back; its sessions it does not.
RestoreAuth ==
    /\ changes < MaxPasswordChanges
    /\ \E p \in Password : SetPassword(p, p = Default)
    /\ visit' = [c \in Browser |-> Overtaken(visit[c])]
    /\ UNCHANGED <<entry, logins>>

\* Logout, or the session has expired.
CloseSession(b) ==
    /\ visit[b].pc = "idle" /\ session[b] # NoSession
    /\ session' = [session EXCEPT ![b] = NoSession]
    /\ UNCHANGED <<auth, visit, entry, changes, logins>>

\* A minute after the window began, everything in the entry is forgotten.
WindowEnds ==
    /\ entry.open /\ entry' = NewEntry
    /\ UNCHANGED <<auth, session, visit, changes, logins>>

BlockEnds ==
    /\ entry.blocked /\ entry' = [entry EXCEPT !.blocked = FALSE]
    /\ UNCHANGED <<auth, session, visit, changes, logins>>

\* The panel restarts: requests and the limiter are gone.
RestartPanel ==
    /\ visit' = [b \in Browser |-> NoVisit] /\ entry' = NewEntry
    /\ UNCHANGED <<auth, session, changes, logins>>

LoginNext ==
    \/ \E b \in Browser :
        \/ Allow(b) \/ ReadPassword(b) \/ Reject(b) \/ OpenSession(b)
        \/ AskChange(b) \/ ChangePassword(b) \/ CloseSession(b)
    \/ ResetPassword \/ RestoreAuth \/ WindowEnds \/ BlockEnds \/ RestartPanel

LoginSpec == LoginInit /\ [][LoginNext]_loginVars

-----------------------------------------------------------------------------
\* After a change, a reset or a restore of the password no session of the old one is left:
\* every session was opened with the present password.  The exception is a login
\* that had read the old password before the change and writes its session after.
\* And the sessions opened with the default password, no others, are restricted to
\* changing it, whichever changes and resets their login overlaps.
SessionsCurrent ==
    \A b \in Browser : session[b] # NoSession =>
        /\ session[b].late \/ session[b].password = auth.password
        /\ session[b].restricted <=> session[b].password = Default
=============================================================================
