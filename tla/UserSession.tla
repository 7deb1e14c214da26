---------------------------- MODULE UserSession ----------------------------
(***************************************************************************)
(* AuthManager with the windows that drive it: LoginDialog, the lock of    *)
(* MainWindow with SessionLockDialog, UserManagerDialog and the file       *)
(* users.json, over several runs of the program.  Everything runs on the   *)
(* main thread; a modal dialog is a screen.  Time is kept as what is left  *)
(* of a lock and how long ago the last activity was, both up to the limit  *)
(* they are compared with.  The audit log, which nothing reads, is left    *)
(* out.                                                                    *)
(***************************************************************************)
EXTENDS Integers, Sequences, FiniteSets

CONSTANTS
    Names, Passwords,
    Roles,          \* a subset of {"Operator", "Engineer", "Admin"}
    NoUser,
    Files,          \* contents users.json may have at first
    Defaults,       \* kDefaultUsers
    MaxLoginFails,  \* kMaxLoginFails
    LockTime,       \* kLockMs
    IdleLock        \* kIdleLockSeconds

ASSUME LimitsAssumption ==
    MaxLoginFails \in Nat \ {0} /\ LockTime \in Nat \ {0} /\ IdleLock \in Nat \ {0}

VARIABLES
    screen,     \* the window that is open
    users,      \* m_users
    disk,       \* users.json
    session,    \* m_currentUser, m_currentRole, m_loggedIn, m_locked
    winLocked,  \* MainWindow::m_locked
    idle,       \* idleSeconds, up to IdleLock
    fails,      \* m_fails: failures counted and time left of the lock
    ages        \* history: how long ago the last failures of a name were

vars == <<screen, users, disk, session, winLocked, idle, fails, ages>>

UserRec == [password : Passwords, role : Roles, mustChange : BOOLEAN]
Tables == [Names -> UserRec \cup {NoUser}]

ASSUME UsersAssumption ==
    /\ NoUser \notin Names /\ NoUser \notin UserRec
    /\ Files \subseteq Tables /\ Defaults \in Tables

NoSession == [user |-> NoUser, role |-> "Operator", loggedIn |-> FALSE, locked |-> FALSE]
NoFails == [n \in Names |-> [count |-> 0, left |-> 0]]
NoAges == [n \in Names |-> <<>>]

(* loadUsersFromJson: the built-in users stand in for an empty table. *)
LoadUsers(table) == IF \A n \in Names : table[n] = NoUser THEN Defaults ELSE table

(* main: a process starts with the login dialog. *)
Start(table) ==
    /\ screen' = "login"
    /\ users' = LoadUsers(table)
    /\ session' = NoSession
    /\ winLocked' = FALSE
    /\ idle' = 0
    /\ fails' = NoFails
    /\ ages' = NoAges

Init ==
    /\ disk \in Files
    /\ screen = "login"
    /\ users = LoadUsers(disk)
    /\ session = NoSession
    /\ winLocked = FALSE
    /\ idle = 0
    /\ fails = NoFails
    /\ ages = NoAges

-----------------------------------------------------------------------------
(* AuthManager                                                             *)

VerifyPassword(n, pw) == users[n] # NoUser /\ users[n].password = pw

(* Mutant: the lock ends one unit of time early. *)
FailedShort(f) ==
    IF f.count + 1 >= MaxLoginFails THEN [count |-> 0, left |-> LockTime - 1]
                                    ELSE [f EXCEPT !.count = @ + 1]

(* A failure is counted; the last one locks the name and starts over. *)
Failed(f) ==
    IF f.count + 1 >= MaxLoginFails THEN [count |-> 0, left |-> LockTime]
                                    ELSE [f EXCEPT !.count = @ + 1]

(* The failures remembered are one more than a lock takes. *)
Remember(s) == IF Len(s) > MaxLoginFails THEN Append(Tail(s), 0) ELSE Append(s, 0)

(* Session after a login that succeeds. *)
LoggedIn(n) == [user |-> n, role |-> users[n].role, loggedIn |-> TRUE, locked |-> FALSE]

(* login that is refused, by the lock or the password. *)
LoginRejected(n, pw) ==
    /\ screen = "login"
    /\ fails[n].left > 0 \/ ~VerifyPassword(n, pw)
    /\ IF fails[n].left > 0 THEN UNCHANGED <<fails, ages>>
       ELSE /\ fails' = [fails EXCEPT ![n] = Failed(@)]
            /\ ages' = [ages EXCEPT ![n] = Remember(@)]
    /\ UNCHANGED <<screen, users, disk, session, winLocked, idle>>

(* tryLogin: login, then the main window unless the password has to be     *)
(* changed first.                                                          *)
LoginAccepted(n, pw) ==
    /\ screen = "login"
    /\ fails[n].left = 0
    /\ VerifyPassword(n, pw)
    /\ session' = LoggedIn(n)
    /\ idle' = 0
    /\ fails' = [fails EXCEPT ![n] = [count |-> 0, left |-> 0]]
    /\ ages' = [ages EXCEPT ![n] = <<>>]
    /\ screen' = IF users[n].mustChange THEN "change" ELSE "main"
    /\ UNCHANGED <<users, disk, winLocked>>

ChangePassword(n, pw) ==
    users' = [users EXCEPT ![n] = [@ EXCEPT !.password = pw, !.mustChange = FALSE]]

(* forcePasswordChange with a new password. *)
ForcedChange(pw) ==
    /\ screen = "change"
    /\ ChangePassword(session.user, pw)
    /\ screen' = "main"
    /\ UNCHANGED <<disk, session, winLocked, idle, fails, ages>>

(* forcePasswordChange cancelled: logout, and the login dialog again. *)
ForcedChangeCancelled ==
    /\ screen = "change"
    /\ session' = NoSession
    /\ screen' = "login"
    /\ UNCHANGED <<users, disk, winLocked, idle, fails, ages>>

(* The login dialog is cancelled, or the window closed: the process ends   *)
(* and is started again.                                                   *)
QuitAndStart ==
    /\ screen \in {"login", "main"}
    /\ Start(disk)
    /\ UNCHANGED disk

-----------------------------------------------------------------------------
(* MainWindow                                                              *)

DoLock ==
    /\ session.loggedIn /\ ~winLocked
    /\ session' = [session EXCEPT !.locked = TRUE]
    /\ winLocked' = TRUE
    /\ screen' = "locked"
    /\ UNCHANGED <<users, disk, idle, fails, ages>>

(* The lock button. *)
LockClicked == screen = "main" /\ DoLock

(* onStatusTick, which also comes while a dialog is open. *)
StatusTick ==
    /\ screen \in {"main", "locked"}
    /\ idle >= IdleLock
    /\ DoLock

(* Mutant: the window stays marked as locked. *)
UnlockKeepsMark(pw) ==
    /\ screen = "locked"
    /\ session.loggedIn /\ session.locked
    /\ VerifyPassword(session.user, pw)
    /\ session' = [session EXCEPT !.locked = FALSE]
    /\ idle' = 0
    /\ screen' = "main"
    /\ UNCHANGED <<users, disk, winLocked, fails, ages>>

(* unlock in SessionLockDialog; a wrong password changes nothing. *)
Unlock(pw) ==
    /\ screen = "locked"
    /\ session.loggedIn /\ session.locked
    /\ VerifyPassword(session.user, pw)
    /\ session' = [session EXCEPT !.locked = FALSE]
    /\ winLocked' = FALSE
    /\ idle' = 0
    /\ screen' = "main"
    /\ UNCHANGED <<users, disk, fails, ages>>

(* The lock dialog is closed: logout, and the window closes. *)
LockDialogClosed ==
    /\ screen = "locked"
    /\ Start(disk)
    /\ UNCHANGED disk

(* eventFilter: any input restarts the idle timer. *)
TouchActivity ==
    /\ screen \in {"main", "locked"}
    /\ session.loggedIn
    /\ idle' = 0
    /\ UNCHANGED <<screen, users, disk, session, winLocked, fails, ages>>

-----------------------------------------------------------------------------
(* UserManagerDialog, which applyPermissionFilter opens to an Admin        *)

Managing == screen = "main" /\ session.role = "Admin"

AddUser(n, pw, role) ==
    /\ Managing
    /\ users[n] = NoUser
    /\ users' = [users EXCEPT ![n] = [password |-> pw, role |-> role, mustChange |-> FALSE]]
    /\ UNCHANGED <<screen, disk, session, winLocked, idle, fails, ages>>

(* Mutant: one may remove oneself. *)
RemoveAnyUser(n) ==
    /\ Managing
    /\ users[n] # NoUser
    /\ users' = [users EXCEPT ![n] = NoUser]
    /\ UNCHANGED <<screen, disk, session, winLocked, idle, fails, ages>>

RemoveUser(n) ==
    /\ Managing
    /\ n # session.user
    /\ users[n] # NoUser
    /\ users' = [users EXCEPT ![n] = NoUser]
    /\ UNCHANGED <<screen, disk, session, winLocked, idle, fails, ages>>

SetPassword(n, pw) ==
    /\ Managing
    /\ users[n] # NoUser
    /\ ChangePassword(n, pw)
    /\ UNCHANGED <<screen, disk, session, winLocked, idle, fails, ages>>

SaveUsers ==
    /\ Managing
    /\ disk' = users
    /\ UNCHANGED <<screen, users, session, winLocked, idle, fails, ages>>

-----------------------------------------------------------------------------
Older(s) == [i \in DOMAIN s |-> IF s[i] < LockTime THEN s[i] + 1 ELSE LockTime]

ClockTick ==
    /\ idle' = IF session.loggedIn /\ idle < IdleLock THEN idle + 1 ELSE idle
    /\ fails' = [n \in Names |-> [fails[n] EXCEPT !.left = IF @ > 0 THEN @ - 1 ELSE 0]]
    /\ ages' = [n \in Names |-> Older(ages[n])]
    /\ UNCHANGED <<screen, users, disk, session, winLocked>>

Next ==
    \/ \E n \in Names, pw \in Passwords :
          \/ LoginRejected(n, pw) \/ LoginAccepted(n, pw)
          \/ SetPassword(n, pw)
          \/ \E role \in Roles : AddUser(n, pw, role)
    \/ \E n \in Names : RemoveUser(n)
    \/ \E pw \in Passwords : ForcedChange(pw) \/ Unlock(pw)
    \/ ForcedChangeCancelled \/ QuitAndStart \/ LockDialogClosed
    \/ LockClicked \/ StatusTick \/ TouchActivity
    \/ SaveUsers
    \/ ClockTick

(* Time passes and the status timer runs. *)
Fairness == WF_vars(ClockTick) /\ WF_vars(StatusTick)

Spec == Init /\ [][Next]_vars /\ Fairness

-----------------------------------------------------------------------------
(* Properties.                                                             *)

(* Every variable holds a value of its type. *)
TypeOK ==
    /\ screen \in {"login", "change", "main", "locked"}
    /\ users \in Tables /\ disk \in Tables
    /\ session \in [user : Names \cup {NoUser}, role : Roles \cup {"Operator"},
                    loggedIn : BOOLEAN, locked : BOOLEAN]
    /\ winLocked \in BOOLEAN
    /\ idle \in 0 .. IdleLock
    /\ fails \in [Names -> [count : 0 .. MaxLoginFails - 1, left : 0 .. LockTime]]
    /\ ages \in [Names -> Seq(0 .. LockTime)]

(* Behind the login dialog there is a session, of a user who exists and    *)
(* with the role the table gives him, whatever an Admin does to the table; *)
(* and window and manager agree on whether it is locked.                   *)
SessionIsOfAUser ==
    /\ screen \in {"main", "locked", "change"} =>
          /\ session.loggedIn
          /\ users[session.user] # NoUser
          /\ users[session.user].role = session.role
    /\ (screen = "locked") = session.locked
    /\ session.locked = winLocked

(* Nobody works with a password that has to be changed (tryLogin). *)
ChangedBeforeUse == screen \in {"main", "locked"} => ~users[session.user].mustChange

(* Without a success in between, one failure more than the limit takes at  *)
(* least the time of a lock, however attempts, locks and their ends follow *)
(* each other (login).                                                     *)
AttemptsAreLimited ==
    \A n \in Names : Len(ages[n]) = MaxLoginFails + 1 => ages[n][1] >= LockTime

(* A session that is left alone is locked: the window does not stay open   *)
(* without any activity, the second and every later time too (doLock).     *)
IdleIsLocked == (screen = "main") ~> (screen # "main" \/ idle = 0)
=============================================================================
