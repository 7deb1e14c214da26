--------------------------- MODULE ConsoleProofs ---------------------------
(***************************************************************************)
(* Proofs about three parts of the user interface, each for every value of *)
(* its constants: the session (UserSession), the data bus with its views   *)
(* (DataBus) and the alarm centre (AlarmCenter).  They share no state, so  *)
(* each part has an inductive invariant of its own.                        *)
(***************************************************************************)
EXTENDS UserSession, DataBus, AlarmCenter, SequenceTheorems, FiniteSetTheorems, TLAPS

-----------------------------------------------------------------------------
(* The session: who works behind the login dialog.                         *)

(* Behind the login dialog somebody is logged in who is in the table.      *)
InSession ==
    screen \in {"main", "locked", "change"} =>
        /\ session.user \in Names
        /\ session.loggedIn
        /\ users[session.user] # NoUser
        /\ users[session.user].role = session.role

SessionInv ==
    /\ TypeOK
    /\ InSession
    /\ SessionIsOfAUser
    /\ ChangedBeforeUse

(* The built-in users are a table like the one in the file.                *)
LEMMA LoadedTable == ASSUME NEW t \in Tables PROVE LoadUsers(t) \in Tables
  BY UsersAssumption DEF LoadUsers

LEMMA FreshTypes ==
    /\ NoSession \in [user : Names \cup {NoUser}, role : Roles \cup {"Operator"},
                      loggedIn : BOOLEAN, locked : BOOLEAN]
    /\ NoFails \in [Names -> [count : 0 .. MaxLoginFails - 1, left : 0 .. LockTime]]
    /\ NoAges \in [Names -> Seq(0 .. LockTime)]
<1>1. 0 \in 0 .. MaxLoginFails - 1 /\ 0 \in 0 .. LockTime
  BY LimitsAssumption
<1>2. <<>> \in Seq(0 .. LockTime)
  OBVIOUS
<1> QED
  BY <1>1, <1>2 DEF NoSession, NoFails, NoAges

(* A process that starts shows the login dialog to nobody.                 *)
LEMMA StartKeeps ==
    ASSUME NEW t \in Tables, Start(t), disk' \in Tables
    PROVE  SessionInv'
<1>0. /\ users' \in Tables /\ session' = NoSession /\ fails' = NoFails /\ ages' = NoAges
      /\ screen' = "login" /\ winLocked' = FALSE /\ idle' = 0 /\ 0 \in 0 .. IdleLock
  BY LoadedTable, LimitsAssumption DEF Start
<1>1. TypeOK'
  BY <1>0, FreshTypes DEF TypeOK
<1>2. session'.locked = FALSE /\ winLocked' = FALSE /\ screen' = "login"
  BY DEF Start, NoSession
<1> QED
  BY <1>1, <1>2 DEF SessionInv, InSession, SessionIsOfAUser, ChangedBeforeUse

(* A failed login counts below the limit, or locks.                        *)
LEMMA FailedType ==
    ASSUME NEW f \in [count : 0 .. MaxLoginFails - 1, left : 0 .. LockTime]
    PROVE  Failed(f) \in [count : 0 .. MaxLoginFails - 1, left : 0 .. LockTime]
<1>1. CASE f.count + 1 >= MaxLoginFails
  BY <1>1, LimitsAssumption DEF Failed
<1>2. CASE ~(f.count + 1 >= MaxLoginFails)
  <2>1. f.count + 1 \in 0 .. MaxLoginFails - 1
    BY <1>2, LimitsAssumption
  <2>2. \A c \in 0 .. MaxLoginFails - 1 :
           [f EXCEPT !.count = c] \in [count : 0 .. MaxLoginFails - 1, left : 0 .. LockTime]
    OBVIOUS
  <2> QED
    BY <1>2, <2>1, <2>2 DEF Failed
<1> QED
  BY <1>1, <1>2

(* What is remembered of the failures of a name: Remember drops the oldest *)
(* of more than a lock takes and adds a new one.                           *)
LEMMA RememberedSeq ==
    ASSUME NEW s \in Seq(0 .. LockTime), Len(s) <= MaxLoginFails + 1
    PROVE  /\ Remember(s) \in Seq(0 .. LockTime)
           /\ Len(s) <= MaxLoginFails =>
                 /\ Len(Remember(s)) = Len(s) + 1
                 /\ \A i \in 1 .. Len(s) : Remember(s)[i] = s[i]
           /\ Len(s) = MaxLoginFails + 1 =>
                 /\ Len(Remember(s)) = Len(s)
                 /\ \A i \in 1 .. Len(s) - 1 : Remember(s)[i] = s[i + 1]
           /\ Remember(s)[Len(Remember(s))] = 0
<1>1. 0 \in 0 .. LockTime /\ MaxLoginFails \in Nat \ {0} /\ Len(s) \in Nat
  BY LimitsAssumption
<1>2. CASE Len(s) <= MaxLoginFails
  <2>1. Remember(s) = Append(s, 0)
    BY <1>1, <1>2 DEF Remember
  <2> QED
    BY <1>1, <1>2, <2>1
<1>3. CASE Len(s) = MaxLoginFails + 1
  <2>1. Remember(s) = Append(Tail(s), 0) /\ s # <<>>
    BY <1>1, <1>3 DEF Remember
  <2>2. Tail(s) \in Seq(0 .. LockTime) /\ Len(Tail(s)) = Len(s) - 1
    BY <2>1
  <2>3. \A i \in 1 .. Len(s) - 1 : Tail(s)[i] = s[i + 1]
    BY <2>1, <2>2
  <2> QED
    BY <1>1, <1>3, <2>1, <2>2, <2>3
<1> QED
  BY <1>1, <1>2, <1>3

(* Time passes for all failures of a name.                                 *)
LEMMA OlderSeq ==
    ASSUME NEW s \in Seq(0 .. LockTime)
    PROVE  /\ Older(s) \in Seq(0 .. LockTime)
           /\ Len(Older(s)) = Len(s)
           /\ \A i \in 1 .. Len(s) : Older(s)[i] = IF s[i] < LockTime THEN s[i] + 1 ELSE LockTime
<1>1. DOMAIN s = 1 .. Len(s) /\ Len(s) \in Nat
  OBVIOUS
<1>2. \A i \in 1 .. Len(s) : (IF s[i] < LockTime THEN s[i] + 1 ELSE LockTime) \in 0 .. LockTime
  BY LimitsAssumption
<1>3. Older(s) = [i \in 1 .. Len(s) |-> IF s[i] < LockTime THEN s[i] + 1 ELSE LockTime]
  BY <1>1 DEF Older
<1>4. Older(s) \in Seq(0 .. LockTime)
  BY <1>1, <1>2, <1>3
<1> QED
  BY <1>1, <1>3, <1>4

(* Every step keeps the session's invariant.                               *)
LEMMA NextSession ==
    SessionInv /\ (\A n \in Names : Len(ages[n]) <= MaxLoginFails + 1) /\ [Next]_vars => SessionInv'
<1> SUFFICES ASSUME SessionInv, \A n \in Names : Len(ages[n]) <= MaxLoginFails + 1, [Next]_vars
             PROVE SessionInv'
  OBVIOUS
<1> USE LimitsAssumption
<1> DEFINE Sessions == [user : Names \cup {NoUser}, role : Roles \cup {"Operator"},
                        loggedIn : BOOLEAN, locked : BOOLEAN]
           FailRec == [count : 0 .. MaxLoginFails - 1, left : 0 .. LockTime]
<1>t. /\ users \in Tables /\ disk \in Tables /\ session \in Sessions
      /\ winLocked \in BOOLEAN /\ idle \in 0 .. IdleLock
      /\ fails \in [Names -> FailRec] /\ ages \in [Names -> Seq(0 .. LockTime)]
      /\ screen \in {"login", "change", "main", "locked"}
  BY DEF SessionInv, TypeOK
<1>s. /\ InSession
      /\ (screen = "locked") = session.locked
      /\ session.locked = winLocked
      /\ screen \in {"main", "locked"} => ~users[session.user].mustChange
  BY DEF SessionInv, SessionIsOfAUser, ChangedBeforeUse
<1>1. ASSUME NEW n \in Names, NEW pw \in Passwords, LoginRejected(n, pw) PROVE SessionInv'
  <2>1. fails' \in [Names -> FailRec] /\ ages' \in [Names -> Seq(0 .. LockTime)]
    <3>1. CASE fails[n].left > 0
      BY <1>1, <1>t, <3>1 DEF LoginRejected
    <3>2. CASE ~(fails[n].left > 0)
      <4>1. Failed(fails[n]) \in FailRec /\ Remember(ages[n]) \in Seq(0 .. LockTime)
        BY <1>t, FailedType, RememberedSeq
      <4>2. /\ fails' = [fails EXCEPT ![n] = Failed(fails[n])]
            /\ ages' = [ages EXCEPT ![n] = Remember(ages[n])]
        BY <1>1, <3>2 DEF LoginRejected
      <4> QED
        BY <1>t, <4>1, <4>2
    <3> QED
      BY <3>1, <3>2
  <2>2. UNCHANGED <<screen, users, disk, session, winLocked, idle>>
    BY <1>1 DEF LoginRejected
  <2>3. TypeOK'
    BY <1>t, <2>1, <2>2 DEF TypeOK
  <2> QED
    BY <2>2, <2>3 DEF SessionInv, InSession, SessionIsOfAUser, ChangedBeforeUse
<1>2. ASSUME NEW n \in Names, NEW pw \in Passwords, LoginAccepted(n, pw) PROVE SessionInv'
  <2>1. /\ users[n] # NoUser /\ users[n] \in UserRec
        /\ screen = "login" /\ session' = LoggedIn(n)
        /\ screen' = IF users[n].mustChange THEN "change" ELSE "main"
        /\ UNCHANGED <<users, disk, winLocked>> /\ idle' = 0
        /\ fails' = [fails EXCEPT ![n] = [count |-> 0, left |-> 0]]
        /\ ages' = [ages EXCEPT ![n] = <<>>]
    BY <1>2, <1>t DEF LoginAccepted, VerifyPassword, Tables
  <2>2. /\ session' \in Sessions /\ session'.user = n /\ session'.role = users[n].role
        /\ session'.loggedIn = TRUE /\ session'.locked = FALSE
    BY <2>1 DEF LoggedIn, UserRec
  <2>3. fails' \in [Names -> FailRec] /\ ages' \in [Names -> Seq(0 .. LockTime)]
    BY <1>t, <2>1
  <2>4. TypeOK'
    BY <1>t, <2>1, <2>2, <2>3 DEF TypeOK
  <2>5. winLocked = FALSE
    BY <1>s, <1>t, <2>1
  <2> QED
    BY <2>1, <2>2, <2>4, <2>5 DEF SessionInv, InSession, SessionIsOfAUser, ChangedBeforeUse
<1>3. ASSUME NEW n \in Names, NEW r \in UserRec,
             users' = [users EXCEPT ![n] = r],
             UNCHANGED <<disk, session, winLocked, idle, fails, ages>>,
             screen' = screen \/ (screen = "change" /\ screen' = "main" /\ n = session.user),
             screen \in {"main", "change"},
             \/ users[n] = NoUser
             \/ users[n] # NoUser /\ users[n].role = r.role /\ ~r.mustChange
      PROVE  SessionInv'
  <2>1. TypeOK'
    BY <1>3, <1>t DEF TypeOK, Tables
  <2>2. users'[session.user] # NoUser /\ users'[session.user].role = session.role
        /\ session.user \in Names /\ session.loggedIn
    BY <1>3, <1>s, <1>t, UsersAssumption DEF InSession, Tables
  <2>3. screen' = "main" => ~users'[session.user].mustChange
    BY <1>3, <1>s, <1>t DEF InSession, Tables
  <2> QED
    BY <1>3, <1>s, <2>1, <2>2, <2>3 DEF SessionInv, InSession, SessionIsOfAUser, ChangedBeforeUse
<1>4. ASSUME NEW n \in Names, users[n] # NoUser, NEW pw \in Passwords
      PROVE  /\ [users[n] EXCEPT !.password = pw, !.mustChange = FALSE] \in UserRec
             /\ [users[n] EXCEPT !.password = pw, !.mustChange = FALSE].role = users[n].role
             /\ ~[users[n] EXCEPT !.password = pw, !.mustChange = FALSE].mustChange
  <2>1. users[n] \in UserRec
    BY <1>4, <1>t DEF Tables
  <2> QED
    BY <2>1 DEF UserRec
<1>5. ASSUME NEW n \in Names, NEW pw \in Passwords, SetPassword(n, pw) PROVE SessionInv'
  BY <1>3, <1>4, <1>5 DEF SetPassword, ChangePassword, Managing
<1>6. ASSUME NEW pw \in Passwords, ForcedChange(pw) PROVE SessionInv'
  <2>1. session.user \in Names /\ users[session.user] # NoUser /\ screen = "change"
    BY <1>6, <1>s DEF ForcedChange, InSession
  <2> QED
    BY <1>3, <1>4, <1>6, <2>1 DEF ForcedChange, ChangePassword
<1>7. ASSUME NEW n \in Names, NEW pw \in Passwords, NEW role \in Roles, AddUser(n, pw, role)
      PROVE SessionInv'
  <2>1. [password |-> pw, role |-> role, mustChange |-> FALSE] \in UserRec
    BY DEF UserRec
  <2> QED
    BY <1>3, <1>7, <2>1 DEF AddUser, Managing
<1>8. ASSUME NEW n \in Names, RemoveUser(n) PROVE SessionInv'
  <2>1. /\ users' = [users EXCEPT ![n] = NoUser] /\ n # session.user /\ screen = "main"
        /\ UNCHANGED <<screen, disk, session, winLocked, idle, fails, ages>>
    BY <1>8 DEF RemoveUser, Managing
  <2>2. session.user \in Names /\ users'[session.user] = users[session.user]
    BY <1>s, <1>t, <2>1 DEF InSession, Tables
  <2>3. TypeOK'
    BY <1>t, <2>1 DEF TypeOK, Tables
  <2> QED
    BY <1>s, <2>1, <2>2, <2>3 DEF SessionInv, InSession, SessionIsOfAUser, ChangedBeforeUse
<1>9. CASE ForcedChangeCancelled
  <2>1. TypeOK'
    BY <1>9, <1>t, FreshTypes DEF TypeOK, ForcedChangeCancelled
  <2>2. session'.locked = FALSE /\ winLocked' = FALSE /\ screen' = "login"
    BY <1>9, <1>s, <1>t DEF ForcedChangeCancelled, NoSession
  <2> QED
    BY <2>1, <2>2 DEF SessionInv, InSession, SessionIsOfAUser, ChangedBeforeUse
<1>10. CASE QuitAndStart \/ LockDialogClosed
  BY <1>10, <1>t, StartKeeps DEF QuitAndStart, LockDialogClosed
<1>11. CASE LockClicked \/ StatusTick
  <2>1. /\ screen = "main" /\ screen' = "locked" /\ winLocked' = TRUE
        /\ session' = [session EXCEPT !.locked = TRUE]
        /\ UNCHANGED <<users, disk, idle, fails, ages>>
    BY <1>11, <1>s DEF LockClicked, StatusTick, DoLock
  <2>2. /\ session' \in Sessions /\ session'.locked = TRUE
        /\ session'.user = session.user /\ session'.role = session.role
        /\ session'.loggedIn = session.loggedIn
    BY <1>t, <2>1
  <2>3. TypeOK'
    BY <1>t, <2>1, <2>2 DEF TypeOK
  <2> QED
    BY <1>s, <2>1, <2>2, <2>3 DEF SessionInv, InSession, SessionIsOfAUser, ChangedBeforeUse
<1>12. ASSUME NEW pw \in Passwords, Unlock(pw) PROVE SessionInv'
  <2>1. /\ screen = "locked" /\ screen' = "main" /\ winLocked' = FALSE /\ idle' = 0
        /\ session' = [session EXCEPT !.locked = FALSE]
        /\ UNCHANGED <<users, disk, fails, ages>>
    BY <1>12 DEF Unlock
  <2>2. /\ session' \in Sessions /\ session'.locked = FALSE
        /\ session'.user = session.user /\ session'.role = session.role
        /\ session'.loggedIn = session.loggedIn
    BY <1>t, <2>1
  <2>0. 0 \in 0 .. IdleLock
    OBVIOUS
  <2>4. screen' \in {"login", "change", "main", "locked"} /\ winLocked' \in BOOLEAN /\ idle' \in 0 .. IdleLock
    BY <2>0, <2>1, Zenon
  <2>5. /\ users' \in Tables /\ disk' \in Tables
        /\ fails' \in [Names -> FailRec] /\ ages' \in [Names -> Seq(0 .. LockTime)]
    BY <1>t, <2>1
  <2>3. TypeOK'
    BY <2>2, <2>4, <2>5 DEF TypeOK
  <2> QED
    BY <1>s, <2>1, <2>2, <2>3 DEF SessionInv, InSession, SessionIsOfAUser, ChangedBeforeUse
<1>13. CASE TouchActivity
  <2>1. TypeOK'
    BY <1>13, <1>t DEF TypeOK, TouchActivity
  <2> QED
    BY <1>13, <2>1 DEF TouchActivity, SessionInv, InSession, SessionIsOfAUser, ChangedBeforeUse
<1>14. CASE SaveUsers
  <2>1. TypeOK'
    BY <1>14, <1>t DEF TypeOK, SaveUsers
  <2> QED
    BY <1>14, <2>1 DEF SaveUsers, SessionInv, InSession, SessionIsOfAUser, ChangedBeforeUse
<1>15. CASE ClockTick
  <2>1. idle' \in 0 .. IdleLock
    BY <1>15, <1>t DEF ClockTick
  <2>2. fails' \in [Names -> FailRec]
    <3> SUFFICES ASSUME NEW n \in Names
                 PROVE  [fails[n] EXCEPT !.left = IF @ > 0 THEN @ - 1 ELSE 0] \in FailRec
      BY <1>15 DEF ClockTick
    <3>1. (IF fails[n].left > 0 THEN fails[n].left - 1 ELSE 0) \in 0 .. LockTime
      BY <1>t
    <3>2. \A l \in 0 .. LockTime : [fails[n] EXCEPT !.left = l] \in FailRec
      BY <1>t
    <3> QED
      BY <3>1, <3>2
  <2>3. ages' \in [Names -> Seq(0 .. LockTime)]
    BY <1>15, <1>t, OlderSeq DEF ClockTick
  <2>0. UNCHANGED <<screen, users, disk, session, winLocked>>
    BY <1>15 DEF ClockTick
  <2>5. /\ screen' \in {"login", "change", "main", "locked"} /\ users' \in Tables /\ disk' \in Tables
        /\ session' \in Sessions /\ winLocked' \in BOOLEAN
    BY <1>t, <2>0
  <2>4. TypeOK'
    BY <2>1, <2>2, <2>3, <2>5 DEF TypeOK
  <2> QED
    BY <2>0, <2>4 DEF SessionInv, InSession, SessionIsOfAUser, ChangedBeforeUse
<1>16. CASE UNCHANGED vars
  BY <1>16 DEF vars, SessionInv, TypeOK, InSession, SessionIsOfAUser, ChangedBeforeUse
<1> QED
  BY <1>1, <1>2, <1>5, <1>6, <1>7, <1>8, <1>9, <1>10, <1>11, <1>12, <1>13, <1>14, <1>15, <1>16
     DEF Next

-----------------------------------------------------------------------------
(* The session: how often a name may be tried.                             *)

(* Of the failures a (ages, the oldest first) of a name, those the counter *)
(* f.count stands for are the newest, and the one before them locked the   *)
(* name: it is at least as old as what has run off the lock.               *)
FailuresExplained(f, a) ==
    /\ Len(a) <= MaxLoginFails + 1
    /\ f.count <= Len(a)
    /\ \A i, j \in 1 .. Len(a) : i < j => a[i] >= a[j]
    /\ f.count < Len(a) => a[Len(a) - f.count] >= LockTime - f.left
    /\ Len(a) = MaxLoginFails + 1 => a[1] >= LockTime

AttemptInv == \A n \in Names : FailuresExplained(fails[n], ages[n])

(* One more failure, while the name is not locked.                         *)
LEMMA ExplainedFailure ==
    ASSUME NEW f \in [count : 0 .. MaxLoginFails - 1, left : 0 .. LockTime],
           NEW a \in Seq(0 .. LockTime), FailuresExplained(f, a), f.left = 0
    PROVE  FailuresExplained(Failed(f), Remember(a))
<1> USE LimitsAssumption
<1> DEFINE g == Failed(f)
           b == Remember(a)
<1>1. /\ Len(a) \in Nat /\ Len(a) <= MaxLoginFails + 1 /\ f.count <= Len(a)
      /\ f.count \in 0 .. MaxLoginFails - 1
      /\ \A i \in 1 .. Len(a) : a[i] \in 0 .. LockTime
      /\ \A i, j \in 1 .. Len(a) : i < j => a[i] >= a[j]
      /\ f.count < Len(a) => a[Len(a) - f.count] >= LockTime
      /\ Len(a) = MaxLoginFails + 1 => a[1] >= LockTime
  BY DEF FailuresExplained
<1>2. /\ f.count + 1 >= MaxLoginFails => g.count = 0 /\ g.left = LockTime
      /\ f.count + 1 < MaxLoginFails => g.count = f.count + 1 /\ g.left = 0
  BY DEF Failed
<1>3. /\ b \in Seq(0 .. LockTime) /\ b[Len(b)] = 0
      /\ Len(a) <= MaxLoginFails =>
            Len(b) = Len(a) + 1 /\ \A i \in 1 .. Len(a) : b[i] = a[i]
      /\ Len(a) = MaxLoginFails + 1 =>
            Len(b) = Len(a) /\ \A i \in 1 .. Len(a) - 1 : b[i] = a[i + 1]
  BY <1>1, RememberedSeq
<1> HIDE DEF g, b
<1>4. /\ Len(b) \in Nat /\ Len(b) >= 1 /\ Len(b) <= MaxLoginFails + 1
      /\ \A i \in 1 .. Len(b) : b[i] \in 0 .. LockTime
  <2>1. Len(b) \in Nat /\ \A i \in 1 .. Len(b) : b[i] \in 0 .. LockTime
    <3>1. b \in Seq(0 .. LockTime)
      BY <1>3, Zenon
    <3> QED
      BY <3>1
  <2>2. Len(a) <= MaxLoginFails \/ Len(a) = MaxLoginFails + 1
    BY <1>1
  <2> QED
    BY <1>1, <1>3, <2>1, <2>2
<1>5. g.count <= Len(b)
  BY <1>1, <1>2, <1>3, <1>4, SMTT(30)
<1>6. ASSUME NEW i \in 1 .. Len(b), NEW j \in 1 .. Len(b), i < j PROVE b[i] >= b[j]
  <2>1. CASE j = Len(b)
    BY <1>3, <1>4, <2>1
  <2>2. CASE j < Len(b) /\ Len(a) <= MaxLoginFails
    <3>1. i \in 1 .. Len(a) /\ j \in 1 .. Len(a) /\ b[i] = a[i] /\ b[j] = a[j]
      BY <1>1, <1>3, <1>6, <2>2, SMTT(30)
    <3> QED
      BY <1>1, <1>6, <3>1
  <2>3. CASE j < Len(b) /\ Len(a) = MaxLoginFails + 1
    <3>1. /\ i + 1 \in 1 .. Len(a) /\ j + 1 \in 1 .. Len(a) /\ i + 1 < j + 1
          /\ b[i] = a[i + 1] /\ b[j] = a[j + 1]
      BY <1>1, <1>3, <1>6, <2>3
    <3> QED
      BY <1>1, <3>1
  <2> QED
    BY <1>1, <1>4, <2>1, <2>2, <2>3
<1>7. ASSUME g.count < Len(b) PROVE b[Len(b) - g.count] >= LockTime - g.left
  <2>1. CASE f.count + 1 >= MaxLoginFails
    BY <1>2, <1>3, <1>4, <2>1
  <2>2. CASE f.count + 1 < MaxLoginFails /\ Len(a) <= MaxLoginFails
    <3>1. Len(b) - g.count = Len(a) - f.count /\ Len(a) - f.count \in 1 .. Len(a)
      <4>1. Len(b) = Len(a) + 1 /\ g.count = f.count + 1
        BY <1>2, <1>3, <2>2
      <4>2. f.count \in Nat /\ Len(a) \in Nat
        BY <1>1
      <4> QED
        BY <1>7, <4>1, <4>2
    <3>2. b[Len(b) - g.count] = a[Len(a) - f.count]
      BY <1>3, <2>2, <3>1
    <3>3. g.left = 0 /\ f.count < Len(a)
      BY <1>1, <1>2, <2>2, <3>1
    <3>4. a[Len(a) - f.count] >= LockTime /\ LockTime - 0 = LockTime
      BY <1>1, <3>3
    <3> QED
      BY <3>2, <3>3, <3>4, Zenon
  <2>3. CASE f.count + 1 < MaxLoginFails /\ Len(a) = MaxLoginFails + 1
    <3>1. Len(b) = Len(a) /\ g.count = f.count + 1 /\ g.left = 0 /\ f.count < Len(a)
      BY <1>1, <1>2, <1>3, <2>3
    <3>2. a[Len(a) - f.count] >= LockTime
      BY <1>1, <3>1
    <3>3. PICK k \in Nat : k = Len(a) - f.count
      BY <1>1, <3>1
    <3>4. Len(b) - g.count = k - 1 /\ k - 1 \in 1 .. Len(a) - 1
      BY <1>1, <2>3, <3>1, <3>3, SMTT(30)
    <3>5. b[k - 1] = a[k - 1 + 1]
      BY <1>3, <2>3, <3>4
    <3>6. a[k] >= LockTime /\ a[k] = b[k - 1]
      BY <3>2, <3>3, <3>5
    <3> QED
      BY <3>1, <3>4, <3>6
  <2> QED
    BY <1>1, <2>1, <2>2, <2>3
<1>8. ASSUME Len(b) = MaxLoginFails + 1 PROVE b[1] >= LockTime
  <2> DEFINE k == Len(a) - f.count
  <2>1. k \in 1 .. Len(a) /\ a[k] >= LockTime
    BY <1>1, <1>3, <1>8
  <2>2. CASE Len(a) = MaxLoginFails
    <3>1. b[1] = a[1] /\ a[1] >= a[k]
      BY <1>1, <1>3, <2>1, <2>2
    <3> QED
      BY <1>1, <2>1, <3>1
  <2>3. CASE Len(a) = MaxLoginFails + 1
    <3>1. b[1] = a[2] /\ 2 \in 1 .. Len(a) /\ 2 <= k
      BY <1>1, <1>3, <2>3
    <3>2. a[2] >= a[k]
      BY <1>1, <2>1, <3>1
    <3> QED
      BY <1>1, <2>1, <3>1, <3>2
  <2> QED
    BY <1>1, <1>3, <1>8, <2>2, <2>3
<1> QED
  BY <1>4, <1>5, <1>6, <1>7, <1>8 DEF FailuresExplained, g, b

(* The clock takes as much off the lock as it adds to the ages.            *)
LEMMA ExplainedTick ==
    ASSUME NEW f \in [count : 0 .. MaxLoginFails - 1, left : 0 .. LockTime],
           NEW a \in Seq(0 .. LockTime), FailuresExplained(f, a)
    PROVE  FailuresExplained([f EXCEPT !.left = IF @ > 0 THEN @ - 1 ELSE 0], Older(a))
<1> USE LimitsAssumption
<1> DEFINE g == [f EXCEPT !.left = IF @ > 0 THEN @ - 1 ELSE 0]
           b == Older(a)
<1>1. /\ Len(a) \in Nat /\ \A i \in 1 .. Len(a) : a[i] \in 0 .. LockTime
      /\ f.count \in 0 .. MaxLoginFails - 1 /\ f.left \in 0 .. LockTime
  OBVIOUS
<1>2. g.count = f.count /\ g.left = IF f.left > 0 THEN f.left - 1 ELSE 0
  OBVIOUS
<1>3. /\ Len(b) = Len(a)
      /\ \A i \in 1 .. Len(a) : b[i] = IF a[i] < LockTime THEN a[i] + 1 ELSE LockTime
  BY OlderSeq
<1> HIDE DEF g, b
<1>4. /\ \A i \in 1 .. Len(a) : a[i] <= b[i]
      /\ \A i, j \in 1 .. Len(a) : a[i] >= a[j] => b[i] >= b[j]
      /\ \A i \in 1 .. Len(a) : a[i] >= LockTime - f.left => b[i] >= LockTime - g.left
  <2>1. \A i \in 1 .. Len(a) : a[i] <= b[i]
    BY <1>1, <1>3
  <2>2. \A i, j \in 1 .. Len(a) : a[i] >= a[j] => b[i] >= b[j]
    BY <1>1, <1>3
  <2>3. ASSUME NEW i \in 1 .. Len(a), a[i] >= LockTime - f.left PROVE b[i] >= LockTime - g.left
    <3>1. a[i] \in 0 .. LockTime /\ b[i] = IF a[i] < LockTime THEN a[i] + 1 ELSE LockTime
      BY <1>1, <1>3
    <3>2. f.left \in 0 .. LockTime /\ g.left = IF f.left > 0 THEN f.left - 1 ELSE 0
      BY <1>1, <1>2
    <3> QED
      BY <2>3, <3>1, <3>2
  <2> QED
    BY <2>1, <2>2, <2>3
<1>5. FailuresExplained(g, b)
  <2>1. f.count < Len(a) => Len(a) - f.count \in 1 .. Len(a)
    BY <1>1
  <2>2. Len(a) = MaxLoginFails + 1 => 1 \in 1 .. Len(a)
    BY <1>1
  <2>3. \A i \in 1 .. Len(a) : b[i] \in Nat
    BY <1>1, <1>3
  <2> QED
    BY <1>1, <1>2, <1>3, <1>4, <2>1, <2>2, <2>3, SMTT(30) DEF FailuresExplained
<1> QED
  BY <1>5 DEF g, b

(* After a login that succeeds, or in a new process, no failure counts.    *)
LEMMA ExplainedFresh == FailuresExplained([count |-> 0, left |-> 0], <<>>)
<1>1. Len(<<>>) = 0
  OBVIOUS
<1> QED
  BY <1>1, LimitsAssumption DEF FailuresExplained

LEMMA NextAttempt == SessionInv /\ AttemptInv /\ [Next]_vars => AttemptInv'
<1> SUFFICES ASSUME SessionInv, AttemptInv, [Next]_vars PROVE AttemptInv'
  OBVIOUS
<1>t. /\ fails \in [Names -> [count : 0 .. MaxLoginFails - 1, left : 0 .. LockTime]]
      /\ ages \in [Names -> Seq(0 .. LockTime)]
  BY DEF SessionInv, TypeOK
<1>1. CASE UNCHANGED <<fails, ages>>
  BY <1>1 DEF AttemptInv
<1>2. ASSUME NEW n \in Names, NEW pw \in Passwords, LoginRejected(n, pw) PROVE AttemptInv'
  <2>1. CASE fails[n].left > 0
    BY <1>1, <1>2, <2>1 DEF LoginRejected
  <2>2. CASE ~(fails[n].left > 0)
    <3>1. fails[n].left = 0
      BY <1>t, <2>2
    <3>2. FailuresExplained(Failed(fails[n]), Remember(ages[n]))
      BY <1>t, <3>1, ExplainedFailure DEF AttemptInv
    <3>3. /\ fails' = [fails EXCEPT ![n] = Failed(fails[n])]
          /\ ages' = [ages EXCEPT ![n] = Remember(ages[n])]
      BY <1>2, <2>2 DEF LoginRejected
    <3> QED
      BY <1>t, <3>2, <3>3 DEF AttemptInv
  <2> QED
    BY <2>1, <2>2
<1>3. ASSUME NEW n \in Names, NEW pw \in Passwords, LoginAccepted(n, pw) PROVE AttemptInv'
  BY <1>3, <1>t, ExplainedFresh DEF LoginAccepted, AttemptInv
<1>4. CASE QuitAndStart \/ LockDialogClosed
  <2>1. fails' = NoFails /\ ages' = NoAges
    BY <1>4 DEF QuitAndStart, LockDialogClosed, Start
  <2> QED
    BY <2>1, ExplainedFresh DEF AttemptInv, NoFails, NoAges
<1>5. CASE ClockTick
  <2>1. /\ fails' = [n \in Names |-> [fails[n] EXCEPT !.left = IF @ > 0 THEN @ - 1 ELSE 0]]
        /\ ages' = [n \in Names |-> Older(ages[n])]
    BY <1>5 DEF ClockTick
  <2> QED
    BY <1>t, <2>1, ExplainedTick DEF AttemptInv
<1> QED
  BY <1>1, <1>2, <1>3, <1>4, <1>5
     DEF Next, vars, SetPassword, AddUser, RemoveUser, ForcedChange, Unlock, ForcedChangeCancelled,
         LockClicked, StatusTick, DoLock, TouchActivity, SaveUsers

(* Both invariants hold of every session.                                  *)
THEOREM SessionInvariance == Spec => [](SessionInv /\ AttemptInv)
<1>1. Init => SessionInv /\ AttemptInv
  <2> SUFFICES ASSUME Init PROVE SessionInv /\ AttemptInv
    OBVIOUS
  <2>1. /\ disk \in Tables /\ users \in Tables /\ session = NoSession /\ fails = NoFails
        /\ ages = NoAges /\ screen = "login" /\ winLocked = FALSE /\ idle = 0
        /\ 0 \in 0 .. IdleLock
    BY LoadedTable, UsersAssumption, LimitsAssumption DEF Init
  <2>2. TypeOK
    BY <2>1, FreshTypes DEF TypeOK
  <2>3. SessionInv
    BY <2>1, <2>2 DEF SessionInv, InSession, SessionIsOfAUser, ChangedBeforeUse, NoSession
  <2>4. AttemptInv
    BY <2>1, ExplainedFresh DEF AttemptInv, NoFails, NoAges
  <2> QED
    BY <2>3, <2>4
<1>2. AttemptInv => \A n \in Names : Len(ages[n]) <= MaxLoginFails + 1
  BY DEF AttemptInv, FailuresExplained
<1>3. SessionInv /\ AttemptInv /\ [Next]_vars => SessionInv' /\ AttemptInv'
  BY <1>2, NextSession, NextAttempt
<1> QED
  BY <1>1, <1>3, PTL DEF Spec

(* tryLogin, doLock, unlock, UserManagerDialog: whoever works behind the   *)
(* login dialog is a user of the table with the role it gives him, and     *)
(* window and manager agree on the lock.                                   *)
THEOREM SessionsAreOfUsers == Spec => []SessionIsOfAUser
<1>1. SessionInv => SessionIsOfAUser
  BY DEF SessionInv
<1> QED
  BY <1>1, SessionInvariance, PTL

(* tryLogin, forcePasswordChange: nobody works with a password that has to *)
(* be changed.                                                             *)
THEOREM InitialPasswordsAreChanged == Spec => []ChangedBeforeUse
<1>1. SessionInv => ChangedBeforeUse
  BY DEF SessionInv
<1> QED
  BY <1>1, SessionInvariance, PTL

(* login: for every limit and every lock time, one failure more than the   *)
(* limit takes at least the time of a lock.                                *)
THEOREM LoginsAreLimited == Spec => []AttemptsAreLimited
<1>1. AttemptInv => AttemptsAreLimited
  BY DEF AttemptInv, FailuresExplained, AttemptsAreLimited
<1> QED
  BY <1>1, SessionInvariance, PTL

-----------------------------------------------------------------------------
(* The data bus: handles, entries and subscribers.                         *)

Entries == [point : SinkKeys \cup {Wildcard}, sub : Subscribers]

(* The handles that were given out and not yet taken back.                 *)
Live == {handleOf[s] : s \in Subscribers} \ {0}

(* The subscribers that have a handle, and the entries, correspond one to  *)
(* one: the index leads from a handle to its entry, and each entry names   *)
(* the subscriber whose handle leads to it.                                *)
BusInv ==
    /\ nextHandle \in Nat \ {0}
    /\ handleOf \in [Subscribers -> Nat]
    /\ entries \in Seq(Entries)
    /\ handleIndex \in [Live -> 1 .. Len(entries)]
    /\ \A s \in Subscribers : handleOf[s] < nextHandle
    /\ \A s, t \in Subscribers : handleOf[s] = handleOf[t] /\ handleOf[s] # 0 => s = t
    /\ \A s \in Subscribers : handleOf[s] # 0 => entries[handleIndex[handleOf[s]]].sub = s
    /\ \A i \in 1 .. Len(entries) :
          /\ handleOf[entries[i].sub] # 0
          /\ handleIndex[handleOf[entries[i].sub]] = i

(* The last entry takes the place of the one that is removed.              *)
LEMMA SwappedOut ==
    ASSUME NEW S, NEW e \in Seq(S), NEW idx \in 1 .. Len(e)
    PROVE  LET r == SubSeq([e EXCEPT ![idx] = e[Len(e)]], 1, Len(e) - 1)
           IN  /\ r \in Seq(S) /\ Len(r) = Len(e) - 1
               /\ \A i \in 1 .. Len(e) - 1 : r[i] = IF i = idx THEN e[Len(e)] ELSE e[i]
<1> DEFINE f == [e EXCEPT ![idx] = e[Len(e)]]
           r == SubSeq(f, 1, Len(e) - 1)
<1>1. Len(e) \in Nat \ {0} /\ Len(e) \in 1 .. Len(e)
  OBVIOUS
<1>2. e[Len(e)] \in S
  BY <1>1, ElementOfSeq
<1>3. /\ f \in Seq(S) /\ Len(f) = Len(e)
      /\ \A i \in 1 .. Len(e) : f[i] = IF i = idx THEN e[Len(e)] ELSE e[i]
  BY <1>2, ExceptSeq
<1> HIDE DEF f
<1>4. /\ r \in Seq(S) /\ Len(r) = Len(e) - 1
      /\ \A i \in 1 .. Len(e) - 1 : r[i] = f[i]
  BY <1>1, <1>3
<1> HIDE DEF r
<1>5. r \in Seq(S) /\ Len(r) = Len(e) - 1
      /\ \A i \in 1 .. Len(e) - 1 : r[i] = IF i = idx THEN e[Len(e)] ELSE e[i]
  BY <1>1, <1>3, <1>4
<1> QED
  BY <1>5 DEF r, f

LEMMA SubscribeKeeps ==
    ASSUME BusInv, NEW key \in SinkKeys \cup {Wildcard}, NEW sub \in Subscribers, Subscribe(key, sub)
    PROVE  BusInv'
<1> DEFINE new == [point |-> key, sub |-> sub]
           n == Len(entries)
<1>1. /\ handleOf[sub] = 0
      /\ entries' = Append(entries, new)
      /\ handleIndex' = [h \in DOMAIN handleIndex \cup {nextHandle} |->
                            IF h = nextHandle THEN n + 1 ELSE handleIndex[h]]
      /\ handleOf' = [handleOf EXCEPT ![sub] = nextHandle]
      /\ nextHandle' = nextHandle + 1
  BY DEF Subscribe
<1>2. /\ nextHandle \in Nat \ {0} /\ handleOf \in [Subscribers -> Nat]
      /\ entries \in Seq(Entries) /\ n \in Nat
      /\ handleIndex \in [Live -> 1 .. n] /\ DOMAIN handleIndex = Live
  BY DEF BusInv
<1>3. /\ \A s \in Subscribers : handleOf[s] < nextHandle
      /\ \A s, t \in Subscribers : handleOf[s] = handleOf[t] /\ handleOf[s] # 0 => s = t
      /\ \A s \in Subscribers : handleOf[s] # 0 => entries[handleIndex[handleOf[s]]].sub = s
      /\ \A i \in 1 .. n : /\ handleOf[entries[i].sub] # 0
                           /\ handleIndex[handleOf[entries[i].sub]] = i
  BY DEF BusInv
<1>4. \A i \in 1 .. n : entries[i] \in Entries /\ entries[i].sub \in Subscribers
  <2>1. \A i \in 1 .. n : entries[i] \in Entries
    BY <1>2
  <2>2. \A e \in Entries : e.sub \in Subscribers
    BY DEF Entries
  <2> QED
    BY <2>1, <2>2
<1>5. nextHandle \notin Live
  BY <1>2, <1>3 DEF Live
<1>6. Live' = Live \cup {nextHandle}
  <2>1. handleOf'[sub] = nextHandle /\ \A s \in Subscribers \ {sub} : handleOf'[s] = handleOf[s]
    BY <1>1, <1>2
  <2> QED
    BY <1>1, <1>2, <2>1 DEF Live
<1>7. new \in Entries
  BY DEF Entries
<1>8. /\ entries' \in Seq(Entries) /\ Len(entries') = n + 1 /\ entries'[n + 1] = new
      /\ \A i \in 1 .. n : entries'[i] = entries[i]
  BY <1>1, <1>2, <1>7
<1>9. /\ handleIndex'[nextHandle] = n + 1
      /\ \A h \in Live : handleIndex'[h] = handleIndex[h] /\ handleIndex[h] \in 1 .. n
  BY <1>1, <1>2, <1>5
<1>10. /\ handleOf'[sub] = nextHandle
       /\ \A s \in Subscribers \ {sub} : handleOf'[s] = handleOf[s]
       /\ handleOf' \in [Subscribers -> Nat]
  BY <1>1, <1>2
<1>11. handleIndex' \in [Live' -> 1 .. Len(entries')]
  <2>1. \A h \in Live \cup {nextHandle} : (IF h = nextHandle THEN n + 1 ELSE handleIndex[h]) \in 1 .. n + 1
    BY <1>2
  <2> QED
    BY <1>1, <1>2, <1>6, <1>8, <2>1
<1>12. \A s \in Subscribers : handleOf'[s] # 0 => entries'[handleIndex'[handleOf'[s]]].sub = s
  <2> SUFFICES ASSUME NEW s \in Subscribers, handleOf'[s] # 0
               PROVE  entries'[handleIndex'[handleOf'[s]]].sub = s
    OBVIOUS
  <2>1. CASE s = sub
    BY <1>8, <1>9, <1>10, <2>1
  <2>2. CASE s # sub
    <3>1. handleOf'[s] = handleOf[s] /\ handleOf[s] \in Live
      BY <1>10, <2>2 DEF Live
    <3> QED
      BY <1>3, <1>8, <1>9, <3>1
  <2> QED
    BY <2>1, <2>2
<1>13. \A i \in 1 .. n + 1 : /\ handleOf'[entries'[i].sub] # 0
                             /\ handleIndex'[handleOf'[entries'[i].sub]] = i
  <2> SUFFICES ASSUME NEW i \in 1 .. n + 1
               PROVE  /\ handleOf'[entries'[i].sub] # 0
                      /\ handleIndex'[handleOf'[entries'[i].sub]] = i
    OBVIOUS
  <2>1. CASE i = n + 1
    BY <1>2, <1>8, <1>9, <1>10, <2>1
  <2>2. CASE i \in 1 .. n
    <3>1. /\ entries'[i] = entries[i] /\ entries[i].sub \in Subscribers
          /\ handleOf[entries[i].sub] # 0 /\ handleIndex[handleOf[entries[i].sub]] = i
      BY <1>3, <1>4, <1>8, <2>2
    <3>2. entries[i].sub # sub
      BY <1>1, <3>1
    <3>3. handleOf'[entries[i].sub] = handleOf[entries[i].sub] /\ handleOf[entries[i].sub] \in Live
      BY <1>10, <3>1, <3>2 DEF Live
    <3> QED
      BY <1>9, <3>1, <3>3
  <2> QED
    BY <1>2, <2>1, <2>2
<1>14. /\ \A s \in Subscribers : handleOf'[s] < nextHandle'
       /\ \A s, t \in Subscribers : handleOf'[s] = handleOf'[t] /\ handleOf'[s] # 0 => s = t
  BY <1>1, <1>2, <1>3, <1>10
<1>15. nextHandle' \in Nat \ {0}
  BY <1>1, <1>2
<1> QED
  BY <1>8, <1>10, <1>11, <1>12, <1>13, <1>14, <1>15 DEF BusInv

LEMMA UnsubscribeKeeps ==
    ASSUME BusInv, NEW sub \in Subscribers, Unsubscribe(sub)
    PROVE  BusInv'
<1> DEFINE h == handleOf[sub]
           idx == handleIndex[h]
           n == Len(entries)
<1>1. /\ h # 0
      /\ entries' = SubSeq([entries EXCEPT ![idx] = entries[n]], 1, n - 1)
      /\ handleIndex' = [g \in DOMAIN handleIndex \ {h} |-> IF handleIndex[g] = n THEN idx ELSE handleIndex[g]]
      /\ handleOf' = [handleOf EXCEPT ![sub] = 0]
      /\ nextHandle' = nextHandle
  BY DEF Unsubscribe
<1>2. /\ nextHandle \in Nat \ {0} /\ handleOf \in [Subscribers -> Nat]
      /\ entries \in Seq(Entries) /\ n \in Nat
      /\ handleIndex \in [Live -> 1 .. n] /\ DOMAIN handleIndex = Live
  BY DEF BusInv
<1>3. /\ \A s \in Subscribers : handleOf[s] < nextHandle
      /\ \A s, t \in Subscribers : handleOf[s] = handleOf[t] /\ handleOf[s] # 0 => s = t
      /\ \A s \in Subscribers : handleOf[s] # 0 => entries[handleIndex[handleOf[s]]].sub = s
      /\ \A i \in 1 .. n : /\ handleOf[entries[i].sub] # 0
                           /\ handleIndex[handleOf[entries[i].sub]] = i
  BY DEF BusInv
<1>4. \A i \in 1 .. n : entries[i] \in Entries /\ entries[i].sub \in Subscribers
  <2>1. \A i \in 1 .. n : entries[i] \in Entries
    BY <1>2
  <2>2. \A e \in Entries : e.sub \in Subscribers
    BY DEF Entries
  <2> QED
    BY <2>1, <2>2
<1>5. h \in Live /\ idx \in 1 .. n /\ n \in 1 .. n /\ entries[idx].sub = sub
  <2>1. h \in Live
    BY <1>1 DEF Live
  <2>2. idx \in 1 .. n
    BY <1>2, <2>1
  <2>3. n \in 1 .. n
    BY <1>2, <2>2
  <2>4. entries[idx].sub = sub
    BY <1>1, <1>3
  <2> QED
    BY <2>1, <2>2, <2>3, <2>4
<1>6. /\ entries' \in Seq(Entries) /\ Len(entries') = n - 1
      /\ \A i \in 1 .. n - 1 : entries'[i] = IF i = idx THEN entries[n] ELSE entries[i]
  BY <1>1, <1>2, <1>5, SwappedOut
<1>7. /\ handleOf'[sub] = 0
      /\ \A s \in Subscribers \ {sub} : handleOf'[s] = handleOf[s]
      /\ handleOf' \in [Subscribers -> Nat]
  BY <1>1, <1>2
<1>8. Live' = Live \ {h}
  BY <1>1, <1>3, <1>7 DEF Live
<1>9. \A g \in Live \ {h} : /\ handleIndex'[g] = IF handleIndex[g] = n THEN idx ELSE handleIndex[g]
                            /\ handleIndex[g] \in 1 .. n /\ handleIndex[g] # idx
  <2> SUFFICES ASSUME NEW g \in Live \ {h}
               PROVE  /\ handleIndex'[g] = IF handleIndex[g] = n THEN idx ELSE handleIndex[g]
                      /\ handleIndex[g] \in 1 .. n /\ handleIndex[g] # idx
    OBVIOUS
  <2>1. PICK s \in Subscribers : g = handleOf[s] /\ g # 0 /\ s # sub
    BY DEF Live
  <2>2. entries[handleIndex[g]].sub = s
    BY <1>3, <2>1
  <2> QED
    BY <1>1, <1>2, <1>5, <2>1, <2>2
<1>10. handleIndex' \in [Live' -> 1 .. Len(entries')]
  <2>1. \A g \in Live \ {h} : (IF handleIndex[g] = n THEN idx ELSE handleIndex[g]) \in 1 .. n - 1
    BY <1>2, <1>5, <1>9
  <2> QED
    BY <1>1, <1>2, <1>6, <1>8, <2>1
<1>11. \A s \in Subscribers : handleOf'[s] # 0 => entries'[handleIndex'[handleOf'[s]]].sub = s
  <2> SUFFICES ASSUME NEW s \in Subscribers, handleOf'[s] # 0
               PROVE  entries'[handleIndex'[handleOf'[s]]].sub = s
    OBVIOUS
  <2> DEFINE g == handleOf[s]
  <2>1. s # sub /\ handleOf'[s] = g /\ g \in Live \ {h}
    BY <1>1, <1>3, <1>7 DEF Live
  <2>2. entries[handleIndex[g]].sub = s
    BY <1>3, <1>7, <2>1
  <2>3. CASE handleIndex[g] = n
    <3>1. handleIndex'[g] = idx /\ idx \in 1 .. n - 1
      BY <1>2, <1>5, <1>9, <2>1, <2>3
    <3> QED
      BY <1>6, <2>1, <2>2, <2>3, <3>1
  <2>4. CASE handleIndex[g] # n
    <3>1. handleIndex'[g] = handleIndex[g] /\ handleIndex[g] \in 1 .. n - 1 /\ handleIndex[g] # idx
      BY <1>2, <1>9, <2>1, <2>4
    <3> QED
      BY <1>6, <2>1, <2>2, <3>1
  <2> QED
    BY <2>3, <2>4
<1>12. \A i \in 1 .. n - 1 : /\ handleOf'[entries'[i].sub] # 0
                             /\ handleIndex'[handleOf'[entries'[i].sub]] = i
  <2> SUFFICES ASSUME NEW i \in 1 .. n - 1
               PROVE  /\ handleOf'[entries'[i].sub] # 0
                      /\ handleIndex'[handleOf'[entries'[i].sub]] = i
    OBVIOUS
  <2>1. PICK j \in 1 .. n : j = IF i = idx THEN n ELSE i
    BY <1>2, <1>5
  <2>2. entries'[i] = entries[j] /\ j # idx
    BY <1>2, <1>5, <1>6, <2>1
  <2>3. PICK s \in Subscribers : s = entries[j].sub /\ s = entries'[i].sub
    BY <1>4, <2>2
  <2>4. handleOf[s] # 0 /\ handleIndex[handleOf[s]] = j /\ s # sub
    BY <1>3, <2>2, <2>3
  <2>5. handleOf'[s] = handleOf[s] /\ handleOf[s] \in Live \ {h}
    BY <1>3, <1>7, <2>4 DEF Live
  <2>6. handleIndex'[handleOf[s]] = IF j = n THEN idx ELSE j
    BY <1>9, <2>4, <2>5
  <2> QED
    BY <1>2, <2>1, <2>3, <2>4, <2>5, <2>6
<1>13. /\ \A s \in Subscribers : handleOf'[s] < nextHandle'
       /\ \A s, t \in Subscribers : handleOf'[s] = handleOf'[t] /\ handleOf'[s] # 0 => s = t
  BY <1>1, <1>2, <1>3, <1>7
<1> QED
  BY <1>1, <1>2, <1>6, <1>7, <1>10, <1>11, <1>12, <1>13 DEF BusInv

(* The bus is only touched by subscribing and unsubscribing.               *)
LEMMA NextBus == BusInv /\ [BusNext]_busVars => BusInv'
<1> SUFFICES ASSUME BusInv, [BusNext]_busVars PROVE BusInv'
  OBVIOUS
<1>1. CASE UNCHANGED <<entries, handleIndex, handleOf, nextHandle>>
  BY <1>1 DEF BusInv, Live
<1>2. ASSUME NEW key \in SinkKeys, OtherSubscribes("sink", key) PROVE BusInv'
  BY <1>2, SubscribeKeeps DEF OtherSubscribes, Subscribers
<1>3. CASE OtherSubscribes("chart", Wildcard)
  BY <1>3, SubscribeKeeps DEF OtherSubscribes, Subscribers
<1>4. ASSUME NEW sub \in {"sink", "chart"}, OtherUnsubscribes(sub) PROVE BusInv'
  BY <1>4, UnsubscribeKeeps DEF OtherUnsubscribes, Subscribers
<1>5. CASE OverviewOpened
  BY <1>5, SubscribeKeeps DEF OverviewOpened, Subscribers
<1>6. CASE OverviewClosed
  BY <1>6, UnsubscribeKeeps DEF OverviewClosed, Subscribers
<1>7. ASSUME NEW s \in Samples, Broadcast(s[1], s[2]) PROVE BusInv'
  BY <1>1, <1>7 DEF Broadcast
<1>8. CASE RefreshUi
  BY <1>1, <1>8 DEF RefreshUi
<1>9. ASSUME NEW item \in Items, DrillItemChanged(item) PROVE BusInv'
  BY <1>1, <1>9 DEF DrillItemChanged
<1>10. CASE UNCHANGED busVars
  BY <1>1, <1>10 DEF busVars
<1> QED
  BY <1>2, <1>3, <1>4, <1>5, <1>6, <1>7, <1>8, <1>9, <1>10 DEF BusNext

LEMMA InitBus == BusInit => BusInv
<1> SUFFICES ASSUME BusInit PROVE BusInv
  OBVIOUS
<1>1. /\ entries = <<>> /\ handleIndex = <<>> /\ nextHandle = 1
      /\ handleOf = [s \in Subscribers |-> 0]
  BY DEF BusInit
<1>2. Live = {}
  BY <1>1 DEF Live
<1>3. handleIndex \in [Live -> 1 .. Len(entries)]
  BY <1>1, <1>2
<1>4. entries \in Seq(Entries) /\ Len(entries) = 0
  BY <1>1
<1> QED
  BY <1>1, <1>3, <1>4 DEF BusInv

LEMMA CountTo == ASSUME NEW n \in Nat PROVE Cardinality(1 .. n) = n
<1>1. Cardinality(1 .. n) = IF 1 > n THEN 0 ELSE n - 1 + 1
  BY FS_Interval
<1> QED
  BY <1>1

(* The index is one to one, so it has as many values as there are entries. *)
LEMMA BusInvImplies == BusInv => NoEntryOutlivesItsView
<1> SUFFICES ASSUME BusInv PROVE NoEntryOutlivesItsView
  OBVIOUS
<1>1. /\ entries \in Seq(Entries) /\ handleIndex \in [Live -> 1 .. Len(entries)]
      /\ Len(entries) \in Nat /\ DOMAIN entries = 1 .. Len(entries) /\ DOMAIN handleIndex = Live
  BY DEF BusInv
<1>2. /\ \A s \in Subscribers : handleOf[s] # 0 => entries[handleIndex[handleOf[s]]].sub = s
      /\ \A i \in 1 .. Len(entries) : /\ handleOf[entries[i].sub] # 0
                                     /\ handleIndex[handleOf[entries[i].sub]] = i
  BY DEF BusInv
<1>3. \A i \in 1 .. Len(entries) : entries[i].sub \in Subscribers
  <2>1. \A i \in 1 .. Len(entries) : entries[i] \in Entries
    BY <1>1
  <2>2. \A e \in Entries : e.sub \in Subscribers
    BY DEF Entries
  <2> QED
    BY <2>1, <2>2
<1>4. {handleIndex[h] : h \in DOMAIN handleIndex} = 1 .. Len(entries)
  <2>1. \A h \in Live : handleIndex[h] \in 1 .. Len(entries)
    BY <1>1
  <2>2. \A i \in 1 .. Len(entries) : \E h \in Live : handleIndex[h] = i
    BY <1>2, <1>3 DEF Live
  <2> QED
    BY <1>1, <2>1, <2>2
<1>5. Cardinality(1 .. Len(entries)) = Len(entries)
  BY <1>1, CountTo
<1>6. \A s \in Subscribers : handleOf[s] # 0 => handleOf[s] \in Live
  BY DEF Live
<1>7. \A s \in Subscribers : handleOf[s] # 0 => handleIndex[handleOf[s]] \in DOMAIN entries
  BY <1>1, <1>6
<1> QED
  BY <1>1, <1>2, <1>4, <1>5, <1>7 DEF NoEntryOutlivesItsView

(* subscribe, unsubscribeImpl_locked: for every number of subscriptions,   *)
(* in whatever order views come and go, a handle finds the entry of its    *)
(* own subscriber and a broadcast calls into no view that is gone.         *)
THEOREM HandlesFindTheirEntries == BusSpec => []NoEntryOutlivesItsView
  BY InitBus, NextBus, BusInvImplies, PTL DEF BusSpec

-----------------------------------------------------------------------------
(* The alarm centre: what a click on Confirm confirms.                     *)

AlarmStates == [point : {a.point : a \in Alarms}, month : Nat, status : Statuses]

(* The rows that are selected are rows the user saw when he selected them. *)
CenterInv ==
    /\ alarms \in Seq(AlarmStates)
    /\ records \in Seq(Rows)
    /\ {lastRows[k] : k \in selected} \subseteq meant

(* A step that touches only the age or the status of a row or an alarm.    *)
LEMMA RowChanged ==
    ASSUME NEW r \in Rows
    PROVE  /\ \A a \in Nat : [r EXCEPT !.age = a] \in Rows /\ [r EXCEPT !.age = a].status = r.status
           /\ \A s \in Statuses :
                 [r EXCEPT !.status = s] \in Rows /\ [r EXCEPT !.status = s].status = s
  BY DEF Rows

LEMMA AlarmChanged ==
    ASSUME NEW r \in AlarmStates, NEW s \in Statuses
    PROVE  [r EXCEPT !.status = s] \in AlarmStates /\ [r EXCEPT !.status = s].status = s
  BY DEF AlarmStates

(* A step confirms no alarm and no row but those whose number the user saw. *)
SeenConfirmed ==
    /\ \A n \in DOMAIN alarms : Becomes(alarms[n], alarms'[n]) => \E s \in meant : s.id = n
    /\ \A i \in DOMAIN records :
          Becomes(records[i], records'[i]) => \E s \in meant : s.id = records[i].id

(* What stays what it was, or recovers, is not confirmed.                  *)
LEMMA NoneConfirmed ==
    ASSUME \A n \in DOMAIN alarms : alarms'[n].status \in {alarms[n].status, "Recovered"},
           \A i \in DOMAIN records : records'[i].status \in {records[i].status, "Recovered"}
    PROVE  SeenConfirmed
BY DEF SeenConfirmed, Becomes

LEMMA NextCenter == CenterInv /\ [CenterNext]_centerVars => CenterInv' /\ SeenConfirmed
<1> SUFFICES ASSUME CenterInv, [CenterNext]_centerVars PROVE CenterInv' /\ SeenConfirmed
  OBVIOUS
<1>t. /\ records \in Seq(Rows) /\ DOMAIN records = 1 .. Len(records) /\ Len(records) \in Nat
      /\ \A i \in DOMAIN records : records[i] \in Rows
  BY DEF CenterInv
<1>a. /\ alarms \in Seq(AlarmStates) /\ DOMAIN alarms = 1 .. Len(alarms) /\ Len(alarms) \in Nat
      /\ \A n \in DOMAIN alarms : alarms[n] \in AlarmStates
  BY DEF CenterInv
<1>s. {lastRows[k] : k \in selected} \subseteq meant
  BY DEF CenterInv
<1>1. ASSUME UNCHANGED <<alarms, records>> PROVE SeenConfirmed
  BY <1>1, NoneConfirmed
<1>2. ASSUME NEW recs, Query(recs), UNCHANGED meant PROVE {lastRows'[k] : k \in selected'} \subseteq meant'
  BY <1>2 DEF Query, ApplyRows
<1>3. ASSUME NEW alarm \in Alarms, NEW storm \in BOOLEAN, AlarmTriggered(alarm, storm)
      PROVE CenterInv' /\ SeenConfirmed
  <2> DEFINE months == IF Len(records) = 0 THEN {1}
                       ELSE {records[Len(records)].month, records[Len(records)].month + 1} \cap 1 .. LastMonth
             known(m) == [point |-> alarm.point, month |-> m, status |-> "Active"]
             row(m) == [id |-> Len(alarms) + 1, run |-> "this", point |-> alarm.point, level |-> alarm.level,
                        status |-> "Active", age |-> 0, month |-> m]
  <2>1. Insert(alarm) /\ UNCHANGED <<lastRows, selected, meant>>
    BY <1>3 DEF AlarmTriggered
  <2>2. PICK m \in months : /\ alarms' = Append(alarms, known(m))
                            /\ records' \in {records, Append(records, row(m))}
    BY <2>1 DEF Insert
  <2>3. m \in Nat
    <3>1. CASE Len(records) = 0
      BY <3>1
    <3>2. CASE Len(records) # 0
      <4>1. Len(records) \in DOMAIN records
        BY <1>t, <3>2
      <4>2. records[Len(records)].month \in Nat
        BY <1>t, <4>1 DEF Rows
      <4> QED
        BY <3>2, <4>2
    <3> QED
      BY <3>1, <3>2
  <2>4. known(m) \in AlarmStates
    BY <2>3 DEF AlarmStates, Statuses
  <2>5. row(m) \in Rows
    BY <1>a, <2>3 DEF Rows, Statuses
  <2> HIDE DEF known, row, months
  <2>6. alarms' \in Seq(AlarmStates) /\ \A n \in DOMAIN alarms : alarms'[n] = alarms[n]
    BY <1>a, <2>2, <2>4
  <2>7. records' \in Seq(Rows) /\ \A i \in DOMAIN records : records'[i] = records[i]
    <3>1. CASE records' = records
      BY <1>t, <3>1
    <3>2. CASE records' = Append(records, row(m))
      BY <1>t, <2>5, <3>2
    <3> QED
      BY <2>2, <3>1, <3>2
  <2> QED
    BY <1>s, <2>1, <2>6, <2>7, NoneConfirmed DEF CenterInv
<1>4. ASSUME NEW n \in DOMAIN alarms, AlarmRecovered(n) PROVE CenterInv' /\ SeenConfirmed
  <2>1. /\ alarms' = [alarms EXCEPT ![n] = [alarms[n] EXCEPT !.status = "Recovered"]]
        /\ records' = [i \in DOMAIN records |->
                         IF i \in RowsOf(n) THEN [records[i] EXCEPT !.status = "Recovered"] ELSE records[i]]
        /\ UNCHANGED <<lastRows, selected, meant>>
    BY <1>4 DEF AlarmRecovered
  <2>2. /\ [alarms[n] EXCEPT !.status = "Recovered"] \in AlarmStates
        /\ [alarms[n] EXCEPT !.status = "Recovered"].status = "Recovered"
    BY <1>a, AlarmChanged DEF Statuses
  <2>3. /\ alarms' \in Seq(AlarmStates)
        /\ \A j \in DOMAIN alarms : alarms'[j].status \in {alarms[j].status, "Recovered"}
    BY <1>a, <2>1, <2>2, ExceptSeq
  <2>4. \A i \in DOMAIN records : /\ records'[i] \in Rows
                                  /\ records'[i].status \in {records[i].status, "Recovered"}
    BY <1>t, <2>1, RowChanged DEF Statuses
  <2>5. records' \in Seq(Rows)
    <3>1. records' \in [1 .. Len(records) -> Rows]
      BY <1>t, <2>1, <2>4
    <3> QED
      BY <1>t, <3>1
  <2> QED
    BY <1>s, <2>1, <2>3, <2>4, <2>5, NoneConfirmed DEF CenterInv
<1>5. CASE SecondPasses
  <2> DEFINE age(i) == IF records[i].age < MaxAge THEN records[i].age + 1 ELSE records[i].age
  <2>1. /\ records' = [i \in DOMAIN records |-> [records[i] EXCEPT !.age = age(i)]]
        /\ UNCHANGED <<alarms, lastRows, selected, meant>>
    BY <1>5 DEF SecondPasses
  <2>2. \A i \in DOMAIN records : age(i) \in Nat
    BY <1>t DEF Rows
  <2> HIDE DEF age
  <2>3. \A i \in DOMAIN records : records'[i] \in Rows /\ records'[i].status = records[i].status
    BY <1>t, <2>1, <2>2, RowChanged
  <2>4. records' \in Seq(Rows)
    <3>1. records' \in [1 .. Len(records) -> Rows]
      BY <1>t, <2>1, <2>3
    <3> QED
      BY <1>t, <3>1
  <2> QED
    BY <1>a, <1>s, <2>1, <2>3, <2>4, NoneConfirmed DEF CenterInv
<1>6. CASE DebounceTimeout \/ QueryClicked
  <2>1. Query(records) /\ UNCHANGED <<alarms, records, meant>>
    BY <1>6 DEF DebounceTimeout, QueryClicked
  <2> QED
    BY <1>1, <1>2, <1>a, <1>t, <2>1 DEF CenterInv
<1>7. ASSUME NEW chosen \in SUBSET DOMAIN lastRows, SelectRows(chosen) PROVE CenterInv' /\ SeenConfirmed
  BY <1>1, <1>7, <1>a, <1>t DEF SelectRows, CenterInv
<1>8. CASE ConfirmClicked
  <2> DEFINE ids == {lastRows[k].id : k \in selected}
  <2>1. /\ alarms' = Acknowledged(ids) /\ records' = SetConfirmed(ids)
        /\ Query(SetConfirmed(ids)) /\ UNCHANGED meant
    BY <1>8 DEF ConfirmClicked
  <2>2. \A n \in ids : \E s \in meant : s.id = n
    BY <1>s
  <2> HIDE DEF ids
  <2>3. \A n \in DOMAIN alarms : /\ alarms'[n] \in AlarmStates
                                 /\ n \notin ids => alarms'[n] = alarms[n]
    BY <1>a, <2>1, AlarmChanged DEF Acknowledged, Statuses
  <2>4. alarms' \in Seq(AlarmStates)
    <3>1. alarms' \in [1 .. Len(alarms) -> AlarmStates]
      BY <1>a, <2>1, <2>3 DEF Acknowledged
    <3> QED
      BY <1>a, <3>1
  <2>5. \A i \in DOMAIN records : /\ records'[i] \in Rows
                                  /\ records[i].id \notin ids => records'[i] = records[i]
    BY <1>t, <2>1, RowChanged DEF SetConfirmed, RowsOf, Statuses
  <2>6. records' \in Seq(Rows)
    <3>1. records' \in [1 .. Len(records) -> Rows]
      BY <1>t, <2>1, <2>5 DEF SetConfirmed
    <3> QED
      BY <1>t, <3>1
  <2>7. {lastRows'[k] : k \in selected'} \subseteq meant'
    BY <1>2, <2>1
  <2>8. SeenConfirmed
    BY <2>2, <2>3, <2>5 DEF SeenConfirmed, Becomes
  <2> QED
    BY <2>4, <2>6, <2>7, <2>8 DEF CenterInv
<1>9. ASSUME UNCHANGED <<alarms, records, lastRows, selected, meant>> PROVE CenterInv' /\ SeenConfirmed
  BY <1>1, <1>9, <1>a, <1>s, <1>t DEF CenterInv
<1>10. ASSUME NEW f \in Filters, FilterChanged(f) PROVE CenterInv' /\ SeenConfirmed
  BY <1>9, <1>10 DEF FilterChanged
<1>11. ASSUME NEW k \in selected, ReplayClicked(k) PROVE CenterInv' /\ SeenConfirmed
  BY <1>9, <1>11 DEF ReplayClicked
<1>12. CASE ExportClicked \/ ModalClosed \/ PopupClosed \/ UNCHANGED centerVars
  BY <1>9, <1>12 DEF ExportClicked, ModalClosed, PopupClosed, centerVars
<1> QED
  BY <1>3, <1>4, <1>5, <1>6, <1>7, <1>8, <1>10, <1>11, <1>12 DEF CenterNext

(* onConfirmClicked, applyRows, acknowledgeAlarm, onAlarmAcknowledged: a   *)
(* click confirms only alarms and rows that bear the number of a row the   *)
(* user saw and selected, although queries and their timer fill the table  *)
(* anew in between, whatever earlier runs left in the databases and        *)
(* whichever numbers their rows share with the alarms of this one.         *)
THEOREM ConfirmsWhatWasSeen == CenterSpec => OnlyTheSeenAreConfirmed
<1>1. CenterInit => CenterInv
  <2>1. <<>> \in Seq(AlarmStates)
    OBVIOUS
  <2> QED
    BY <2>1, EarlierAssumption DEF CenterInit, CenterInv
<1>2. CenterInv /\ [CenterNext]_centerVars => [SeenConfirmed]_centerVars
  BY NextCenter
<1>3. CenterInv /\ [CenterNext]_centerVars => CenterInv'
  BY NextCenter
<1> QED
  BY <1>1, <1>2, <1>3, PTL DEF CenterSpec, OnlyTheSeenAreConfirmed, SeenConfirmed
=============================================================================
