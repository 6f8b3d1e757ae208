----------------------------- MODULE PanelProofs -----------------------------
(***************************************************************************)
(* Theorems about three parts of the panel.  Login, for any number of      *)
(* browsers and passwords: the types, and that no session outlives its     *)
(* password.  Backup, for any number of requests and backups: the types,   *)
(* that a restore replaces database and directories together or not at     *)
(* all, whichever of its steps fails, and that the backup it takes first   *)
(* is there when it has damaged the data.  Upgrade, for any number of      *)
(* installs and nodes: the types, and, unless installs of one version      *)
(* overlap, that an install never leaves the runtime without a binary that *)
(* was there before and that the nodes move to the new version together or *)
(* not at all.                                                             *)
(***************************************************************************)
EXTENDS Login, Backup, Upgrade, FiniteSetTheorems, TLAPS

-----------------------------------------------------------------------------
(* Login.                                                                  *)

Session == [password: Password \cup {NoPassword}, restricted: BOOLEAN, late: BOOLEAN]

Visit == [pc: {"idle", "wait", "verify", "insert", "hash"}, password: Password \cup {NoPassword},
          restricted: BOOLEAN, late: BOOLEAN]

LEMMA NoSessionType == NoSession \in Session
  BY DEF NoSession, Session

LEMMA NoVisitType == NoVisit \in Visit
  BY DEF NoVisit, Visit

\* What a step may make of the request of a browser.
LEMMA VisitTypes ==
    ASSUME LoginTypeOK, NEW p \in Password, NEW pc \in {"wait", "hash"}
    PROVE  /\ [NoVisit EXCEPT !.pc = pc, !.password = p] \in Visit
           /\ \A c \in Browser : Overtaken(visit[c]) \in Visit
<1>1. \A c \in Browser : visit[c] \in Visit
  BY DEF LoginTypeOK, Visit
<1>2. QED
  BY <1>1, NoVisitType DEF NoVisit, Visit, Overtaken

Entry == [open: BOOLEAN, failures: Nat, blocked: BOOLEAN]

LEMMA EntryTypes ==
    ASSUME entry \in Entry
    PROVE  /\ NewEntry \in Entry
           /\ [entry EXCEPT !.open = TRUE] \in Entry
           /\ [entry EXCEPT !.blocked = FALSE] \in Entry
  BY DEF NewEntry, Entry

-----------------------------------------------------------------------------
(* Login: the inductive invariant.                                         *)

\* A request that waits, verifies or hashes has a password, and the default one is
\* never chosen as the new one.
VisitsKnown ==
    \A b \in Browser :
        /\ visit[b].pc # "idle" => visit[b].password \in Password
        /\ visit[b].pc = "hash" => visit[b].password # Default

\* must_change_password marks the default password.
DefaultMarked == auth.mustChange <=> auth.password = Default

\* What SessionsCurrent says of sessions holds of logins that are about to write one.
LoginsCurrent ==
    \A b \in Browser : visit[b].pc = "insert" =>
        /\ visit[b].late \/ visit[b].password = auth.password
        /\ visit[b].restricted <=> visit[b].password = Default

LoginInv == LoginTypeOK /\ VisitsKnown /\ DefaultMarked /\ LoginsCurrent /\ SessionsCurrent

LEMMA LoginInitInv == LoginInit => LoginInv
<1> SUFFICES ASSUME LoginInit PROVE LoginInv
  OBVIOUS
<1> USE LoginAssumption
<1>1. session \in [Browser -> Session] /\ visit \in [Browser -> Visit]
  BY NoSessionType, NoVisitType DEF LoginInit
<1>2. entry \in Entry
  BY DEF LoginInit, NewEntry, Entry
<1>3. auth \in [password: Password, mustChange: BOOLEAN] /\ changes \in Nat /\ logins \in Nat
  BY DEF LoginInit
<1>4. LoginTypeOK
  BY <1>1, <1>2, <1>3 DEF LoginTypeOK, Entry, Session, Visit
<1>5. VisitsKnown /\ DefaultMarked /\ LoginsCurrent /\ SessionsCurrent
  BY DEF LoginInit, VisitsKnown, DefaultMarked, LoginsCurrent, SessionsCurrent, NoVisit
<1>6. QED
  BY <1>4, <1>5 DEF LoginInv

\* The types, step by step.
LEMMA LoginTypeStep ==
    ASSUME LoginTypeOK, VisitsKnown, [LoginNext]_loginVars
    PROVE  LoginTypeOK'
<1> USE LoginAssumption
<1>1. /\ session \in [Browser -> Session] /\ visit \in [Browser -> Visit] /\ entry \in Entry
      /\ auth \in [password: Password, mustChange: BOOLEAN] /\ changes \in Nat /\ logins \in Nat
  BY DEF LoginTypeOK, Session, Visit, Entry
<1> SUFFICES /\ session' \in [Browser -> Session] /\ visit' \in [Browser -> Visit]
             /\ entry' \in Entry /\ auth' \in [password: Password, mustChange: BOOLEAN]
             /\ changes' \in Nat /\ logins' \in Nat
  BY DEF LoginTypeOK, Session, Visit, Entry
<1>2. ASSUME NEW b \in Browser, Allow(b) PROVE visit' \in [Browser -> Visit] /\ entry' \in Entry
  BY <1>1, <1>2, VisitTypes, EntryTypes DEF Allow
<1>3. ASSUME NEW b \in Browser, ReadPassword(b) PROVE visit' \in [Browser -> Visit]
  <2>1. visit[b] \in Visit /\ auth.mustChange \in BOOLEAN
    BY <1>1
  <2>2. QED
    BY <1>1, <1>3, <2>1, NoVisitType DEF ReadPassword, Visit
<1>4. ASSUME NEW b \in Browser, Reject(b) PROVE visit' \in [Browser -> Visit] /\ entry' \in Entry
  <2>1. entry.failures + 1 \in Nat /\ entry.blocked \in BOOLEAN
    BY <1>1 DEF Entry
  <2>2. (entry.blocked \/ entry.failures + 1 >= MaxFailures) \in BOOLEAN
    OBVIOUS
  <2>3. entry' \in Entry
    BY <1>4, <2>1, <2>2 DEF Reject, Entry
  <2>4. QED
    BY <1>1, <1>4, <2>3, NoVisitType DEF Reject
<1>5. ASSUME NEW b \in Browser, OpenSession(b)
      PROVE  session' \in [Browser -> Session] /\ visit' \in [Browser -> Visit] /\ entry' \in Entry
  <2>1. Opened(b) \in Session
    BY <1>1 DEF Opened, Visit, Session
  <2>2. QED
    BY <1>1, <1>5, <2>1, NoVisitType, EntryTypes DEF OpenSession
<1>6. ASSUME NEW b \in Browser, AskChange(b) PROVE visit' \in [Browser -> Visit]
  BY <1>1, <1>6, VisitTypes DEF AskChange
<1>7. ASSUME NEW p \in Password, NEW must \in BOOLEAN, SetPassword(p, must)
      PROVE  /\ session' \in [Browser -> Session] /\ changes' \in Nat
             /\ auth' \in [password: Password, mustChange: BOOLEAN]
  BY <1>1, <1>7, NoSessionType DEF SetPassword, Sessions
<1>8. ASSUME NEW b \in Browser, ChangePassword(b) PROVE visit' \in [Browser -> Visit] /\ visit[b].password \in Password
  BY <1>8, NoVisitType, VisitTypes DEF ChangePassword, VisitsKnown
<1>9. CASE ResetPassword \/ RestoreAuth
  <2>1. PICK p \in Password, must \in BOOLEAN : SetPassword(p, must)
    <3>1. CASE ResetPassword
      BY <3>1 DEF ResetPassword
    <3>2. CASE RestoreAuth
      BY <3>2 DEF RestoreAuth
    <3>3. QED
      BY <1>9, <3>1, <3>2
  <2>2. visit' \in [Browser -> Visit] /\ UNCHANGED <<entry, logins>>
    BY <1>9, VisitTypes DEF ResetPassword, RestoreAuth
  <2>3. QED
    BY <1>1, <1>7, <2>1, <2>2
<1>10. ASSUME NEW b \in Browser, CloseSession(b) PROVE session' \in [Browser -> Session]
  BY <1>1, <1>10, NoSessionType DEF CloseSession
<1>11. CASE WindowEnds \/ BlockEnds \/ RestartPanel
  BY <1>1, <1>11, EntryTypes, NoVisitType DEF WindowEnds, BlockEnds, RestartPanel
<1>12. CASE UNCHANGED loginVars
  BY <1>1, <1>12 DEF loginVars
<1>13. ASSUME NEW b \in Browser,
              \/ Allow(b) \/ ReadPassword(b) \/ Reject(b) \/ OpenSession(b)
              \/ AskChange(b) \/ CloseSession(b)
      PROVE  /\ session' \in [Browser -> Session] /\ visit' \in [Browser -> Visit]
             /\ entry' \in Entry /\ auth' = auth /\ changes' = changes /\ logins' \in Nat
  <2>1. CASE Allow(b)
    <3>1. visit' \in [Browser -> Visit] /\ entry' \in Entry
      BY <1>2, <2>1
    <3>2. logins' \in Nat /\ UNCHANGED <<auth, session, changes>>
      BY <1>1, <2>1 DEF Allow
    <3>3. QED
      BY <1>1, <3>1, <3>2
  <2>2. CASE ReadPassword(b)
    BY <1>1, <1>3, <2>2 DEF ReadPassword
  <2>3. CASE Reject(b)
    BY <1>1, <1>4, <2>3 DEF Reject
  <2>4. CASE OpenSession(b)
    BY <1>1, <1>5, <2>4 DEF OpenSession
  <2>5. CASE AskChange(b)
    BY <1>1, <1>6, <2>5 DEF AskChange
  <2>6. CASE CloseSession(b)
    BY <1>1, <1>10, <2>6 DEF CloseSession
  <2>7. QED
    BY <1>13, <2>1, <2>2, <2>3, <2>4, <2>5, <2>6
<1>14. ASSUME NEW b \in Browser, ChangePassword(b)
       PROVE  /\ session' \in [Browser -> Session] /\ visit' \in [Browser -> Visit]
              /\ entry' = entry /\ auth' \in [password: Password, mustChange: BOOLEAN]
              /\ changes' \in Nat /\ logins' = logins
  BY <1>7, <1>8, <1>14 DEF ChangePassword
<1>15. QED
  BY <1>1, <1>9, <1>11, <1>12, <1>13, <1>14 DEF LoginNext

-----------------------------------------------------------------------------
\* A change of the password: no session is left, and logins under way are late.
LEMMA SetPasswordInv ==
    ASSUME LoginInv, LoginTypeOK', NEW p \in Password, NEW must \in BOOLEAN, must <=> p = Default,
           SetPassword(p, must),
           \A c \in Browser : visit'[c] \in {NoVisit, Overtaken(visit[c])}
    PROVE  VisitsKnown' /\ DefaultMarked' /\ LoginsCurrent' /\ SessionsCurrent'
<1>1. auth' = [password |-> p, mustChange |-> must] /\ \A b \in Browser : session'[b] = NoSession
  BY DEF SetPassword, Sessions
<1>2. DefaultMarked' /\ SessionsCurrent'
  BY <1>1 DEF DefaultMarked, SessionsCurrent
<1>3. ASSUME NEW c \in Browser
      PROVE  /\ visit'[c].pc # "idle" => /\ visit'[c].pc = visit[c].pc
                                         /\ visit'[c].password = visit[c].password
                                         /\ visit'[c].restricted = visit[c].restricted
             /\ visit'[c].pc = "insert" => visit'[c].late
  <2>1. visit[c] \in Visit
    BY DEF LoginInv, LoginTypeOK, Visit
  <2>2. CASE visit'[c] = NoVisit
    BY <2>2 DEF NoVisit
  <2>3. CASE visit'[c] = Overtaken(visit[c])
    BY <2>1, <2>3 DEF Overtaken, Visit
  <2>4. QED
    BY <2>2, <2>3
<1>4. VisitsKnown'
  BY <1>3 DEF LoginInv, VisitsKnown
<1>5. LoginsCurrent'
  BY <1>3 DEF LoginInv, LoginsCurrent
<1>6. QED
  BY <1>2, <1>4, <1>5

LEMMA LoginStep ==
    ASSUME LoginInv, [LoginNext]_loginVars
    PROVE  LoginInv'
<1> USE LoginAssumption
<1>1. LoginTypeOK'
  BY LoginTypeStep DEF LoginInv
<1>2. /\ session \in [Browser -> Session] /\ visit \in [Browser -> Visit]
      /\ auth.password \in Password
  BY DEF LoginInv, LoginTypeOK, Session, Visit
<1> SUFFICES VisitsKnown' /\ DefaultMarked' /\ LoginsCurrent' /\ SessionsCurrent'
  BY <1>1 DEF LoginInv
<1>3. ASSUME NEW b \in Browser, Allow(b) \/ AskChange(b)
      PROVE  VisitsKnown' /\ LoginsCurrent' /\ UNCHANGED <<auth, session>>
  <2>1. UNCHANGED <<auth, session>>
    BY <1>3 DEF Allow, AskChange
  <2>2. PICK p \in Password, pc \in {"wait", "hash"} :
            /\ visit' = [visit EXCEPT ![b] = [NoVisit EXCEPT !.pc = pc, !.password = p]]
            /\ pc = "hash" => p # Default
    BY <1>3 DEF Allow, AskChange
  <2>3. QED
    BY <1>2, <2>1, <2>2 DEF LoginInv, VisitsKnown, LoginsCurrent, NoVisit
<1>4. ASSUME NEW b \in Browser, ReadPassword(b)
      PROVE  VisitsKnown' /\ LoginsCurrent' /\ UNCHANGED <<auth, session>>
  BY <1>2, <1>4 DEF ReadPassword, LoginInv, VisitsKnown, LoginsCurrent, DefaultMarked, NoVisit
<1>5. ASSUME NEW b \in Browser, Reject(b)
      PROVE  VisitsKnown' /\ LoginsCurrent' /\ UNCHANGED <<auth, session>>
  BY <1>2, <1>5 DEF Reject, LoginInv, VisitsKnown, LoginsCurrent, NoVisit
<1>6. ASSUME NEW b \in Browser, OpenSession(b)
      PROVE  VisitsKnown' /\ LoginsCurrent' /\ SessionsCurrent' /\ UNCHANGED auth
  <2>1. VisitsKnown' /\ LoginsCurrent' /\ UNCHANGED auth
    BY <1>2, <1>6 DEF OpenSession, LoginInv, VisitsKnown, LoginsCurrent, NoVisit
  <2>2. SessionsCurrent'
    BY <1>2, <1>6 DEF OpenSession, Opened, LoginInv, LoginsCurrent, SessionsCurrent
  <2>3. QED
    BY <2>1, <2>2
<1>7. ASSUME NEW b \in Browser, ChangePassword(b)
      PROVE  VisitsKnown' /\ DefaultMarked' /\ LoginsCurrent' /\ SessionsCurrent'
  <2>1. visit[b].password \in Password /\ visit[b].password # Default
    BY <1>7 DEF ChangePassword, LoginInv, VisitsKnown
  <2>2. QED
    BY <1>1, <1>7, <2>1, SetPasswordInv DEF ChangePassword
<1>8. CASE ResetPassword \/ RestoreAuth
  BY <1>1, <1>8, SetPasswordInv DEF ResetPassword, RestoreAuth
<1>9. ASSUME NEW b \in Browser, CloseSession(b)
      PROVE  SessionsCurrent' /\ UNCHANGED <<auth, visit>>
  BY <1>2, <1>9 DEF CloseSession, LoginInv, SessionsCurrent
<1>10. CASE WindowEnds \/ BlockEnds \/ UNCHANGED loginVars
  BY <1>10 DEF WindowEnds, BlockEnds, loginVars, LoginInv, VisitsKnown, DefaultMarked,
     LoginsCurrent, SessionsCurrent
<1>11. CASE RestartPanel
  BY <1>11 DEF RestartPanel, LoginInv, VisitsKnown, DefaultMarked, LoginsCurrent,
     SessionsCurrent, NoVisit
<1>12. UNCHANGED auth => DefaultMarked'
  BY DEF LoginInv, DefaultMarked
<1>13. UNCHANGED <<auth, session>> => SessionsCurrent'
  BY DEF LoginInv, SessionsCurrent
<1>14. UNCHANGED <<auth, visit>> => VisitsKnown' /\ LoginsCurrent'
  BY DEF LoginInv, VisitsKnown, LoginsCurrent
<1>15. QED
  BY <1>3, <1>4, <1>5, <1>6, <1>7, <1>8, <1>9, <1>10, <1>11, <1>12, <1>13, <1>14 DEF LoginNext

\* Each variable has its type, whatever is in progress when the password changes.
THEOREM LoginTypeCorrect == LoginSpec => []LoginTypeOK
<1>1. LoginInv => LoginTypeOK
  BY DEF LoginInv
<1>2. QED
  BY <1>1, LoginInitInv, LoginStep, PTL DEF LoginSpec

\* Every session was opened with the present password, or by a login that a change of
\* the password overtook, and exactly those of the default password are restricted, for
\* any number of clients that log in and change the password at once.
THEOREM SessionsStayCurrent == LoginSpec => []SessionsCurrent
<1>1. LoginInv => SessionsCurrent
  BY DEF LoginInv
<1>2. QED
  BY <1>1, LoginInitInv, LoginStep, PTL DEF LoginSpec

-----------------------------------------------------------------------------
(* Backup: types.                                                          *)

\* A request that restores knows a backup that was made; another one only makes a
\* backup.
KnownJob(j) ==
    IF j.restores THEN j.id \in Made /\ j.pc # "idle" ELSE j.pc \in {"idle", "files", "register"}

JobInv == BackupTypeOK /\ \A w \in Worker : KnownJob(job[w])

ArchiveType == \E n \in 0 .. MaxArchives : archive \in [1 .. n -> Archive]

\* There are as many backups as the last one's number says.
LEMMA MadeCount ==
    ASSUME NEW n \in Nat, archive \in [1 .. n -> Archive]
    PROVE  Made = 1 .. n /\ Cardinality(Made) = n
  BY FS_Interval DEF Made

\* No request is a request.
LEMMA NoJobType == NoJob \in Job /\ Gone \in Version /\ ~NoJob.restores /\ NoJob.pc = "idle"
  BY BackupAssumption DEF NoJob, NoData, Job, Data, Version, Gone

\* A request that starts.
LEMMA StartedType ==
    ASSUME NEW r \in BOOLEAN, NEW id \in 0 .. MaxArchives, NEW v \in Version
    PROVE  [NoJob EXCEPT !.pc = "files", !.restores = r, !.id = id, !.db = v] \in Job
<1>1. NoJob \in Job
  BY NoJobType
<1>2. QED
  BY <1>1 DEF Job

\* No backup, no request.
LEMMA BackupInitTypes == BackupInit => JobInv
<1> SUFFICES ASSUME BackupInit PROVE JobInv
  OBVIOUS
<1>1. 0 \in 0 .. MaxArchives /\ 0 \in Version /\ Gone \in Version
  BY BackupAssumption DEF Version, Gone
<1>2. archive \in [1 .. 0 -> Archive]
  BY DEF BackupInit
<1>3. data \in Data /\ aside \in [conf: Version, any: Version]
  BY <1>1 DEF BackupInit, Data
<1>4. job \in [Worker -> Job] /\ \A w \in Worker : KnownJob(job[w])
  BY NoJobType DEF BackupInit, KnownJob
<1>5. QED
  BY <1>1, <1>2, <1>3, <1>4 DEF BackupInit, BackupTypeOK, JobInv

\* A removed backup leaves the others what they are.
LEMMA RowTypes ==
    ASSUME ArchiveType, NEW n, archive' = [archive EXCEPT ![n].row = FALSE, ![n].file = FALSE]
    PROVE  /\ ArchiveType' /\ Made' = Made
           /\ \A i \in Made : archive'[i].snap = archive[i].snap
<1>1. PICK m \in 0 .. MaxArchives : archive \in [1 .. m -> Archive]
  BY DEF ArchiveType
<1>2. DOMAIN archive = 1 .. m /\ DOMAIN archive' = 1 .. m
  BY <1>1
<1>3. ASSUME NEW i \in 1 .. m
      PROVE  archive'[i] \in Archive /\ archive'[i].snap = archive[i].snap
  <2>1. archive[i] \in Archive
    BY <1>1
  <2>2. archive'[i] = archive[i] \/ archive'[i] = [archive[i] EXCEPT !.row = FALSE, !.file = FALSE]
    BY <1>1
  <2>3. QED
    BY <2>1, <2>2 DEF Archive
<1>4. archive' = [i \in 1 .. m |-> archive'[i]]
  BY <1>1
<1>5. archive' \in [1 .. m -> Archive]
  BY <1>3, <1>4
<1>6. QED
  BY <1>2, <1>3, <1>5 DEF ArchiveType, Made

\* Every step of request w: what it makes of it is typed and known, the others stay.
Moved(w, r) ==
    /\ job' = [job EXCEPT ![w] = r]
    /\ r \in Job
    /\ IF r.restores THEN r.id \in Made' /\ r.pc # "idle" ELSE r.pc \in {"idle", "files", "register"}

LEMMA MovedTypes ==
    ASSUME JobInv, NEW w \in Worker, NEW r, Moved(w, r), Made \subseteq Made'
    PROVE  job' \in [Worker -> Job] /\ \A v \in Worker : KnownJob(job[v])'
<1>1. job \in [Worker -> Job] /\ \A v \in Worker : KnownJob(job[v])
  BY DEF JobInv, BackupTypeOK
<1>2. job'[w] = r /\ \A v \in Worker \ {w} : job'[v] = job[v]
  BY <1>1 DEF Moved
<1>3. ASSUME NEW v \in Worker PROVE KnownJob(job[v])'
  BY <1>1, <1>2 DEF KnownJob, Moved
<1>4. QED
  BY <1>1, <1>3 DEF Moved

\* A request goes on without looking at anything but its own step.
LEMMA OnMoved ==
    ASSUME JobInv, NEW w \in Worker, job[w].restores, Made' = Made,
           NEW pc \in {"clear", "moveConf", "putConf", "moveAny", "putAny", "load", "tidy"},
           job' = [job EXCEPT ![w].pc = pc]
    PROVE  Moved(w, [job[w] EXCEPT !.pc = pc])
<1>1. job[w] \in Job /\ KnownJob(job[w])
  BY DEF JobInv, BackupTypeOK
<1>2. [job[w] EXCEPT !.pc = pc] \in Job
  BY <1>1 DEF Job
<1>3. QED
  BY <1>1, <1>2 DEF Moved, KnownJob, Job

\* It ends.
LEMMA EndMoved ==
    ASSUME NEW w \in Worker, job' = [job EXCEPT ![w] = NoJob]
    PROVE  Moved(w, NoJob)
  BY NoJobType DEF Moved

\* What a registered backup adds to the archives.
Registered(w) == [row |-> TRUE, file |-> TRUE, snap |-> job[w].snap]

LEMMA AddedTypes ==
    ASSUME JobInv, NEW w \in Worker, Register(w)
    PROVE  \E m \in Nat :
             /\ archive \in [1 .. m -> Archive] /\ Made = 1 .. m /\ Cardinality(Made) = m
             /\ m + 1 \in 0 .. MaxArchives
             /\ archive' \in [1 .. (m + 1) -> Archive] /\ Made' = 1 .. (m + 1)
             /\ Cardinality(Made') = m + 1
             /\ archive'[m + 1] = Registered(w) /\ \A i \in Made : archive'[i] = archive[i]
             /\ pre' = IF job[w].restores /\ Whole(data) THEN m + 1 ELSE pre
<1>1. PICK m \in 0 .. MaxArchives : archive \in [1 .. m -> Archive]
  BY DEF JobInv, BackupTypeOK
<1>2. m \in Nat /\ Made = 1 .. m /\ Cardinality(Made) = m
  BY <1>1, MadeCount, BackupAssumption
<1>3. /\ m + 1 <= MaxArchives
      /\ archive' = [i \in 1 .. (m + 1) |-> IF i < m + 1 THEN archive[i] ELSE Registered(w)]
      /\ pre' = IF job[w].restores /\ Whole(data) THEN m + 1 ELSE pre
  BY <1>2 DEF Register, Registered
<1>4. Registered(w) \in Archive
  BY DEF Registered, Archive, Job, JobInv, BackupTypeOK
<1>5. archive' \in [1 .. (m + 1) -> Archive] /\ Made' = 1 .. (m + 1)
  BY <1>1, <1>2, <1>3, <1>4 DEF Made
<1>6. Cardinality(Made') = m + 1
  <2>1. Cardinality(1 .. (m + 1)) = m + 1
    BY <1>2, FS_Interval
  <2>2. QED
    BY <1>5, <2>1
<1>7. archive'[m + 1] = Registered(w) /\ \A i \in Made : archive'[i] = archive[i]
  BY <1>2, <1>3
<1>8. m + 1 \in 0 .. MaxArchives
  BY <1>2, <1>3, BackupAssumption
<1>9. QED
  BY <1>1, <1>2, <1>3, <1>5, <1>6, <1>7, <1>8

\* The steps that make a backup.
LEMMA MakeTypes ==
    ASSUME JobInv, NEW w \in Worker, StartJob(w) \/ ArchiveFiles(w) \/ Register(w)
    PROVE  JobInv'
<1>0. BackupTypeOK /\ job[w] \in Job /\ KnownJob(job[w])
  BY DEF JobInv, BackupTypeOK
<1>1. PICK m \in 0 .. MaxArchives : archive \in [1 .. m -> Archive]
  BY <1>0 DEF BackupTypeOK
<1>2. m \in Nat /\ Made = 1 .. m /\ Cardinality(Made) = m
  BY <1>1, MadeCount, BackupAssumption
<1>3. CASE StartJob(w)
  <2>1. PICK id \in {0} \cup Made :
           /\ job' = [job EXCEPT ![w] = [NoJob EXCEPT !.pc = "files", !.restores = id # 0,
                                                      !.id = id, !.db = data.db]]
           /\ active' = (active /\ id = 0)
           /\ disturbed' = (disturbed \/ (id # 0 /\ (Restoring \/ ~Whole(archive[id].snap))))
    BY <1>3 DEF StartJob
  <2>2. id \in 0 .. MaxArchives /\ data.db \in Version /\ (id # 0) \in BOOLEAN
    BY <1>0, <1>2, BackupAssumption DEF BackupTypeOK, Data
  <2> DEFINE r == [NoJob EXCEPT !.pc = "files", !.restores = id # 0, !.id = id, !.db = data.db]
  <2>3. r \in Job
    BY <2>2, StartedType
  <2>4. r.pc = "files" /\ r.restores = (id # 0) /\ r.id = id
    BY DEF NoJob
  <2>5. Moved(w, r)
    BY <1>3, <2>1, <2>3, <2>4 DEF Moved, StartJob, Made
  <2>6. active' \in BOOLEAN /\ disturbed' \in BOOLEAN
    BY <2>1, Zenon
  <2>7. job' \in [Worker -> Job] /\ \A v \in Worker : KnownJob(job[v])'
    BY <1>3, <2>5, MovedTypes DEF StartJob, Made
  <2>8. QED
    BY <1>0, <1>3, <2>6, <2>7 DEF StartJob, BackupTypeOK, JobInv
<1>4. CASE ArchiveFiles(w)
  <2> DEFINE d == [data EXCEPT !.db = job[w].db]
             r == [job[w] EXCEPT !.pc = "register", !.snap = d]
  <2>1. d \in Data
    BY <1>0 DEF Data, Job, BackupTypeOK
  <2>2. r \in Job /\ r.pc = "register" /\ r.restores = job[w].restores /\ r.id = job[w].id
    BY <1>0, <2>1 DEF Job
  <2>3. Made' = Made /\ job' = [job EXCEPT ![w] = r]
    BY <1>0, <1>4 DEF ArchiveFiles, Made, BackupTypeOK
  <2>4. Moved(w, r)
    BY <1>0, <2>2, <2>3 DEF Moved, KnownJob
  <2>5. job' \in [Worker -> Job] /\ \A v \in Worker : KnownJob(job[v])'
    BY <2>3, <2>4, MovedTypes
  <2>6. QED
    BY <1>0, <1>4, <2>5 DEF ArchiveFiles, BackupTypeOK, JobInv
<1>5. CASE Register(w)
  <2>1. PICK k \in Nat :
           /\ Made = 1 .. k /\ k + 1 \in 0 .. MaxArchives
           /\ archive' \in [1 .. (k + 1) -> Archive] /\ Made' = 1 .. (k + 1)
           /\ pre' = IF job[w].restores /\ Whole(data) THEN k + 1 ELSE pre
    BY <1>5, AddedTypes
  <2>2. Made \subseteq Made'
    BY <2>1
  <2> DEFINE r == [job[w] EXCEPT !.pc = "check", !.snap = NoData]
  <2>3. Moved(w, IF job[w].restores THEN r ELSE NoJob)
    <3>1. NoData \in Data
      BY NoJobType DEF NoData, Data
    <3>2. r \in Job /\ r.pc = "check" /\ r.restores = job[w].restores /\ r.id = job[w].id
      BY <1>0, <3>1 DEF Job
    <3>3. job' = [job EXCEPT ![w] = IF job[w].restores THEN r ELSE NoJob]
      BY <1>0, <1>5 DEF Register, BackupTypeOK
    <3>4. CASE job[w].restores
      BY <1>0, <2>2, <3>2, <3>3, <3>4 DEF Moved, KnownJob
    <3>5. CASE ~job[w].restores
      BY <3>3, <3>5, NoJobType DEF Moved
    <3>6. QED
      BY <3>4, <3>5
  <2>4. pre' \in 0 .. MaxArchives
    BY <1>0, <2>1 DEF BackupTypeOK
  <2>5. job' \in [Worker -> Job] /\ \A v \in Worker : KnownJob(job[v])'
    BY <2>2, <2>3, MovedTypes
  <2>6. QED
    BY <1>0, <1>5, <2>1, <2>4, <2>5 DEF Register, BackupTypeOK, JobInv
<1>6. QED
  BY <1>3, <1>4, <1>5

\* The steps of a restore.
LEMMA RestoreTypes ==
    ASSUME JobInv, NEW w \in Worker,
           \/ CheckArchive(w) \/ ClearAside(w) \/ MoveConfig(w) \/ PutConfig(w)
           \/ MoveAnyConnect(w) \/ PutAnyConnect(w) \/ LoadDatabase(w) \/ Tidy(w)
    PROVE  JobInv'
<1>0. BackupTypeOK /\ job[w] \in Job /\ KnownJob(job[w]) /\ Gone \in Version /\ data \in Data
  BY NoJobType DEF JobInv, BackupTypeOK
<1>1. PICK m \in 0 .. MaxArchives : archive \in [1 .. m -> Archive]
  BY <1>0 DEF BackupTypeOK
<1>2. archive' = archive /\ Made' = Made /\ UNCHANGED <<pruning, pre, edits, mishaps, deaths, disturbed>>
  BY DEF CheckArchive, ClearAside, MoveConfig, PutConfig, MoveAnyConnect, PutAnyConnect,
         LoadDatabase, Tidy, On, Made
<1>3. CASE CheckArchive(w)
  <2>1. job[w].restores /\ archive[job[w].id].snap \in Data
    BY <1>0, <1>1, <1>3 DEF CheckArchive, KnownJob, Made, Archive
  <2> DEFINE r == [job[w] EXCEPT !.pc = "clear", !.snap = archive[job[w].id].snap]
  <2>2. r \in Job /\ r.restores /\ r.id = job[w].id /\ r.pc = "clear"
    BY <1>0, <2>1 DEF Job
  <2>3. \/ job' = [job EXCEPT ![w] = r]
        \/ job' = [job EXCEPT ![w] = NoJob]
    <3>1. \/ job' = [job EXCEPT ![w].pc = "clear", ![w].snap = archive[job[w].id].snap]
          \/ job' = [job EXCEPT ![w] = NoJob]
      BY <1>3, Zenon DEF CheckArchive, Abandon
    <3>2. QED
      BY <1>0, <3>1 DEF BackupTypeOK
  <2>4. Moved(w, r) \/ Moved(w, NoJob)
    BY <1>0, <1>2, <2>1, <2>2, <2>3, EndMoved DEF Moved, KnownJob
  <2>5. job' \in [Worker -> Job] /\ \A v \in Worker : KnownJob(job[v])'
    BY <1>2, <2>4, MovedTypes
  <2>6. QED
    BY <1>0, <1>2, <1>3, <2>5 DEF CheckArchive, BackupTypeOK, JobInv
<1>4. ASSUME NEW pc \in {"clear", "moveConf", "putConf", "moveAny", "putAny", "load", "tidy"},
             job[w].pc \notin {"idle", "files", "register"},
             job' = [job EXCEPT ![w].pc = pc],
             data' \in Data, aside' \in [conf: Version, any: Version], active' \in BOOLEAN
      PROVE  JobInv'
  <2>1. Moved(w, [job[w] EXCEPT !.pc = pc])
    BY <1>0, <1>2, <1>4, OnMoved DEF KnownJob
  <2>2. job' \in [Worker -> Job] /\ \A v \in Worker : KnownJob(job[v])'
    BY <1>2, <2>1, MovedTypes
  <2>3. QED
    BY <1>0, <1>2, <1>4, <2>2 DEF BackupTypeOK, JobInv
<1>5. CASE ClearAside(w)
  BY <1>0, <1>4, <1>5 DEF ClearAside, On, BackupTypeOK
<1>6. CASE MoveConfig(w)
  BY <1>0, <1>4, <1>6 DEF MoveConfig, On, Data, BackupTypeOK
<1>7. CASE PutConfig(w)
  BY <1>0, <1>4, <1>7 DEF PutConfig, On, Data, Job, BackupTypeOK
<1>8. CASE MoveAnyConnect(w)
  BY <1>0, <1>4, <1>8 DEF MoveAnyConnect, On, Data, BackupTypeOK
<1>9. CASE PutAnyConnect(w)
  BY <1>0, <1>4, <1>9 DEF PutAnyConnect, On, Data, Job, BackupTypeOK
<1>10. CASE LoadDatabase(w)
  BY <1>0, <1>4, <1>10 DEF LoadDatabase, On, Data, Job, BackupTypeOK
<1>11. CASE Tidy(w)
  <2>1. Moved(w, NoJob)
    BY <1>11, EndMoved DEF Tidy, Abandon
  <2>2. job' \in [Worker -> Job] /\ \A v \in Worker : KnownJob(job[v])'
    BY <1>2, <2>1, MovedTypes
  <2>3. QED
    BY <1>0, <1>11, <2>2 DEF Tidy, BackupTypeOK, JobInv
<1>12. QED
  BY <1>3, <1>5, <1>6, <1>7, <1>8, <1>9, <1>10, <1>11

\* What the error paths put back.
LEMMA UndoFields ==
    ASSUME BackupTypeOK, NEW pc
    PROVE  /\ Undo(pc) \in Data
           /\ Undo(pc).db = data.db
           /\ Undo(pc).conf = IF pc \in {"putConf", "moveAny", "putAny", "load"}
                              THEN aside.conf ELSE data.conf
           /\ Undo(pc).any = IF pc \in {"putAny", "load"} THEN aside.any ELSE data.any
<1> DEFINE conf == IF pc \in {"putConf", "moveAny", "putAny", "load"} THEN aside.conf ELSE data.conf
           any == IF pc \in {"putAny", "load"} THEN aside.any ELSE data.any
<1>1. Undo(pc) = [data EXCEPT !.conf = conf, !.any = any]
  BY Zenon DEF Undo
<1>2. conf \in Version /\ any \in Version /\ data \in Data
  BY DEF BackupTypeOK, Data
<1> HIDE DEF conf, any
<1>3. Undo(pc) \in Data /\ Undo(pc).db = data.db /\ Undo(pc).conf = conf /\ Undo(pc).any = any
  BY <1>1, <1>2 DEF Data
<1>4. QED
  BY <1>3 DEF conf, any

\* The steps that are not of one request only, and a request that fails.
LEMMA BackupOtherTypes ==
    ASSUME JobInv,
           \/ EditData \/ PruneList \/ Prune \/ FailPrune \/ DeleteBackup \/ DiePanel
           \/ \E w \in Worker : FailJob(w)
    PROVE  JobInv'
<1>0. BackupTypeOK /\ data \in Data /\ \A w \in Worker : KnownJob(job[w])
  BY DEF JobInv, BackupTypeOK
<1>1. CASE EditData
  <2>1. edits + 1 \in Version /\ edits' \in Nat
    BY <1>0, <1>1, BackupAssumption DEF EditData, Version, BackupTypeOK
  <2>2. data' \in Data
    BY <1>1, <2>1 DEF EditData, Data
  <2>3. disturbed' \in BOOLEAN
    BY <1>1, Zenon DEF EditData
  <2>4. QED
    BY <1>0, <1>1, <2>1, <2>2, <2>3 DEF EditData, BackupTypeOK, JobInv, KnownJob, Made
<1>2. ASSUME NEW n, RemoveArchive(n), disturbed' \in BOOLEAN, pruning' \subseteq pruning PROVE JobInv'
  <2>1. ArchiveType' /\ Made' = Made
    <3>1. ArchiveType
      BY <1>0 DEF BackupTypeOK, ArchiveType
    <3>2. archive' = [archive EXCEPT ![n].row = FALSE, ![n].file = FALSE]
      BY <1>2 DEF RemoveArchive
    <3>3. QED
      BY <3>1, <3>2, RowTypes
  <2>2. pruning' \in SUBSET (1 .. MaxArchives)
    BY <1>0, <1>2 DEF BackupTypeOK
  <2>3. QED
    BY <1>0, <1>2, <2>1, <2>2 DEF RemoveArchive, ArchiveType, BackupTypeOK, JobInv, KnownJob
<1>3. CASE Prune
  BY <1>0, <1>2, <1>3 DEF Prune, BackupTypeOK
<1>4. CASE DeleteBackup
  <2>1. PICK n \in Listed : /\ RemoveArchive(n) /\ UNCHANGED pruning
                            /\ disturbed' = (disturbed \/ n = pre)
    BY <1>4 DEF DeleteBackup
  <2>2. disturbed' \in BOOLEAN
    BY <2>1, Zenon
  <2>3. QED
    BY <1>2, <2>1, <2>2
<1>5. CASE DiePanel
  BY <1>0, <1>5, NoJobType DEF DiePanel, BackupTypeOK, JobInv, KnownJob, Made
<1>6. ASSUME NEW w \in Worker, FailJob(w) PROVE JobInv'
  <2>1. data' \in Data /\ mishaps' \in Nat
    BY <1>0, <1>6, UndoFields DEF FailJob, BackupTypeOK
  <2>2. Moved(w, NoJob)
    BY <1>6, EndMoved DEF FailJob, Abandon
  <2>3. job' \in [Worker -> Job] /\ \A v \in Worker : KnownJob(job[v])'
    BY <1>6, <2>2, MovedTypes DEF FailJob, Made
  <2>4. QED
    BY <1>0, <1>6, <2>1, <2>3 DEF FailJob, BackupTypeOK, JobInv
<1>7. CASE PruneList \/ FailPrune
  <2>1. PICK m \in 0 .. MaxArchives : archive \in [1 .. m -> Archive]
    BY <1>0 DEF BackupTypeOK
  <2>2. Listed \subseteq 1 .. MaxArchives
    BY <2>1, BackupAssumption DEF Listed, Made
  <2>3. pruning' \subseteq 1 .. MaxArchives
    <3>1. pruning' \subseteq Listed
      BY <1>7, Zenon DEF PruneList, FailPrune
    <3>2. QED
      BY <2>2, <3>1
  <2>4. mishaps' \in Nat
    BY <1>0, <1>7 DEF PruneList, FailPrune, BackupTypeOK
  <2>5. QED
    BY <1>0, <1>7, <2>3, <2>4 DEF PruneList, FailPrune, BackupTypeOK, JobInv, KnownJob, Made
<1>8. QED
  BY <1>1, <1>3, <1>4, <1>5, <1>6, <1>7

\* Every step.
LEMMA BackupStepTypes ==
    ASSUME JobInv, [BackupNext]_backupVars
    PROVE  JobInv'
<1>1. CASE UNCHANGED backupVars
  BY <1>1 DEF backupVars, JobInv, BackupTypeOK, KnownJob, Made
<1>2. QED
  BY <1>1, MakeTypes, RestoreTypes, BackupOtherTypes DEF BackupNext
-----------------------------------------------------------------------------
(* Backup: restores.                                                       *)

\* What a restore that has come to j.pc has made of the data and of what is aside.
Under(j) ==
    /\ j.pc \in {"clear", "moveConf", "putConf", "moveAny", "putAny", "load", "tidy"} => Whole(j.snap)
    /\ j.pc \in {"files", "register", "check", "clear", "moveConf", "tidy"} => Whole(data)
    /\ j.pc \in {"putConf", "moveAny", "putAny", "load"} => aside.conf = data.db /\ data.db # Gone
    /\ j.pc \in {"putConf", "moveAny"} => data.any = data.db
    /\ j.pc \in {"putAny", "load"} => aside.any = data.db
    /\ j.pc \in {"moveAny", "putAny", "load"} => data.conf = j.snap.db
    /\ j.pc = "load" => data.any = j.snap.db

\* RestoreAtomic made inductive: as long as nothing has come between, one restore is in
\* progress at most, of a whole backup, and what is live and what is aside are what its
\* steps so far have made of whole data.
Sound ==
    ~disturbed /\ deaths = 0 =>
        /\ \A v, w \in Worker : job[v].restores /\ job[w].restores => v = w
        /\ \A w \in Worker : job[w].restores => Whole(archive[job[w].id].snap) /\ Under(job[w])
        /\ ~Restoring => Whole(data)

SoundInv == JobInv /\ Sound

\* The data is whole, and there is no request.
LEMMA InitSound == BackupInit => Sound
  BY NoJobType DEF BackupInit, Sound, Restoring, Whole, Gone

\* A step of one request that keeps restores apart.
LEMMA RequestSound ==
    ASSUME SoundInv, NEW w \in Worker, \A v \in Worker \ {w} : job'[v] = job[v],
           ~disturbed' /\ deaths' = 0 => ~disturbed /\ deaths = 0,
           \A i \in Made : archive'[i].snap = archive[i].snap,
           ~disturbed' /\ deaths' = 0 /\ job'[w].restores =>
               /\ ~job[w].restores => ~Restoring
               /\ Whole(archive'[job'[w].id].snap) /\ Under(job[w])',
           ~disturbed' /\ deaths' = 0 /\ ~job'[w].restores =>
               \/ ~job[w].restores /\ UNCHANGED <<data, aside>>
               \/ job[w].restores /\ Whole(data')
    PROVE  Sound'
<1> SUFFICES ASSUME ~disturbed', deaths' = 0 PROVE Sound'
  BY DEF Sound
<1>1. \A v \in Worker : KnownJob(job[v])
  BY DEF SoundInv, JobInv
<1>2. /\ \A u, v \in Worker : job[u].restores /\ job[v].restores => u = v
      /\ \A v \in Worker : job[v].restores => Whole(archive[job[v].id].snap) /\ Under(job[v])
      /\ ~Restoring => Whole(data)
  BY DEF SoundInv, Sound
<1>3. CASE job'[w].restores
  <2>1. \A v \in Worker \ {w} : ~job'[v].restores
    BY <1>2, <1>3 DEF Restoring
  <2>2. QED
    BY <1>3, <2>1 DEF Sound, Restoring
<1>4. CASE ~job'[w].restores /\ job[w].restores
  <2>1. \A v \in Worker : ~job'[v].restores
    BY <1>2, <1>4
  <2>2. QED
    BY <1>4, <2>1 DEF Sound, Restoring
<1>5. CASE ~job'[w].restores /\ ~job[w].restores
  <2>1. UNCHANGED <<data, aside>> /\ \A v \in Worker : job'[v].restores => v # w /\ job[v].restores
    BY <1>5
  <2>2. ASSUME NEW v \in Worker, job'[v].restores
        PROVE  Whole(archive'[job'[v].id].snap) /\ Under(job[v])'
    <3>1. job'[v] = job[v] /\ job[v].restores /\ job[v].id \in Made
      BY <1>1, <2>1, <2>2 DEF KnownJob
    <3>2. Whole(archive'[job'[v].id].snap)
      BY <1>2, <3>1
    <3>3. Under(job[v])'
      BY <1>2, <2>1, <3>1 DEF Under, Whole
    <3>4. QED
      BY <3>2, <3>3
  <2>3. ~Restoring' => Whole(data')
    BY <1>2, <1>5, <2>1 DEF Restoring
  <2>4. QED
    BY <1>2, <2>1, <2>2, <2>3 DEF Sound
<1>6. QED
  BY <1>3, <1>4, <1>5

\* The steps that make a backup.
LEMMA MakeSound ==
    ASSUME SoundInv, NEW w \in Worker, StartJob(w) \/ ArchiveFiles(w) \/ Register(w)
    PROVE  Sound'
<1>0. /\ BackupTypeOK /\ job \in [Worker -> Job] /\ job[w] \in Job /\ KnownJob(job[w])
      /\ ~disturbed /\ deaths = 0 /\ ~Restoring => Whole(data)
      /\ ~disturbed /\ deaths = 0 /\ job[w].restores =>
            Whole(archive[job[w].id].snap) /\ Under(job[w])
  BY DEF SoundInv, Sound, JobInv, BackupTypeOK
<1>1. CASE StartJob(w)
  <2>1. PICK id \in {0} \cup Made :
           /\ job' = [job EXCEPT ![w] = [NoJob EXCEPT !.pc = "files", !.restores = id # 0,
                                                      !.id = id, !.db = data.db]]
           /\ disturbed' = (disturbed \/ (id # 0 /\ (Restoring \/ ~Whole(archive[id].snap))))
    BY <1>1 DEF StartJob
  <2>2. /\ job'[w].pc = "files" /\ job'[w].restores = (id # 0) /\ job'[w].id = id
        /\ \A v \in Worker \ {w} : job'[v] = job[v]
    BY <1>0, <2>1 DEF NoJob
  <2>3. ~job[w].restores
    BY <1>0, <1>1 DEF StartJob, KnownJob
  <2>4. ~disturbed' => ~disturbed
    BY <2>1
  <2>5. ~disturbed' /\ job'[w].restores => ~Restoring /\ Whole(archive[job'[w].id].snap)
    BY <2>1, <2>2
  <2>6. ~disturbed' /\ deaths' = 0 /\ job'[w].restores => Under(job[w])'
    BY <1>0, <1>1, <2>2, <2>4, <2>5 DEF StartJob, Under, Whole
  <2>7. QED
    BY <1>1, <2>2, <2>3, <2>4, <2>5, <2>6, RequestSound DEF StartJob
<1>2. CASE ArchiveFiles(w)
  <2>1. /\ job'[w].pc = "register" /\ job'[w].restores = job[w].restores /\ job'[w].id = job[w].id
        /\ \A v \in Worker \ {w} : job'[v] = job[v]
    BY <1>0, <1>2 DEF ArchiveFiles, Job
  <2>2. UNCHANGED <<archive, data, aside, disturbed, deaths>> /\ job[w].pc = "files"
    BY <1>2 DEF ArchiveFiles
  <2>3. ~disturbed /\ deaths = 0 /\ job[w].restores =>
            Whole(archive'[job'[w].id].snap) /\ Under(job[w])'
    BY <1>0, <2>1, <2>2 DEF Under, Whole
  <2>4. QED
    BY <2>1, <2>2, <2>3, RequestSound
<1>3. CASE Register(w)
  <2>1. /\ job[w].restores => job'[w].pc = "check" /\ job'[w].id = job[w].id /\ job'[w].restores
        /\ ~job[w].restores => ~job'[w].restores
        /\ \A v \in Worker \ {w} : job'[v] = job[v]
    BY <1>0, <1>3, NoJobType DEF Register, Job
  <2>2. \A i \in Made : archive'[i].snap = archive[i].snap
    BY <1>3, AddedTypes DEF SoundInv
  <2>3. job[w].restores => job[w].id \in Made
    BY <1>0 DEF KnownJob
  <2>4. job[w].pc = "register" /\ UNCHANGED <<data, aside, disturbed, deaths>>
    BY <1>3 DEF Register
  <2>5. ~disturbed /\ deaths = 0 /\ job[w].restores =>
            Whole(archive'[job'[w].id].snap) /\ Under(job[w])'
    <3> SUFFICES ASSUME ~disturbed, deaths = 0, job[w].restores
                 PROVE  Whole(archive'[job'[w].id].snap) /\ Under(job[w])'
      OBVIOUS
    <3>1. Whole(archive'[job'[w].id].snap)
      BY <1>0, <2>1, <2>2, <2>3
    <3>2. Under(job[w])'
      BY <1>0, <2>1, <2>4 DEF Under, Whole
    <3>3. QED
      BY <3>1, <3>2
  <2>6. QED
    BY <2>1, <2>2, <2>4, <2>5, RequestSound
<1>4. QED
  BY <1>1, <1>2, <1>3

\* A restore goes on: of the request only the step changes.
LEMMA OnFields ==
    ASSUME JobInv, NEW w \in Worker, NEW from, NEW pc, On(w, from, pc),
           from \notin {"idle", "files", "register"}
    PROVE  /\ job[w].pc = from /\ job[w].restores /\ job[w].id \in Made
           /\ job'[w].pc = pc /\ job'[w].restores /\ job'[w].id = job[w].id
           /\ job'[w].snap = job[w].snap
           /\ \A v \in Worker \ {w} : job'[v] = job[v]
  BY DEF JobInv, BackupTypeOK, KnownJob, On, Job

\* What the step leaves must be what the next one expects.
LEMMA OnSound ==
    ASSUME SoundInv, NEW w \in Worker, NEW from, NEW pc, On(w, from, pc),
           from \notin {"idle", "files", "register"}, UNCHANGED archive,
           Under(job[w]) => Under(job[w])'
    PROVE  Sound'
<1>1. JobInv /\ Sound
  BY DEF SoundInv
<1>2. UNCHANGED <<disturbed, deaths>>
  BY DEF On
<1>3. /\ job[w].restores /\ job'[w].restores /\ job'[w].id = job[w].id
      /\ \A v \in Worker \ {w} : job'[v] = job[v]
  BY <1>1, OnFields
<1>4. ~disturbed /\ deaths = 0 => Whole(archive'[job'[w].id].snap) /\ Under(job[w])'
  BY <1>1, <1>3 DEF Sound
<1>5. QED
  BY <1>2, <1>3, <1>4, RequestSound

\* The steps of a restore.
LEMMA RestoreSound ==
    ASSUME SoundInv, NEW w \in Worker,
           \/ CheckArchive(w) \/ ClearAside(w) \/ MoveConfig(w) \/ PutConfig(w)
           \/ MoveAnyConnect(w) \/ PutAnyConnect(w) \/ LoadDatabase(w) \/ Tidy(w)
    PROVE  Sound'
<1>0. JobInv /\ Sound /\ data \in Data /\ aside \in [conf: Version, any: Version]
  BY DEF SoundInv, JobInv, BackupTypeOK
<1>1. CASE CheckArchive(w)
  <2>1. /\ job \in [Worker -> Job] /\ job[w] \in Job /\ job[w].restores
        /\ job[w].id \in Made /\ job[w].pc = "check"
    BY <1>0, <1>1 DEF CheckArchive, JobInv, BackupTypeOK, KnownJob
  <2>2. UNCHANGED <<data, aside, archive, disturbed, deaths>>
    BY <1>1 DEF CheckArchive
  <2>3. \/ job' = [job EXCEPT ![w].pc = "clear", ![w].snap = archive[job[w].id].snap]
        \/ job' = [job EXCEPT ![w] = NoJob]
    BY <1>1, Zenon DEF CheckArchive, Abandon
  <2>4. \A v \in Worker \ {w} : job'[v] = job[v]
    BY <2>1, <2>3
  <2>5. ~disturbed /\ deaths = 0 =>
            Whole(data) /\ Whole(archive[job[w].id].snap)
    BY <1>0, <2>1 DEF Sound, Under
  <2>6. CASE job' = [job EXCEPT ![w].pc = "clear", ![w].snap = archive[job[w].id].snap]
    <3>1. /\ job'[w].pc = "clear" /\ job'[w].snap = archive[job[w].id].snap
          /\ job'[w].id = job[w].id /\ job'[w].restores
      BY <2>1, <2>6 DEF Job
    <3>2. ~disturbed /\ deaths = 0 => Under(job[w])' /\ Whole(archive'[job'[w].id].snap)
      BY <2>2, <2>5, <3>1 DEF Under, Whole
    <3>3. QED
      BY <2>1, <2>2, <2>4, <3>1, <3>2, RequestSound
  <2>7. CASE job' = [job EXCEPT ![w] = NoJob]
    <3>1. ~job'[w].restores
      BY <2>1, <2>7, NoJobType
    <3>2. ~disturbed /\ deaths = 0 => Whole(data')
      BY <2>2, <2>5
    <3>3. QED
      BY <2>1, <2>2, <2>4, <3>1, <3>2, RequestSound
  <2>8. QED
    BY <2>3, <2>6, <2>7
<1>2. CASE ClearAside(w)
  <2>1. On(w, "clear", "moveConf") /\ data' = data /\ archive' = archive
    BY <1>2 DEF ClearAside, On
  <2>2. Under(job[w]) => Under(job[w])'
    BY <1>0, <2>1, OnFields DEF Under, Whole
  <2>3. QED
    BY <2>1, <2>2, OnSound
<1>3. CASE MoveConfig(w)
  <2>1. /\ On(w, "moveConf", "putConf") /\ archive' = archive
        /\ aside'.conf = data.conf /\ data'.db = data.db /\ data'.any = data.any
    BY <1>0, <1>3 DEF MoveConfig, On, Data
  <2>2. Under(job[w]) => Under(job[w])'
    BY <1>0, <2>1, OnFields DEF Under, Whole
  <2>3. QED
    BY <2>1, <2>2, OnSound
<1>4. CASE PutConfig(w)
  <2>1. /\ On(w, "putConf", "moveAny") /\ archive' = archive /\ aside' = aside
        /\ data'.conf = job[w].snap.conf /\ data'.db = data.db /\ data'.any = data.any
    BY <1>0, <1>4 DEF PutConfig, On, Data
  <2>2. Under(job[w]) => Under(job[w])'
    BY <1>0, <2>1, OnFields DEF Under, Whole
  <2>3. QED
    BY <2>1, <2>2, OnSound
<1>5. CASE MoveAnyConnect(w)
  <2>1. /\ On(w, "moveAny", "putAny") /\ archive' = archive
        /\ aside'.any = data.any /\ aside'.conf = aside.conf
        /\ data'.conf = data.conf /\ data'.db = data.db
    BY <1>0, <1>5 DEF MoveAnyConnect, On, Data
  <2>2. Under(job[w]) => Under(job[w])'
    BY <1>0, <2>1, OnFields DEF Under, Whole
  <2>3. QED
    BY <2>1, <2>2, OnSound
<1>6. CASE PutAnyConnect(w)
  <2>1. /\ On(w, "putAny", "load") /\ archive' = archive /\ aside' = aside
        /\ data'.any = job[w].snap.any /\ data'.conf = data.conf /\ data'.db = data.db
    BY <1>0, <1>6 DEF PutAnyConnect, On, Data
  <2>2. Under(job[w]) => Under(job[w])'
    BY <1>0, <2>1, OnFields DEF Under, Whole
  <2>3. QED
    BY <2>1, <2>2, OnSound
<1>7. CASE LoadDatabase(w)
  <2>1. /\ On(w, "load", "tidy") /\ archive' = archive /\ aside' = aside
        /\ data'.db = job[w].snap.db /\ data'.conf = data.conf /\ data'.any = data.any
    BY <1>0, <1>7 DEF LoadDatabase, On, Data
  <2>2. Under(job[w]) => Under(job[w])'
    BY <1>0, <2>1, OnFields DEF Under, Whole
  <2>3. QED
    BY <2>1, <2>2, OnSound
<1>8. CASE Tidy(w)
  <2>1. /\ job[w].restores /\ job[w].pc = "tidy" /\ job' = [job EXCEPT ![w] = NoJob]
        /\ UNCHANGED <<data, archive, disturbed, deaths>>
    BY <1>0, <1>8 DEF Tidy, Abandon, JobInv, KnownJob
  <2>2. ~job'[w].restores /\ \A v \in Worker \ {w} : job'[v] = job[v]
    BY <1>0, <2>1, NoJobType DEF JobInv, BackupTypeOK
  <2>3. ~disturbed /\ deaths = 0 => Whole(data')
    BY <1>0, <2>1 DEF Sound, Under
  <2>4. QED
    BY <2>1, <2>2, <2>3, RequestSound
<1>9. QED
  BY <1>1, <1>2, <1>3, <1>4, <1>5, <1>6, <1>7, <1>8

\* A request that fails puts back what it has moved; edits and deletions do not touch
\* what a restore works with, and after a death nothing is claimed.
LEMMA OtherSound ==
    ASSUME SoundInv,
           \/ EditData \/ PruneList \/ Prune \/ FailPrune \/ DeleteBackup \/ DiePanel
           \/ \E w \in Worker : FailJob(w)
    PROVE  Sound'
<1>0. JobInv /\ Sound /\ BackupTypeOK /\ data \in Data /\ job \in [Worker -> Job]
  BY DEF SoundInv, JobInv, BackupTypeOK
<1>1. CASE EditData
  <2>1. ~disturbed' => NoJobs
    BY <1>1, Zenon DEF EditData
  <2>2. NoJobs => \A w \in Worker : ~job[w].restores
    BY <1>0 DEF NoJobs, JobInv, KnownJob
  <2>3. Whole(data') /\ job' = job
    BY <1>0, <1>1 DEF EditData, Whole, Gone, BackupTypeOK
  <2>4. QED
    BY <2>1, <2>2, <2>3 DEF Sound
<1>2. ASSUME NEW n, RemoveArchive(n), ~disturbed' => ~disturbed PROVE Sound'
  <2>1. \A i \in Made : archive'[i].snap = archive[i].snap
    <3>1. ArchiveType
      BY <1>0 DEF BackupTypeOK, ArchiveType
    <3>2. archive' = [archive EXCEPT ![n].row = FALSE, ![n].file = FALSE]
      BY <1>2 DEF RemoveArchive
    <3>3. QED
      BY <3>1, <3>2, RowTypes
  <2>2. UNCHANGED <<data, aside, job, deaths>>
    BY <1>2 DEF RemoveArchive
  <2>3. \A w \in Worker : job[w].restores => job[w].id \in Made
    BY <1>0 DEF JobInv, KnownJob
  <2>4. QED
    BY <1>0, <1>2, <2>1, <2>2, <2>3 DEF Sound, Restoring, Under, Whole
<1>3. CASE Prune
  BY <1>2, <1>3 DEF Prune
<1>4. CASE DeleteBackup
  BY <1>2, <1>4 DEF DeleteBackup
<1>5. CASE DiePanel
  <2>1. deaths' # 0
    BY <1>0, <1>5 DEF DiePanel, BackupTypeOK
  <2>2. QED
    BY <2>1 DEF Sound
<1>6. ASSUME NEW w \in Worker, FailJob(w) PROVE Sound'
  <2>1. /\ UNCHANGED <<aside, archive, disturbed, deaths>> /\ job' = [job EXCEPT ![w] = NoJob]
        /\ data' = Undo(job[w].pc) /\ job[w].pc \notin {"idle", "tidy"}
    BY <1>6 DEF FailJob, Abandon
  <2>2. ~job'[w].restores /\ \A v \in Worker \ {w} : job'[v] = job[v]
    BY <1>0, <2>1, NoJobType
  <2>3. CASE job[w].restores
    <3>1. ~disturbed /\ deaths = 0 => Under(job[w])
      BY <1>0, <2>3 DEF Sound
    <3>2. job[w].pc \in {"files", "register", "check", "clear", "moveConf", "putConf", "moveAny",
                          "putAny", "load"}
      BY <1>0, <2>1 DEF Job
    <3>3. ~disturbed /\ deaths = 0 => Whole(data')
      BY <1>0, <2>1, <3>1, <3>2, UndoFields DEF Under, Whole
    <3>4. QED
      BY <2>1, <2>2, <2>3, <3>3, RequestSound
  <2>4. CASE ~job[w].restores
    <3>1. job[w].pc \in {"files", "register"}
      BY <1>0, <2>1, <2>4 DEF JobInv, KnownJob
    <3>2. data' = data
      <4>1. data'.db = data.db /\ data'.conf = data.conf /\ data'.any = data.any /\ data' \in Data
        BY <1>0, <2>1, <3>1, UndoFields
      <4>2. QED
        BY <1>0, <4>1 DEF Data
    <3>3. QED
      BY <2>1, <2>2, <2>4, <3>2, RequestSound
  <2>5. QED
    BY <2>3, <2>4
<1>7. CASE PruneList \/ FailPrune
  BY <1>0, <1>7 DEF PruneList, FailPrune, Sound, Restoring, Under, Whole
<1>8. QED
  BY <1>1, <1>3, <1>4, <1>5, <1>6, <1>7

\* Every step.
LEMMA StepSound ==
    ASSUME SoundInv, [BackupNext]_backupVars
    PROVE  Sound'
<1>1. CASE UNCHANGED backupVars
  BY <1>1 DEF backupVars, SoundInv, Sound, Restoring, Under, Whole
<1>2. QED
  BY <1>1, MakeSound, RestoreSound, OtherSound DEF BackupNext

-----------------------------------------------------------------------------
\* Each variable has its type; a request at a step of a restore knows a backup that was
\* made, be it pruned by now.
THEOREM BackupTypeCorrect == BackupSpec => []BackupTypeOK
<1>1. JobInv => BackupTypeOK
  BY DEF JobInv
<1>2. QED
  BY <1>1, BackupInitTypes, BackupStepTypes, PTL DEF BackupSpec

\* A restore that nothing else comes between replaces database and directories together,
\* or puts every directory back, whichever of its steps fails and however many restores
\* and backups there were before.
THEOREM RestoreAllOrNothing == BackupSpec => []RestoreAtomic
<1>1. SoundInv => RestoreAtomic
  BY DEF SoundInv, Sound, RestoreAtomic
<1>2. BackupInit => SoundInv
  BY BackupInitTypes, InitSound DEF SoundInv
<1>3. SoundInv /\ [BackupNext]_backupVars => SoundInv'
  BY BackupStepTypes, StepSound DEF SoundInv
<1>4. QED
  BY <1>1, <1>2, <1>3, PTL DEF BackupSpec

-----------------------------------------------------------------------------
(* Backup: the backup a restore takes first.                               *)

\* What pruning is to remove has enough newer ones, be they listed still or not.
Outdated == \A n \in pruning : n \in Made /\ Cardinality(Made) - n >= KeepBackups

Kept(n) ==
    /\ n \in Made /\ Whole(archive[n].snap)
    /\ Cardinality(Made) - n < KeepBackups => archive[n].row /\ archive[n].file

\* What a restore that has come to j.pc knows of the data and of the backup it took.
Taken(j) ==
    /\ j.pc = "files" => j.db = data.db
    /\ j.pc = "register" => j.snap = data
    /\ j.pc \notin {"files", "register"} => pre # 0

\* RestorePrepared made inductive: only a restore damages the data, it is the only one,
\* and its backup holds what the data was when it began.
Prepared ==
    ~disturbed =>
        /\ \A v, w \in Worker : job[v].restores /\ job[w].restores => v = w
        /\ \A w \in Worker : job[w].restores => Taken(job[w])
        /\ ~Whole(data) => pre # 0
        /\ pre # 0 => Kept(pre)

PreparedInv == JobInv /\ Outdated /\ Prepared

LEMMA InitPrepared == BackupInit => Outdated /\ Prepared
  BY NoJobType DEF BackupInit, Outdated, Prepared, Whole, Gone

\* The archives and their number.
LEMMA Archives ==
    ASSUME JobInv
    PROVE  \E m \in 0 .. MaxArchives :
             m \in Nat /\ archive \in [1 .. m -> Archive] /\ Made = 1 .. m /\ Cardinality(Made) = m
<1>1. PICK m \in 0 .. MaxArchives : archive \in [1 .. m -> Archive]
  BY DEF JobInv, BackupTypeOK
<1>2. m \in Nat
  BY BackupAssumption
<1>3. QED
  BY <1>1, <1>2, MadeCount

\* A step that touches neither the archives nor pre, and the data only while a restore
\* whose backup is registered works on it.
LEMMA RestoreMoves ==
    ASSUME PreparedInv, NEW w \in Worker, UNCHANGED <<archive, pruning, pre, disturbed>>,
           \A v \in Worker \ {w} : job'[v] = job[v],
           job[w].restores, job[w].pc \notin {"files", "register"},
           job'[w].pc \notin {"files", "register"}
    PROVE  Outdated' /\ Prepared'
<1>1. Outdated'
  BY DEF PreparedInv, Outdated, Made
<1>2. ASSUME ~disturbed
      PROVE  /\ pre # 0 /\ Kept(pre)'
             /\ \A v \in Worker : job'[v].restores => v = w
    BY <1>2 DEF PreparedInv, Prepared, Taken, Kept, Made
<1>3. Prepared'
  BY <1>2 DEF Prepared, Taken
<1>4. QED
  BY <1>1, <1>3

LEMMA StartPrepared ==
    ASSUME PreparedInv, NEW w \in Worker, StartJob(w)
    PROVE  Outdated' /\ Prepared'
<1>0. JobInv /\ Outdated /\ Prepared /\ job \in [Worker -> Job]
  BY DEF PreparedInv, JobInv, BackupTypeOK
<1>1. PICK id \in {0} \cup Made :
         /\ job' = [job EXCEPT ![w] = [NoJob EXCEPT !.pc = "files", !.restores = id # 0,
                                                    !.id = id, !.db = data.db]]
         /\ disturbed' = (disturbed \/ (id # 0 /\ (Restoring \/ ~Whole(archive[id].snap))))
  BY DEF StartJob
<1>2. /\ job'[w].pc = "files" /\ job'[w].restores = (id # 0) /\ job'[w].db = data.db
      /\ \A v \in Worker \ {w} : job'[v] = job[v]
  BY <1>0, <1>1 DEF NoJob
<1>3. UNCHANGED <<data, archive, pruning, pre>>
  BY DEF StartJob
<1>4. Outdated'
  BY <1>0, <1>3 DEF Outdated, Made
<1>5. ~disturbed' => ~disturbed /\ (job'[w].restores => ~Restoring)
  BY <1>1, <1>2
<1>6. Prepared'
  <2> SUFFICES ASSUME ~disturbed' PROVE Prepared'
    BY DEF Prepared
  <2>1. \A u, v \in Worker : job'[u].restores /\ job'[v].restores => u = v
    BY <1>0, <1>2, <1>5 DEF Prepared, Restoring
  <2>2. \A v \in Worker : job'[v].restores => Taken(job[v])'
    BY <1>0, <1>2, <1>3, <1>5 DEF Prepared, Taken
  <2>3. (~Whole(data) => pre # 0)' /\ (pre # 0 => Kept(pre))'
    BY <1>0, <1>3, <1>5 DEF Prepared, Kept, Made, Whole
  <2>4. QED
    BY <2>1, <2>2, <2>3 DEF Prepared
<1>7. QED
  BY <1>4, <1>6

LEMMA ArchivePrepared ==
    ASSUME PreparedInv, NEW w \in Worker, ArchiveFiles(w)
    PROVE  Outdated' /\ Prepared'
<1>0. /\ JobInv /\ Outdated /\ Prepared /\ job \in [Worker -> Job] /\ job[w] \in Job
      /\ data \in Data
  BY DEF PreparedInv, JobInv, BackupTypeOK
<1>1. /\ job' = [job EXCEPT ![w].pc = "register", ![w].snap = [data EXCEPT !.db = job[w].db]]
      /\ job[w].pc = "files" /\ UNCHANGED <<data, archive, pruning, pre, disturbed>>
  BY DEF ArchiveFiles
<1>2. /\ job'[w].pc = "register" /\ job'[w].snap = [data EXCEPT !.db = job[w].db]
      /\ job'[w].restores = job[w].restores
      /\ \A v \in Worker \ {w} : job'[v] = job[v]
  BY <1>0, <1>1 DEF Job
<1>3. Outdated'
  BY <1>0, <1>1 DEF Outdated, Made
<1>4. ASSUME ~disturbed
      PROVE  Prepared'
  <2>1. \A u, v \in Worker : job'[u].restores /\ job'[v].restores => u = v
    BY <1>0, <1>2, <1>4 DEF Prepared
  <2>2. job'[w].restores => Taken(job[w])'
    <3>1. job[w].restores => job[w].db = data.db
      BY <1>0, <1>1, <1>4 DEF Prepared, Taken
    <3>2. job[w].db = data.db => [data EXCEPT !.db = job[w].db] = data
      BY <1>0 DEF Data
    <3>3. QED
      BY <1>1, <1>2, <3>1, <3>2 DEF Taken
  <2>3. \A v \in Worker \ {w} : job'[v].restores => Taken(job[v])'
    BY <1>0, <1>1, <1>2, <1>4 DEF Prepared, Taken
  <2>4. (~Whole(data) => pre # 0)' /\ (pre # 0 => Kept(pre))'
    BY <1>0, <1>1, <1>4 DEF Prepared, Kept, Made, Whole
  <2>5. QED
    BY <2>1, <2>2, <2>3, <2>4 DEF Prepared
<1>5. QED
  BY <1>1, <1>3, <1>4 DEF Prepared

LEMMA RegisterPrepared ==
    ASSUME PreparedInv, NEW w \in Worker, Register(w)
    PROVE  Outdated' /\ Prepared'
<1>0. /\ JobInv /\ Outdated /\ Prepared /\ job \in [Worker -> Job] /\ job[w] \in Job
      /\ data \in Data /\ KeepBackups \in Nat /\ pruning \in SUBSET (1 .. MaxArchives)
  BY BackupAssumption DEF PreparedInv, JobInv, BackupTypeOK
<1>1. PICK m \in Nat :
         /\ archive \in [1 .. m -> Archive] /\ Made = 1 .. m /\ Cardinality(Made) = m
         /\ Made' = 1 .. (m + 1) /\ Cardinality(Made') = m + 1
         /\ archive'[m + 1] = Registered(w) /\ \A i \in Made : archive'[i] = archive[i]
         /\ pre' = IF job[w].restores /\ Whole(data) THEN m + 1 ELSE pre
  BY <1>0, AddedTypes
<1>2. job[w].pc = "register" /\ UNCHANGED <<data, pruning, disturbed>>
  BY DEF Register
<1>3. /\ job[w].restores => job'[w].pc = "check"
      /\ job'[w].restores <=> job[w].restores
      /\ \A v \in Worker \ {w} : job'[v] = job[v]
  BY <1>0, NoJobType DEF Register, Job
<1>4. Outdated'
  BY <1>0, <1>1, <1>2 DEF Outdated
<1>5. ASSUME ~disturbed
      PROVE  Prepared'
  <2>1. \A u, v \in Worker : job'[u].restores /\ job'[v].restores => u = v
    BY <1>0, <1>3, <1>5 DEF Prepared
  <2>2. job[w].restores => pre' # 0
    BY <1>0, <1>1, <1>5 DEF Prepared
  <2>3. job'[w].restores => Taken(job[w])'
    BY <1>3, <2>2 DEF Taken
  <2>4. \A v \in Worker \ {w} : job'[v].restores => Taken(job[v])'
    BY <1>0, <1>1, <1>2, <1>3, <1>5 DEF Prepared, Taken
  <2>5. (~Whole(data) => pre # 0)'
    BY <1>0, <1>1, <1>2, <1>5 DEF Prepared, Whole
  <2>6. (pre # 0 => Kept(pre))'
    <3>1. CASE job[w].restores /\ Whole(data)
      <4>1. Taken(job[w]) /\ pre' = m + 1
        BY <1>0, <1>1, <1>5, <3>1 DEF Prepared
      <4>2. Whole(archive'[m + 1].snap) /\ archive'[m + 1].row /\ archive'[m + 1].file
        BY <1>1, <1>2, <3>1, <4>1 DEF Taken, Registered
      <4>3. m + 1 \in Made'
        BY <1>1
      <4>4. Kept(m + 1)'
        BY <4>2, <4>3 DEF Kept, Whole
      <4>5. QED
        BY <4>1, <4>4 DEF Kept, Whole
    <3>2. CASE ~(job[w].restores /\ Whole(data))
      <4>1. pre' = pre
        BY <1>1, <3>2
      <4>2. pre # 0 => Kept(pre) /\ pre \in 1 .. m
        BY <1>0, <1>1, <1>5 DEF Prepared, Kept
      <4>3. QED
        BY <1>0, <1>1, <4>1, <4>2 DEF Kept, Whole
    <3>3. QED
      BY <3>1, <3>2
  <2>7. QED
    BY <2>1, <2>3, <2>4, <2>5, <2>6 DEF Prepared
<1>6. QED
  BY <1>2, <1>4, <1>5 DEF Prepared

LEMMA RestorePreparedStep ==
    ASSUME PreparedInv, NEW w \in Worker,
           \/ CheckArchive(w) \/ ClearAside(w) \/ MoveConfig(w) \/ PutConfig(w)
           \/ MoveAnyConnect(w) \/ PutAnyConnect(w) \/ LoadDatabase(w) \/ Tidy(w)
    PROVE  Outdated' /\ Prepared'
<1>0. JobInv /\ job \in [Worker -> Job] /\ job[w] \in Job /\ KnownJob(job[w])
  BY DEF PreparedInv, JobInv, BackupTypeOK
<1>1. job[w].restores /\ job[w].pc \notin {"files", "register"}
  BY <1>0 DEF KnownJob, CheckArchive, ClearAside, MoveConfig, PutConfig, MoveAnyConnect,
              PutAnyConnect, LoadDatabase, Tidy, On
<1>2. UNCHANGED <<archive, pruning, pre, disturbed>>
  BY DEF CheckArchive, ClearAside, MoveConfig, PutConfig, MoveAnyConnect, PutAnyConnect,
         LoadDatabase, Tidy, On
<1>3. \/ job' = [job EXCEPT ![w] = NoJob]
      \/ \E pc \in {"moveConf", "putConf", "moveAny", "putAny", "load", "tidy"} :
            job' = [job EXCEPT ![w].pc = pc]
      \/ job' = [job EXCEPT ![w].pc = "clear", ![w].snap = archive[job[w].id].snap]
  BY Zenon DEF CheckArchive, ClearAside, MoveConfig, PutConfig, MoveAnyConnect, PutAnyConnect,
               LoadDatabase, Tidy, On, Abandon
<1>4. \A v \in Worker \ {w} : job'[v] = job[v]
  BY <1>0, <1>3
<1>5. job'[w].pc \notin {"files", "register"}
  BY <1>0, <1>3, NoJobType DEF Job
<1>6. QED
  BY <1>1, <1>2, <1>4, <1>5, RestoreMoves

\* A backup is pruned when there are enough newer ones.
LEMMA PrunedOld ==
    ASSUME NEW m \in Nat, Made = 1 .. m, NEW n \in Made, Prunable(n)
    PROVE  m - n >= KeepBackups
<1>1. n \in Nat /\ n + 1 \in Int
  OBVIOUS
<1>2. Newer(n) \subseteq (n + 1) .. m
  BY DEF Newer, Listed
<1>3. IsFiniteSet((n + 1) .. m) /\ Cardinality((n + 1) .. m) = m - n
  BY <1>1, FS_Interval
<1>4. Cardinality(Newer(n)) \in Nat /\ Cardinality(Newer(n)) <= m - n
  BY <1>2, <1>3, FS_Subset, FS_CardinalityType
<1>5. QED
  BY <1>1, <1>4, BackupAssumption DEF Prunable

LEMMA OtherPrepared ==
    ASSUME PreparedInv,
           \/ EditData \/ PruneList \/ Prune \/ FailPrune \/ DeleteBackup \/ DiePanel
           \/ \E w \in Worker : FailJob(w)
    PROVE  Outdated' /\ Prepared'
<1>0. /\ JobInv /\ Outdated /\ Prepared /\ BackupTypeOK /\ job \in [Worker -> Job] /\ data \in Data
      /\ \A w \in Worker : KnownJob(job[w])
  BY DEF PreparedInv, JobInv, BackupTypeOK
<1>1. PICK m \in 0 .. MaxArchives :
        m \in Nat /\ archive \in [1 .. m -> Archive] /\ Made = 1 .. m /\ Cardinality(Made) = m
  BY <1>0, Archives
<1>2. CASE EditData
  <2>1. ~disturbed' => NoJobs /\ ~disturbed
    BY <1>2, Zenon DEF EditData
  <2>2. NoJobs => \A w \in Worker : ~job[w].restores
    BY <1>0 DEF NoJobs, KnownJob
  <2>3. Whole(data') /\ UNCHANGED <<job, archive, pruning, pre>>
    BY <1>0, <1>2 DEF EditData, Whole, Gone, BackupTypeOK
  <2>4. QED
    BY <1>0, <2>1, <2>2, <2>3 DEF Outdated, Prepared, Kept, Made
<1>3. ASSUME NEW n \in Made, RemoveArchive(n), pruning' \subseteq pruning, ~disturbed' => ~disturbed,
             ~disturbed' => n # pre \/ n \in pruning
      PROVE  Outdated' /\ Prepared'
  <2>1. Made' = Made /\ \A i \in Made : archive'[i].snap = archive[i].snap
    <3>1. ArchiveType
      BY <1>0 DEF BackupTypeOK, ArchiveType
    <3>2. archive' = [archive EXCEPT ![n].row = FALSE, ![n].file = FALSE]
      BY <1>3 DEF RemoveArchive
    <3>3. QED
      BY <3>1, <3>2, RowTypes
  <2>2. UNCHANGED <<data, job, pre>>
    BY <1>3 DEF RemoveArchive
  <2>3. \A i \in Made \ {n} : archive'[i] = archive[i]
    BY <1>1, <1>3 DEF RemoveArchive
  <2>4. Outdated'
    BY <1>0, <1>3, <2>1 DEF Outdated
  <2>5. ASSUME ~disturbed'
        PROVE  Prepared'
    <3>1. \A w \in Worker : job[w].restores => Taken(job[w])'
      BY <1>0, <1>3, <2>2, <2>5 DEF Prepared, Taken
    <3>2. pre # 0 => Kept(pre)'
      <4> SUFFICES ASSUME pre # 0 PROVE Kept(pre)'
        OBVIOUS
      <4>1. Kept(pre) /\ pre \in Made
        BY <1>0, <1>3, <2>5 DEF Prepared, Kept
      <4>2. CASE n # pre
        BY <2>1, <2>2, <2>3, <4>1, <4>2 DEF Kept
      <4>3. CASE n = pre
        <5>1. m - pre >= KeepBackups
          BY <1>0, <1>1, <1>3, <2>5, <4>3 DEF Outdated
        <5>2. ~(m - pre < KeepBackups)
          BY <1>1, <4>1, <5>1, BackupAssumption
        <5>3. QED
          BY <1>1, <2>1, <2>2, <4>1, <5>2 DEF Kept
      <4>4. QED
        BY <4>2, <4>3
    <3>3. QED
      BY <1>0, <1>3, <2>2, <2>5, <3>1, <3>2 DEF Prepared, Whole
  <2>6. QED
    BY <2>4, <2>5 DEF Prepared
<1>4. CASE Prune
  <2>1. PICK n \in pruning : RemoveArchive(n) /\ pruning' = pruning \ {n} /\ UNCHANGED disturbed
    BY <1>4 DEF Prune
  <2>2. n \in Made
    BY <1>0 DEF Outdated
  <2>3. QED
    BY <1>3, <2>1, <2>2
<1>5. CASE DeleteBackup
  <2>1. PICK n \in Listed : /\ RemoveArchive(n) /\ UNCHANGED pruning
                            /\ disturbed' = (disturbed \/ n = pre)
    BY <1>5 DEF DeleteBackup
  <2>2. QED
    BY <1>3, <2>1 DEF Listed
<1>6. CASE DiePanel
  <2>1. UNCHANGED <<data, archive, pre, disturbed>> /\ pruning' = {} /\ job' = [w \in Worker |-> NoJob]
    BY <1>6 DEF DiePanel
  <2>2. \A w \in Worker : ~job'[w].restores /\ job'[w].pc = "idle"
    BY <2>1, NoJobType
  <2>3. QED
    BY <1>0, <2>1, <2>2 DEF Outdated, Prepared, Kept, Made, Whole
<1>7. ASSUME NEW w \in Worker, FailJob(w) PROVE Outdated' /\ Prepared'
  <2>1. /\ UNCHANGED <<archive, pruning, pre, disturbed>> /\ job' = [job EXCEPT ![w] = NoJob]
        /\ data' = Undo(job[w].pc) /\ job[w].pc \notin {"idle", "tidy"}
    BY <1>7 DEF FailJob, Abandon
  <2>2. ~job'[w].restores /\ job'[w].pc = "idle" /\ \A v \in Worker \ {w} : job'[v] = job[v]
    BY <1>0, <2>1, NoJobType
  <2>3. CASE job[w].pc \notin {"files", "register"}
    <3>1. job[w].restores
      BY <1>0, <2>1, <2>3 DEF KnownJob
    <3>2. QED
      BY <2>1, <2>2, <2>3, <3>1, RestoreMoves
  <2>4. CASE job[w].pc \in {"files", "register"}
    <3>1. data'.db = data.db /\ data'.conf = data.conf /\ data'.any = data.any /\ data' \in Data
      BY <1>0, <2>1, <2>4, UndoFields
    <3>2. data' = data
      BY <1>0, <3>1 DEF Data
    <3>3. QED
      BY <1>0, <2>1, <2>2, <3>2 DEF Outdated, Prepared, Taken, Kept, Made, Whole
  <2>5. QED
    BY <2>3, <2>4
<1>8. CASE PruneList
  <2>1. \A n \in pruning' : n \in Made /\ Prunable(n)
    BY <1>8 DEF PruneList, Listed
  <2>2. \A n \in pruning' : n \in Made /\ m - n >= KeepBackups
    BY <1>1, <2>1, PrunedOld
  <2>3. UNCHANGED <<data, archive, job, pre, disturbed>>
    BY <1>8 DEF PruneList
  <2>4. QED
    BY <1>0, <1>1, <2>2, <2>3 DEF Outdated, Prepared, Taken, Kept, Made, Whole
<1>9. CASE FailPrune
  BY <1>0, <1>9 DEF FailPrune, Outdated, Prepared, Taken, Kept, Made, Whole
<1>10. QED
  BY <1>2, <1>4, <1>5, <1>6, <1>7, <1>8, <1>9

LEMMA StepPrepared ==
    ASSUME PreparedInv, [BackupNext]_backupVars
    PROVE  Outdated' /\ Prepared'
<1>1. CASE UNCHANGED backupVars
  BY <1>1 DEF backupVars, PreparedInv, Outdated, Prepared, Taken, Kept, Made, Whole
<1>2. QED
  BY <1>1, StartPrepared, ArchivePrepared, RegisterPrepared, RestorePreparedStep, OtherPrepared
     DEF BackupNext

\* While data a restore has damaged is not whole, the backup the restore took first
\* can be restored, until newer ones have taken its place or somebody deletes it.
THEOREM RestoreIsPrepared == BackupSpec => []RestorePrepared
<1>1. PreparedInv => RestorePrepared
  BY DEF PreparedInv, Prepared, Kept, RestorePrepared
<1>2. BackupInit => PreparedInv
  BY BackupInitTypes, InitPrepared DEF PreparedInv
<1>3. PreparedInv /\ [BackupNext]_backupVars => PreparedInv'
  BY BackupStepTypes, StepPrepared DEF PreparedInv
<1>4. QED
  BY <1>1, <1>2, <1>3, PTL DEF BackupSpec

-----------------------------------------------------------------------------
(* Upgrade: types.                                                         *)

\* No install and no node is in the middle of anything.
LEMMA UpgradeInitTypes == UpgradeInit => UpgradeTypeOK
  BY UpgradeAssumption DEF UpgradeInit, UpgradeTypeOK, File, NodeRow

\* The candidate is removed or stays.
LEMMA DeferredTypes ==
    ASSUME UpgradeTypeOK, Deferred
    PROVE  path' \in [candidate: File, target: File, previous: File]
  BY DEF UpgradeTypeOK, Deferred, File

\* The steps of an install on the files.
LEMMA FileTypes ==
    ASSUME UpgradeTypeOK, NEW i \in Install,
           \/ Accept(i) \/ ClearCandidate(i) \/ CreateCandidate(i) \/ WriteCandidate(i)
           \/ SavePrevious(i) \/ PlaceTarget(i) \/ WriteRecord(i) \/ FailInstall(i)
    PROVE  UpgradeTypeOK'
<1> USE DEF Calm, nodeVars, Return
<1>1. i \in File /\ Absent \in File /\ i \in Install
  BY DEF File
<1>2. CASE Accept(i)
  <2>1. alone' \in BOOLEAN
    BY <1>2, Zenon DEF Accept
  <2>2. QED
    BY <1>2, <2>1 DEF Accept, At, UpgradeTypeOK
<1>3. CASE ClearCandidate(i)
  BY <1>1, <1>3 DEF ClearCandidate, At, UpgradeTypeOK
<1>4. CASE CreateCandidate(i)
  BY <1>1, <1>4, DeferredTypes DEF CreateCandidate, At, UpgradeTypeOK
<1>5. CASE WriteCandidate(i)
  BY <1>1, <1>5 DEF WriteCandidate, At, UpgradeTypeOK
<1>6. CASE SavePrevious(i)
  <2>1. Saved \in [candidate: File, target: File, previous: File]
    BY <1>1 DEF Saved, UpgradeTypeOK
  <2>2. path' \in [candidate: File, target: File, previous: File] /\ setbacks' \in Nat
    BY <1>6, <2>1 DEF SavePrevious, UpgradeTypeOK
  <2>3. QED
    BY <1>1, <1>6, <2>2 DEF SavePrevious, At, UpgradeTypeOK
<1>7. CASE PlaceTarget(i)
  BY <1>1, <1>7, DeferredTypes DEF PlaceTarget, At, UpgradeTypeOK
<1>8. CASE WriteRecord(i)
  BY <1>1, <1>8, DeferredTypes DEF WriteRecord, At, UpgradeTypeOK
<1>9. CASE FailInstall(i)
  BY <1>1, <1>9, DeferredTypes DEF FailInstall, UpgradeTypeOK
<1>10. QED
  BY <1>2, <1>3, <1>4, <1>5, <1>6, <1>7, <1>8, <1>9

\* The steps of an install on the nodes.
LEMMA NodeTypes ==
    ASSUME UpgradeTypeOK, NEW i \in Install,
           \/ ListNodes(i) \/ EndUpgrade(i) \/ FailNode(i)
           \/ \E m \in Member : UpdateNodeTo(i, m) \/ ApplyNew(i, m) \/ UndoNode(i, m)
    PROVE  UpgradeTypeOK'
<1> USE DEF Calm, fileVars, nodeVars, NodeRow
<1>1. CASE ListNodes(i)
  BY <1>1 DEF ListNodes, At, UpgradeTypeOK
<1>2. CASE EndUpgrade(i)
  BY <1>2 DEF EndUpgrade, UpgradeTypeOK
<1>3. CASE FailNode(i)
  BY <1>3 DEF FailNode, UpgradeTypeOK
<1>4. ASSUME NEW m \in Member, UpdateNodeTo(i, m) PROVE UpgradeTypeOK'
  <2>0. seen[i][m] \in NodeRow
    BY DEF UpgradeTypeOK
  <2>1. [seen[i][m] EXCEPT !.new = TRUE] \in NodeRow
    BY <2>0
  <2>2. row' \in [Member -> NodeRow] /\ changed' \in [Install -> SUBSET Member]
    BY <1>4, <2>1 DEF UpdateNodeTo, UpgradeTypeOK
  <2>3. QED
    BY <1>4, <2>2 DEF UpdateNodeTo, At, UpgradeTypeOK
<1>5. ASSUME NEW m \in Member, ApplyNew(i, m) PROVE UpgradeTypeOK'
  BY <1>5 DEF ApplyNew, At, UpgradeTypeOK
<1>6. ASSUME NEW m \in Member, UndoNode(i, m) PROVE UpgradeTypeOK'
  BY <1>6 DEF UndoNode, Withdrawn, UpgradeTypeOK
<1>7. QED
  BY <1>1, <1>2, <1>3, <1>4, <1>5, <1>6

\* Every step.
LEMMA UpgradeStepTypes ==
    ASSUME UpgradeTypeOK, [UpgradeNext]_upgradeVars
    PROVE  UpgradeTypeOK'
<1>1. CASE UNCHANGED upgradeVars
  BY <1>1 DEF upgradeVars, UpgradeTypeOK
<1>2. CASE Halt
  BY <1>2 DEF Halt, fileVars, NodeRow, UpgradeTypeOK
<1>3. ASSUME NEW m \in Member, EditNode(m) PROVE UpgradeTypeOK'
  <2>1. nodeEdits' \in Nat /\ nodeEdits + 1 \in 0 .. MaxNodeEdits
    BY <1>3, UpgradeAssumption DEF EditNode, UpgradeTypeOK
  <2>2. row' \in [Member -> NodeRow]
    BY <1>3, <2>1 DEF EditNode, NodeRow, UpgradeTypeOK
  <2>3. alone' \in BOOLEAN
    BY <1>3, Zenon DEF EditNode
  <2>4. QED
    BY <1>3, <2>1, <2>2, <2>3 DEF EditNode, fileVars, UpgradeTypeOK
<1>4. QED
  BY <1>1, <1>2, <1>3, FileTypes, NodeTypes DEF UpgradeNext

-----------------------------------------------------------------------------
(* Upgrade: the binary.                                                    *)

\* BinaryKept made inductive.  At most one install is in progress, and it knows whose
\* file the candidate, and then the target, is; whatever is kept is complete, also
\* while nothing has been recorded yet.
Steady ==
    alone =>
        /\ \A i, j \in Busy : i = j
        /\ \A i \in Install :
            /\ step[i] \in {"write", "save", "place"} => path.candidate = i
            /\ step[i] \in {"save", "place"} => i \in complete
            /\ step[i] = "record" => path.target = i
        /\ path.target # Absent => path.target \in complete
        /\ path.previous # Absent => path.previous \in complete
        /\ record # Absent /\ path.target = Absent => path.previous # Absent

SteadyInv == UpgradeTypeOK /\ Steady

\* Nothing is installed, or what is installed is complete.
LEMMA InitSteady == UpgradeInit => Steady
  BY DEF UpgradeInit, Steady, Busy

\* No install writes, and each stays where it is or ends.
LEMMA EndsSteady ==
    ASSUME SteadyInv, UNCHANGED <<complete, record>>, alone' => alone, Deferred,
           \A i \in Install :
              step'[i] \in {step[i], "done"}
              \/ (step[i] \notin {"idle", "done"} /\ step'[i] \in {"list", "update", "apply", "undo"}),
           path' = path \/ (\E i \in Busy : step'[i] = "done")
    PROVE  Steady'
<1> SUFFICES ASSUME alone' PROVE Steady'
  BY DEF Steady
<1>1. Steady /\ Busy' \subseteq Busy
  BY DEF SteadyInv, Busy
<1>2. path' = path \/ Busy' = {}
  BY <1>1 DEF Steady, Busy
<1>3. path'.target = path.target /\ path'.previous = path.previous
  BY DEF Deferred, SteadyInv, UpgradeTypeOK
<1>4. QED
  BY <1>1, <1>2, <1>3 DEF Steady, Busy

\* Every step preserves it.
LEMMA StepSteady ==
    ASSUME SteadyInv, [UpgradeNext]_upgradeVars
    PROVE  Steady'
<1>0. UpgradeTypeOK /\ Steady
  BY DEF SteadyInv
<1>1. CASE UNCHANGED upgradeVars
  BY <1>0, <1>1 DEF upgradeVars, Steady, Busy
<1>2. ASSUME NEW i \in Install, Accept(i) PROVE Steady'
  BY <1>0, <1>2 DEF Accept, At, Steady, Busy, UpgradeTypeOK
<1>3. ASSUME NEW i \in Install, ClearCandidate(i) PROVE Steady'
  BY <1>0, <1>3 DEF ClearCandidate, At, Calm, Steady, Busy, UpgradeTypeOK
<1>4. ASSUME NEW i \in Install, CreateCandidate(i) PROVE Steady'
  <2>1. CASE At(i, "create", "write") /\ path' = [path EXCEPT !.candidate = i]
    BY <1>0, <1>4, <2>1 DEF CreateCandidate, At, Calm, Steady, Busy, UpgradeTypeOK
  <2>2. CASE step[i] = "create" /\ Return(i)
    BY <1>0, <1>4, <2>2, EndsSteady DEF CreateCandidate, Return, Calm, SteadyInv, UpgradeTypeOK, Busy
  <2>3. QED
    BY <1>4, <2>1, <2>2 DEF CreateCandidate
<1>5. ASSUME NEW i \in Install, WriteCandidate(i) PROVE Steady'
  BY <1>0, <1>5 DEF WriteCandidate, At, Calm, Steady, Busy, UpgradeTypeOK
<1>6. ASSUME NEW i \in Install, SavePrevious(i) PROVE Steady'
  BY <1>0, <1>6 DEF SavePrevious, Saved, At, Steady, Busy, UpgradeTypeOK
<1>7. ASSUME NEW i \in Install, PlaceTarget(i) PROVE Steady'
  <2>1. CASE At(i, "place", "record")
             /\ path' = [path EXCEPT !.target = path.candidate, !.candidate = Absent]
    BY <1>0, <1>7, <2>1, UpgradeAssumption
    DEF PlaceTarget, At, Calm, Steady, Busy, UpgradeTypeOK
  <2>2. CASE step[i] = "place" /\ Return(i)
    BY <1>0, <1>7, <2>2, EndsSteady DEF PlaceTarget, Return, Calm, SteadyInv, UpgradeTypeOK, Busy
  <2>3. QED
    BY <1>7, <2>1, <2>2 DEF PlaceTarget
<1>8. ASSUME NEW i \in Install, WriteRecord(i) PROVE Steady'
  <2>1. path'.target = path.target /\ path'.previous = path.previous
    BY <1>0, <1>8 DEF WriteRecord, Deferred, UpgradeTypeOK
  <2>2. QED
    BY <1>0, <1>8, <2>1, UpgradeAssumption DEF WriteRecord, At, Calm, Steady, Busy, UpgradeTypeOK
<1>9. ASSUME NEW i \in Install, FailInstall(i) PROVE Steady'
  BY <1>0, <1>9, EndsSteady DEF FailInstall, Return, SteadyInv, UpgradeTypeOK, Busy
<1>10. ASSUME NEW i \in Install, ListNodes(i) \/ EndUpgrade(i) \/ FailNode(i) PROVE Steady'
  BY <1>0, <1>10, EndsSteady
  DEF ListNodes, EndUpgrade, FailNode, At, Calm, Deferred, fileVars, SteadyInv, UpgradeTypeOK
<1>11. ASSUME NEW i \in Install, NEW m \in Member, UpdateNodeTo(i, m) \/ ApplyNew(i, m) \/ UndoNode(i, m)
       PROVE  Steady'
  BY <1>0, <1>11, EndsSteady
  DEF UpdateNodeTo, ApplyNew, UndoNode, At, Calm, Deferred, fileVars, SteadyInv, UpgradeTypeOK
<1>12. CASE Halt
  BY <1>0, <1>12, EndsSteady DEF Halt, Deferred, fileVars, SteadyInv, UpgradeTypeOK
<1>13. ASSUME NEW m \in Member, EditNode(m) PROVE Steady'
  BY <1>0, <1>13, EndsSteady DEF EditNode, Deferred, fileVars, SteadyInv, UpgradeTypeOK
<1>14. QED
  BY <1>1, <1>2, <1>3, <1>4, <1>5, <1>6, <1>7, <1>8, <1>9, <1>10, <1>11, <1>12, <1>13 DEF UpgradeNext

-----------------------------------------------------------------------------
(* Upgrade: the nodes.                                                     *)

Moving == {"update", "apply", "undo"}

\* Where an install that moves nodes is: what it has not changed is as its list has shown
\* it, and what it has done runs the new version.
Moves(i) ==
    /\ \E v \in BOOLEAN :
        /\ \A m \in Member \ changed[i] : row[m].new = v /\ runs[m] = v
        /\ \A m \in Member : m \in changed[i] \/ step[i] # "undo" => seen[i][m].new = v
    /\ step[i] # "undo" => \A m \in Member \ todo[i] : row[m].new = TRUE /\ runs[m] = TRUE
    /\ step[i] # "undo" => \A m \in changed[i] : row[m].new = TRUE
    /\ step[i] = "update" => changed[i] \cap todo[i] = {}
    /\ step[i] = "apply" => \A m, n \in changed[i] \cap todo[i] : m = n

\* NodesMoveTogether made inductive.
Together ==
    alone /\ halts = 0 =>
        /\ \A i \in Install : step[i] \in {"idle", "clear", "create", "write", "save", "place",
                                           "record", "list"} => changed[i] = {}
        /\ (\A i \in Install : step[i] \notin Moving) =>
              /\ \A m, n \in Member : row[m].new = row[n].new
              /\ \A m \in Member : runs[m] = row[m].new
        /\ \A i \in Install : step[i] \in Moving => Moves(i)

\* No node is at the new version.
LEMMA InitTogether == UpgradeInit => Together
<1> SUFFICES ASSUME UpgradeInit PROVE Together
  OBVIOUS
<1>1. /\ \A i \in Install : changed[i] = {} /\ step[i] = "idle"
      /\ \A m \in Member : row[m].new = FALSE /\ runs[m] = FALSE
  BY DEF UpgradeInit
<1>2. \A i \in Install : step[i] \notin Moving
  BY <1>1 DEF Moving
<1>3. QED
  BY <1>1, <1>2, Zenon DEF Together

\* A step that moves no node.
LEMMA StillTogether ==
    ASSUME UpgradeTypeOK, Together, UNCHANGED nodeVars, alone' => alone, halts' = 0 => halts = 0,
           \A i \in Install :
              \/ step'[i] = step[i]
              \/ step[i] \notin Moving \cup {"done"} /\ step'[i] \notin Moving
    PROVE  Together'
<1> SUFFICES ASSUME alone', halts' = 0 PROVE Together'
  BY DEF Together
<1>1. alone /\ halts = 0 /\ Together
  OBVIOUS
<1>2. UNCHANGED <<seen, todo, changed, row, runs>>
  BY DEF nodeVars
<1>3. \A i \in Install : step'[i] \in Moving <=> step[i] \in Moving
  BY DEF Moving
<1>4. ASSUME NEW i \in Install,
             step'[i] \in {"idle", "clear", "create", "write", "save", "place", "record", "list"}
      PROVE  changed'[i] = {}
  <2>1. step[i] \in {"idle", "clear", "create", "write", "save", "place", "record", "list"}
    BY <1>4 DEF UpgradeTypeOK, Moving
  <2>2. QED
    BY <1>1, <1>2, <2>1 DEF Together
<1>5. ASSUME NEW i \in Install, step'[i] \in Moving PROVE Moves(i)'
  <2>1. step'[i] = step[i] /\ Moves(i)
    BY <1>1, <1>3, <1>5 DEF Together
  <2>2. QED
    BY <1>2, <2>1 DEF Moves
<1>6. (\A i \in Install : step'[i] \notin Moving) =>
              /\ \A m, n \in Member : row'[m].new = row'[n].new
              /\ \A m \in Member : runs'[m] = row'[m].new
  BY <1>1, <1>2, <1>3 DEF Together
<1>7. QED
  BY <1>4, <1>5, <1>6 DEF Together

\* A step of the one install that moves nodes.
LEMMA MoveTogether ==
    ASSUME SteadyInv, Together, NEW i \in Install, step[i] \in Moving \cup {"list"},
           UNCHANGED <<alone, halts>>,
           \A j \in Install \ {i} : step'[j] = step[j] /\ changed'[j] = changed[j],
           step'[i] \in Moving => (alone /\ halts = 0 => Moves(i)'),
           step'[i] \notin Moving =>
              /\ step'[i] = "done"
              /\ alone /\ halts = 0 =>
                    /\ \A m, n \in Member : row'[m].new = row'[n].new
                    /\ \A m \in Member : runs'[m] = row'[m].new
    PROVE  Together'
<1> SUFFICES ASSUME alone, halts = 0 PROVE Together'
  BY DEF Together
<1>1. \A j \in Install \ {i} : step[j] \in {"idle", "done"}
  BY DEF SteadyInv, Steady, Busy, Moving
<1>2. \A j \in Install \ {i} : step'[j] \notin Moving
  BY <1>1 DEF Moving
<1>3. ASSUME NEW j \in Install,
             step'[j] \in {"idle", "clear", "create", "write", "save", "place", "record", "list"}
      PROVE  changed'[j] = {}
  BY <1>3 DEF Together, Moving
<1>4. QED
  BY <1>2, <1>3 DEF Together

\* Every step.
LEMMA StepTogether ==
    ASSUME SteadyInv, Together, [UpgradeNext]_upgradeVars
    PROVE  Together'
<1>0. UpgradeTypeOK /\ \A i \in Install : step[i] \in Moving /\ alone /\ halts = 0 => Moves(i)
  BY DEF SteadyInv, Together
<1>1. CASE UNCHANGED upgradeVars
  BY <1>0, <1>1, StillTogether DEF upgradeVars, nodeVars
<1>2. ASSUME NEW i \in Install,
             \/ Accept(i) \/ ClearCandidate(i) \/ CreateCandidate(i) \/ WriteCandidate(i)
             \/ SavePrevious(i) \/ PlaceTarget(i) \/ WriteRecord(i) \/ FailInstall(i)
      PROVE  Together'
  <2>1. UNCHANGED <<nodeVars, halts>> /\ (alone' => alone)
    <3>1. CASE Accept(i)
      <4>1. alone' => alone
        BY <3>1, Zenon DEF Accept
      <4>2. QED
        BY <3>1, <4>1 DEF Accept
    <3>2. CASE ~Accept(i)
      BY <1>2, <3>2 DEF ClearCandidate, CreateCandidate, WriteCandidate, SavePrevious, PlaceTarget,
                WriteRecord, FailInstall, Calm
    <3>3. QED
      BY <3>1, <3>2
  <2>2. \A j \in Install :
              \/ step'[j] = step[j]
              \/ step[j] \notin Moving \cup {"done"} /\ step'[j] \notin Moving
    BY <1>0, <1>2 DEF Accept, ClearCandidate, CreateCandidate, WriteCandidate, SavePrevious,
                PlaceTarget, WriteRecord, FailInstall, At, Return, Moving, UpgradeTypeOK
  <2>3. QED
    BY <1>0, <2>1, <2>2, StillTogether
<1>3. ASSUME NEW i \in Install, ListNodes(i) PROVE Together'
  <2>1. /\ step[i] = "list" /\ step'[i] = "update" /\ \A j \in Install \ {i} : step'[j] = step[j]
        /\ seen'[i] = row /\ todo'[i] = {m \in Member : ~row[m].new}
        /\ UNCHANGED <<changed, row, runs, alone, halts>>
    BY <1>0, <1>3 DEF ListNodes, At, Calm, UpgradeTypeOK
  <2>2. alone => \A j \in Install : step[j] \notin Moving
    BY <2>1 DEF SteadyInv, Steady, Busy, Moving
  <2>3. \A m \in Member : row[m].new \in BOOLEAN
    BY <1>0 DEF UpgradeTypeOK, NodeRow
  <2>4. alone /\ halts = 0 => Moves(i)'
    <3> SUFFICES ASSUME alone, halts = 0 PROVE Moves(i)'
      OBVIOUS
    <3>1. /\ changed[i] = {} /\ \A m, n \in Member : row[m].new = row[n].new
          /\ \A m \in Member : runs[m] = row[m].new
      BY <2>1, <2>2 DEF Together
    <3>2. \E v \in BOOLEAN : \A m \in Member : row[m].new = v /\ runs[m] = v
      BY <2>3, <3>1
    <3>3. QED
      BY <2>1, <2>3, <3>1, <3>2 DEF Moves
  <2>5. QED
    BY <2>1, <2>4, MoveTogether DEF Moving
<1>4. ASSUME NEW i \in Install, NEW m \in Member, UpdateNodeTo(i, m) PROVE Together'
  <2>1. /\ step[i] = "update" /\ step'[i] = "apply" /\ \A j \in Install \ {i} : step'[j] = step[j]
        /\ changed'[i] = changed[i] \cup {m} /\ \A j \in Install \ {i} : changed'[j] = changed[j]
        /\ row'[m].new = TRUE /\ \A n \in Member \ {m} : row'[n] = row[n]
        /\ m \in todo[i] /\ UNCHANGED <<seen, todo, runs, alone, halts>>
    BY <1>0, <1>4 DEF UpdateNodeTo, At, Calm, UpgradeTypeOK, NodeRow
  <2>2. alone /\ halts = 0 => Moves(i)'
    <3> SUFFICES ASSUME alone, halts = 0 PROVE Moves(i)'
      OBVIOUS
    <3>1. Moves(i)
      BY <1>0, <2>1 DEF Moving
    <3>2. PICK v \in BOOLEAN :
              /\ \A n \in Member \ changed[i] : row[n].new = v /\ runs[n] = v
              /\ \A n \in Member : seen[i][n].new = v
      BY <2>1, <3>1 DEF Moves
    <3>3. /\ \A n \in Member \ changed'[i] : row'[n].new = v /\ runs'[n] = v
          /\ \A n \in Member : seen'[i][n].new = v
      BY <2>1, <3>2
    <3>4. \A n \in Member \ todo'[i] : row'[n].new = TRUE /\ runs'[n] = TRUE
      BY <2>1, <3>1 DEF Moves
    <3>5. \A n \in changed'[i] : row'[n].new = TRUE
      <4>1. changed[i] \subseteq Member
        BY <1>0 DEF UpgradeTypeOK
      <4>2. QED
        BY <2>1, <3>1, <4>1 DEF Moves
    <3>6. \A n, o \in changed'[i] \cap todo'[i] : n = o
      BY <2>1, <3>1 DEF Moves
    <3>7. QED
      BY <2>1, <3>3, <3>4, <3>5, <3>6 DEF Moves
  <2>3. QED
    BY <2>1, <2>2, MoveTogether DEF Moving
<1>5. ASSUME NEW i \in Install, NEW m \in Member, ApplyNew(i, m) PROVE Together'
  <2>1. /\ step[i] = "apply" /\ step'[i] = "update" /\ \A j \in Install \ {i} : step'[j] = step[j]
        /\ m \in todo[i] \cap changed[i] /\ todo'[i] = todo[i] \ {m}
        /\ runs'[m] = row[m].new /\ \A n \in Member \ {m} : runs'[n] = runs[n]
        /\ UNCHANGED <<seen, changed, row, alone, halts>>
    BY <1>0, <1>5 DEF ApplyNew, At, Calm, UpgradeTypeOK
  <2>2. alone /\ halts = 0 => Moves(i)'
    <3> SUFFICES ASSUME alone, halts = 0 PROVE Moves(i)'
      OBVIOUS
    <3>1. Moves(i)
      BY <1>0, <2>1 DEF Moving
    <3>2. PICK v \in BOOLEAN :
              /\ \A n \in Member \ changed[i] : row[n].new = v /\ runs[n] = v
              /\ \A n \in Member : seen[i][n].new = v
      BY <2>1, <3>1 DEF Moves
    <3>3. /\ \A n \in Member \ changed'[i] : row'[n].new = v /\ runs'[n] = v
          /\ \A n \in Member : seen'[i][n].new = v
      BY <2>1, <3>2
    <3>4. \A n \in Member \ todo'[i] : row'[n].new = TRUE /\ runs'[n] = TRUE
      <4>1. row[m].new = TRUE /\ runs'[m] = TRUE
        BY <2>1, <3>1 DEF Moves
      <4>2. QED
        BY <2>1, <3>1, <4>1 DEF Moves
    <3>5. \A n \in changed'[i] : row'[n].new = TRUE
      BY <2>1, <3>1 DEF Moves
    <3>6. changed'[i] \cap todo'[i] = {}
      BY <2>1, <3>1 DEF Moves
    <3>7. QED
      BY <2>1, <3>3, <3>4, <3>5, <3>6 DEF Moves
  <2>3. QED
    BY <2>1, <2>2, MoveTogether DEF Moving
<1>6. ASSUME NEW i \in Install, NEW m \in Member, UndoNode(i, m) PROVE Together'
  <2>1. /\ step[i] = "undo" /\ step' = step
        /\ m \in changed[i] /\ changed'[i] = changed[i] \ {m} /\ \A j \in Install \ {i} : changed'[j] = changed[j]
        /\ row'[m] = seen[i][m] /\ \A n \in Member \ {m} : row'[n] = row[n]
        /\ runs'[m] = seen[i][m].new /\ \A n \in Member \ {m} : runs'[n] = runs[n]
        /\ UNCHANGED <<seen, alone, halts>>
    BY <1>0, <1>6 DEF UndoNode, Withdrawn, Calm, UpgradeTypeOK
  <2>2. alone /\ halts = 0 => Moves(i)'
    <3> SUFFICES ASSUME alone, halts = 0 PROVE Moves(i)'
      OBVIOUS
    <3>1. Moves(i)
      BY <1>0, <2>1 DEF Moving
    <3>2. PICK v \in BOOLEAN :
              /\ \A n \in Member \ changed[i] : row[n].new = v /\ runs[n] = v
              /\ \A n \in Member : n \in changed[i] => seen[i][n].new = v
      BY <2>1, <3>1 DEF Moves
    <3>3. seen[i][m].new = v
      BY <2>1, <3>2
    <3>4. /\ \A n \in Member \ changed'[i] : row'[n].new = v /\ runs'[n] = v
          /\ \A n \in Member : n \in changed'[i] => seen'[i][n].new = v
      BY <2>1, <3>2, <3>3
    <3>5. QED
      BY <2>1, <3>4 DEF Moves
  <2>3. QED
    BY <2>1, <2>2, MoveTogether DEF Moving
<1>7. ASSUME NEW i \in Install, EndUpgrade(i) PROVE Together'
  <2>1. /\ step[i] \in Moving /\ step'[i] = "done" /\ \A j \in Install \ {i} : step'[j] = step[j]
        /\ UNCHANGED <<seen, todo, changed, row, runs, alone, halts>>
        /\ (step[i] = "update" /\ todo[i] = {}) \/ (step[i] = "undo" /\ changed[i] = {})
    BY <1>0, <1>7 DEF EndUpgrade, nodeVars, Calm, Moving, UpgradeTypeOK
  <2>2. alone /\ halts = 0 =>
            /\ \A m, n \in Member : row[m].new = row[n].new
            /\ \A m \in Member : runs[m] = row[m].new
    <3> SUFFICES ASSUME alone, halts = 0
                 PROVE  \E v \in BOOLEAN : \A m \in Member : row[m].new = v /\ runs[m] = v
      BY Zenon
    <3>1. Moves(i)
      BY <1>0, <2>1
    <3>2. CASE step[i] = "update" /\ todo[i] = {}
      BY <3>1, <3>2 DEF Moves
    <3>3. CASE step[i] = "undo" /\ changed[i] = {}
      BY <3>1, <3>3 DEF Moves
    <3>4. QED
      BY <2>1, <3>2, <3>3
  <2>3. QED
    BY <2>1, <2>2, MoveTogether DEF Moving
<1>8. ASSUME NEW i \in Install, FailNode(i) PROVE Together'
  <2>1. /\ step[i] \in {"list", "update", "apply"} /\ step'[i] = "undo"
        /\ \A j \in Install \ {i} : step'[j] = step[j]
        /\ UNCHANGED <<seen, todo, changed, row, runs, alone, halts>>
    BY <1>0, <1>8 DEF FailNode, nodeVars, UpgradeTypeOK
  <2>2. alone /\ halts = 0 /\ step[i] # "list" => Moves(i)'
    BY <1>0, <2>1 DEF Moves, Moving
  <2>3. alone /\ halts = 0 /\ step[i] = "list" => Moves(i)'
    <3> SUFFICES ASSUME alone, halts = 0, step[i] = "list" PROVE Moves(i)'
      OBVIOUS
    <3>1. \A j \in Install : step[j] \notin Moving
      BY DEF SteadyInv, Steady, Busy, Moving
    <3>2. /\ changed[i] = {} /\ \A m, n \in Member : row[m].new = row[n].new
          /\ \A m \in Member : runs[m] = row[m].new
      BY <3>1 DEF Together
    <3>3. \A m \in Member : row[m].new \in BOOLEAN
      BY <1>0 DEF UpgradeTypeOK, NodeRow
    <3>4. \E v \in BOOLEAN : \A m \in Member : row[m].new = v /\ runs[m] = v
      BY <3>2, <3>3
    <3>5. QED
      BY <2>1, <3>2, <3>4 DEF Moves
  <2>4. QED
    BY <2>1, <2>2, <2>3, MoveTogether DEF Moving
<1>9. CASE Halt
  BY <1>0, <1>9 DEF Halt, Together, UpgradeTypeOK
<1>10. ASSUME NEW m \in Member, EditNode(m) PROVE Together'
  <2>1. /\ \A n \in Member : row'[n].new = row[n].new
        /\ UNCHANGED <<step, seen, todo, changed, runs, halts>>
    BY <1>0, <1>10 DEF EditNode, UpgradeTypeOK, NodeRow
  <2>2. alone' => alone /\ \A i \in Install : step[i] \notin Moving
    BY <1>10 DEF EditNode, Busy, Moving
  <2>3. QED
    BY <2>1, <2>2 DEF Together
<1>11. QED
  BY <1>1, <1>2, <1>3, <1>4, <1>5, <1>6, <1>7, <1>8, <1>9, <1>10 DEF UpgradeNext

-----------------------------------------------------------------------------
\* Each variable has its type, whichever steps of however many installs fail.
THEOREM UpgradeTypeCorrect == UpgradeSpec => []UpgradeTypeOK
<1>1. QED
  BY UpgradeInitTypes, UpgradeStepTypes, PTL DEF UpgradeSpec

\* As long as installs of one version do not overlap, the binary that was there stays,
\* complete, at target or at target.previous, wherever an install fails or the
\* container dies.
THEOREM BinaryNeverLost == UpgradeSpec => []BinaryKept
<1>1. SteadyInv => BinaryKept
  BY DEF SteadyInv, Steady, BinaryKept
<1>2. UpgradeInit => SteadyInv
  BY UpgradeInitTypes, InitSteady DEF SteadyInv
<1>3. SteadyInv /\ [UpgradeNext]_upgradeVars => SteadyInv'
  BY UpgradeStepTypes, StepSteady DEF SteadyInv
<1>4. QED
  BY <1>1, <1>2, <1>3, PTL DEF UpgradeSpec

\* Once no install is in progress either every node of the type has moved to the new
\* version or none has, and runs what its row says, wherever updates and Applies have
\* failed: the rollback is complete, for any number of nodes.
THEOREM NodesStayTogether == UpgradeSpec => []NodesMoveTogether
<1>1. SteadyInv /\ Together => NodesMoveTogether
  BY DEF Together, NodesMoveTogether, Busy, Moving
<1>2. UpgradeInit => SteadyInv /\ Together
  BY UpgradeInitTypes, InitSteady, InitTogether DEF SteadyInv
<1>3. SteadyInv /\ Together /\ [UpgradeNext]_upgradeVars => (SteadyInv /\ Together)'
  BY UpgradeStepTypes, StepSteady, StepTogether DEF SteadyInv
<1>4. QED
  BY <1>1, <1>2, <1>3, PTL DEF UpgradeSpec
=============================================================================
