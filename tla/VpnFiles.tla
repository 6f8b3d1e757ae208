------------------------------ MODULE VpnFiles ------------------------------
(***************************************************************************)
(* The files of one AnyConnect node that should run: the certificate       *)
(* versions with the link to the current one (internal/anyconnect/         *)
(* assets.go), the configuration with its last good copy (generate.go),    *)
(* and the Apply that puts both into a running ocserv (agent/manager.go).  *)
(* Refreshes and Applies run in goroutines of their own without a lock.    *)
(***************************************************************************)
EXTENDS Integers, Sequences, SequencesExt

CONSTANTS
    Cert,          \* certificates the provider may serve
    NoCert,
    Plan,          \* versions of the node's row and accounts, 0 for none
    Rejected,      \* plans for which ocserv --test-config fails
    Task,          \* refreshes and Applies under way at once
    MaxTasks,      \* bound on refreshes and Applies
    MaxBad,        \* bound on rejected plans and failed restarts
    MaxBreaks      \* bound on other failures and deaths

ASSUME VpnFilesAssumption == NoCert \notin Cert /\ Plan \subseteq Nat \ {0} /\ Rejected \subseteq Plan

VARIABLES
    served,        \* the certificate the provider serves
    versions,      \* installed versions, the oldest first
    current,       \* the certificate in certificate-current, NoCert for none
    copied,        \* certificate-current is not a link yet: a backup restored a directory
    newLink,       \* where certificate-current.candidate leads
    fingerprint,   \* the certificate of the database's record
    plan,          \* the node in the database
    target,        \* the configuration's plan
    lastGood,      \* the plan of the copy .last-good
    setAside,      \* the plan of the copy .failed
    ocserv,        \* what the running server has loaded
    task,          \* the goroutines
    apart,         \* no two of them have overlapped
    tasks, bad, breaks

vpnVars == <<served, versions, current, copied, newLink, fingerprint, plan, target, lastGood,
             setAside, ocserv, task, apart, tasks, bad, breaks>>

Off == [cert |-> NoCert, plan |-> 0]
NoTask == [kind |-> "none", at |-> "idle", cert |-> NoCert, plan |-> 0, old |-> 0, new |-> FALSE]

VpnTypeOK ==
    /\ served \in Cert /\ versions \in Seq(Cert) /\ IsInjective(versions)
    /\ {current, newLink, fingerprint} \subseteq Cert \cup {NoCert} /\ copied \in BOOLEAN
    /\ plan \in Plan /\ {target, lastGood, setAside} \subseteq Plan \cup {0}
    /\ ocserv \in [cert : Cert \cup {NoCert}, plan : Plan \cup {0}]
    /\ task \in [Task -> [kind : {"none", "due", "manual", "edit", "undo", "apply"},
                          at : {"idle", "download", "compare", "version", "unlink", "link", "switch",
                                "unseat", "prune", "record", "ensure", "clear", "save", "place", "check",
                                "restart", "aside", "back", "again", "failed"},
                          cert : Cert \cup {NoCert}, plan : Plan \cup {0}, old : Plan \cup {0},
                          new : BOOLEAN]]
    /\ apart \in BOOLEAN
    /\ tasks \in Nat /\ bad \in Nat /\ breaks \in Nat

Installed == ToSet(versions)
Working == {t \in Task : task[t].at # "idle"}

certVars == <<versions, current, copied, newLink, fingerprint>>
configVars == <<target, lastGood, setAside>>
worldVars == <<served, apart, tasks, bad, breaks>>

Is(t, at) == task[t].at = at
Go(t, at) == task' = [task EXCEPT ![t] = IF at = "idle" THEN NoTask ELSE [@ EXCEPT !.at = at]]

\* A node that serves its first plan, from a link or from what a backup has restored.
VpnInit ==
    /\ \E c \in Cert : /\ served = c /\ versions = <<c>> /\ current = c /\ fingerprint = c
    /\ copied \in BOOLEAN /\ newLink = NoCert
    /\ plan \in Plan \ Rejected /\ target = plan /\ lastGood = 0 /\ setAside = 0
    /\ ocserv = [cert |-> current, plan |-> plan]
    /\ task = [t \in Task |-> NoTask]
    /\ apart = TRUE /\ tasks = 0 /\ bad = 0 /\ breaks = 0

-----------------------------------------------------------------------------
Begun(t, kind, at, old) ==
    /\ Is(t, "idle") /\ tasks < MaxTasks /\ tasks' = tasks + 1
    /\ apart' = (apart /\ Working = {})
    /\ task' = [task EXCEPT ![t] = [NoTask EXCEPT !.kind = kind, !.at = at, !.old = old]]

\* The schedule is due, or the administrator refreshes the certificate.
BeginRefresh(t) ==
    /\ \E kind \in {"due", "manual"} : Begun(t, kind, "download", 0)
    /\ UNCHANGED <<served, bad, breaks, certVars, plan, configVars, ocserv>>

\* Apply of the node as it is: Reconcile, or the administrator.
BeginApply(t) ==
    /\ Begun(t, "apply", "ensure", 0)
    /\ UNCHANGED <<served, bad, breaks, certVars, plan, configVars, ocserv>>

\* A handler stores another plan of the node and applies it.
BeginEdit(t) ==
    /\ Begun(t, "edit", "ensure", plan)
    /\ plan' \in Plan \ {plan}
    /\ bad' = IF plan' \in Rejected THEN bad + 1 ELSE bad
    /\ bad' <= MaxBad
    /\ UNCHANGED <<served, breaks, certVars, configVars, ocserv>>

Serve ==
    /\ tasks < MaxTasks
    /\ served' \in Cert \ {served}
    /\ UNCHANGED <<certVars, plan, configVars, ocserv, task, apart, tasks, bad, breaks>>

-----------------------------------------------------------------------------
\* RefreshCertificates, alone or from Ensure.
Download(t) ==
    /\ Is(t, "download")
    /\ task' = [task EXCEPT ![t].at = "compare", ![t].cert = served]
    /\ UNCHANGED <<certVars, plan, configVars, ocserv, worldVars>>

\* os.Stat follows a link, and finds the file in a directory.
Readable == current # NoCert /\ (copied \/ current \in Installed)

\* Mutant of Changed: a version that is installed is taken for the current one.
ChangedByVersion(t) == task[t].cert \notin Installed

Changed(t) == fingerprint # task[t].cert \/ ~Readable

Compare(t) ==
    /\ Is(t, "compare")
    /\ task' = [task EXCEPT ![t].at = IF Changed(t) THEN "version" ELSE "record", ![t].new = Changed(t)]
    /\ UNCHANGED <<certVars, plan, configVars, ocserv, worldVars>>

\* Mutant of Added: a version that is there is written again.
AddedAlways(t) == Append(versions, task[t].cert)

Added(t) == IF task[t].cert \in Installed THEN versions ELSE Append(versions, task[t].cert)

WriteVersion(t) ==
    /\ Is(t, "version") /\ Go(t, "unlink")
    /\ versions' = Added(t)
    /\ UNCHANGED <<current, copied, newLink, fingerprint, plan, configVars, ocserv, worldVars>>

Unlink(t) ==
    /\ Is(t, "unlink") /\ Go(t, "link")
    /\ newLink' = NoCert
    /\ UNCHANGED <<versions, current, copied, fingerprint, plan, configVars, ocserv, worldVars>>

\* A link another refresh has just made is in the way.
Link(t) ==
    /\ Is(t, "link")
    /\ Go(t, IF newLink = NoCert THEN "switch" ELSE "failed")
    /\ newLink' = IF newLink = NoCert THEN task[t].cert ELSE newLink
    /\ UNCHANGED <<versions, current, copied, fingerprint, plan, configVars, ocserv, worldVars>>

\* Whichever link is there becomes the current one; a directory has to go first.
Switch(t) ==
    /\ Is(t, "switch")
    /\ \/ /\ copied /\ current # NoCert /\ Go(t, "unseat")
          /\ UNCHANGED <<current, copied, newLink>>
       \/ /\ ~copied \/ current = NoCert
          /\ Go(t, IF newLink # NoCert THEN "prune" ELSE "failed")
          /\ current' = IF newLink # NoCert THEN newLink ELSE current
          /\ copied' = (copied /\ newLink = NoCert)
          /\ newLink' = NoCert
    /\ UNCHANGED <<versions, fingerprint, plan, configVars, ocserv, worldVars>>

\* RemoveAll of what is there now, which another refresh may have replaced by its link.
Unseat(t) ==
    /\ Is(t, "unseat") /\ Go(t, "switch")
    /\ current' = NoCert
    /\ UNCHANGED <<versions, copied, newLink, fingerprint, plan, configVars, ocserv, worldVars>>

\* What is left of the versions: the task's own and the newest of the others.
Pruned(t) ==
    LET own == task[t].cert
        newest == Last(versions)
    IN CASE newest # own -> IF own \in Installed THEN <<own, newest>> ELSE <<newest>>
         [] newest = own -> IF Len(versions) = 1 THEN <<own>> ELSE <<versions[Len(versions) - 1], own>>

PruneVersions(t) ==
    /\ Is(t, "prune") /\ Go(t, "record")
    /\ versions' = Pruned(t)
    /\ UNCHANGED <<current, copied, newLink, fingerprint, plan, configVars, ocserv, worldVars>>

\* An Apply goes on with the configuration; a refresh on schedule applies only what is new.
Record(t) ==
    /\ Is(t, "record")
    /\ fingerprint' = task[t].cert
    /\ \/ /\ task[t].kind \in {"edit", "undo", "apply"}
          /\ task' = [task EXCEPT ![t].at = "clear", ![t].cert = NoCert, ![t].new = FALSE]
       \/ /\ task[t].kind = "manual" \/ (task[t].kind = "due" /\ task[t].new)
          /\ task' = [task EXCEPT ![t] = [NoTask EXCEPT !.kind = "apply", !.at = "ensure"]]
       \/ task[t].kind = "due" /\ ~task[t].new /\ Go(t, "idle")
    /\ UNCHANGED <<versions, current, copied, newLink, plan, configVars, ocserv, worldVars>>

-----------------------------------------------------------------------------
\* Apply reads the node, and has the certificate fetched when there is none.
Ensure(t) ==
    /\ Is(t, "ensure")
    /\ task' = [task EXCEPT ![t].plan = plan,
                            ![t].at = IF Readable THEN "clear" ELSE "download"]
    /\ UNCHANGED <<certVars, plan, configVars, ocserv, worldVars>>

\* PrepareConfig.
ClearLastGood(t) ==
    /\ Is(t, "clear") /\ Go(t, "save")
    /\ lastGood' = 0
    /\ UNCHANGED <<certVars, plan, target, setAside, ocserv, worldVars>>

SaveTarget(t) ==
    /\ Is(t, "save")
    /\ IF target # 0 /\ lastGood # 0
       THEN Go(t, "failed") /\ UNCHANGED configVars
       ELSE Go(t, "place") /\ target' = 0 /\ setAside' = setAside
            /\ lastGood' = IF target # 0 THEN target ELSE lastGood
    /\ UNCHANGED <<certVars, plan, ocserv, worldVars>>

PlaceConfig(t) ==
    /\ Is(t, "place")
    /\ Go(t, IF target = 0 THEN "check" ELSE "failed")
    /\ target' = IF target = 0 THEN task[t].plan ELSE target
    /\ UNCHANGED <<certVars, plan, lastGood, setAside, ocserv, worldVars>>

\* validateAnyConnectConfig looks at the configuration in its place.
Check(t) ==
    /\ Is(t, "check")
    /\ task' = [task EXCEPT ![t].at = IF target \in Plan \ Rejected THEN "restart" ELSE "aside",
                            ![t].new = FALSE]
    /\ UNCHANGED <<certVars, plan, configVars, ocserv, worldVars>>

Loaded == IF Readable /\ target \in Plan \ Rejected THEN [cert |-> current, plan |-> target] ELSE Off

\* Restart; when it fails, the configuration is rolled back and the server restarted again.
RestartServer(t) ==
    /\ Is(t, "restart")
    /\ \/ target # 0 /\ Go(t, "idle") /\ ocserv' = Loaded /\ bad' = bad
       \/ /\ target # 0 => bad < MaxBad
          /\ bad' = IF target # 0 THEN bad + 1 ELSE bad
          /\ task' = [task EXCEPT ![t].at = "aside", ![t].new = TRUE]
          /\ ocserv' = Off
    /\ UNCHANGED <<certVars, plan, configVars, served, apart, tasks, breaks>>

\* RollbackConfig sets the target aside, or removes it when there is no last good one.
SetAside(t) ==
    /\ Is(t, "aside")
    /\ \/ /\ lastGood = 0
          /\ Go(t, IF task[t].new THEN "again" ELSE "failed")
          /\ target' = 0 /\ setAside' = setAside
       \/ /\ lastGood # 0
          /\ Go(t, IF target # 0 THEN "back" ELSE "failed")
          /\ target' = 0 /\ setAside' = target
    /\ UNCHANGED <<certVars, plan, lastGood, ocserv, worldVars>>

\* Mutant of Restored: both configurations are removed.
RestoredNone == [target |-> 0, lastGood |-> 0]

\* The last good configuration comes back, or the failed one if it cannot.
Restored == IF target = 0 /\ lastGood # 0 THEN [target |-> lastGood, lastGood |-> 0]
            ELSE [target |-> IF target = 0 THEN setAside ELSE target, lastGood |-> lastGood]

BringBack(t) ==
    /\ Is(t, "back")
    /\ Go(t, IF task[t].new /\ target = 0 /\ lastGood # 0 THEN "again" ELSE "failed")
    /\ target' = Restored.target /\ lastGood' = Restored.lastGood /\ setAside' = 0
    /\ UNCHANGED <<certVars, plan, ocserv, worldVars>>

\* The error of the second Restart is dropped, and with it the server stays off.
RestartAgain(t) ==
    /\ Is(t, "again") /\ Go(t, "failed")
    /\ \/ ocserv' = Loaded /\ bad' = bad
       \/ ocserv' = Off /\ bad < MaxBad /\ bad' = bad + 1
    /\ UNCHANGED <<certVars, plan, configVars, served, apart, tasks, breaks>>

\* A handler whose Apply failed stores the old plan and applies that.
EndFailed(t) ==
    /\ Is(t, "failed")
    /\ IF task[t].kind = "edit"
       THEN /\ plan' = task[t].old
            /\ task' = [task EXCEPT ![t] = [NoTask EXCEPT !.kind = "undo", !.at = "ensure"]]
       ELSE Go(t, "idle") /\ plan' = plan
    /\ UNCHANGED <<certVars, configVars, ocserv, worldVars>>

-----------------------------------------------------------------------------
\* A download is refused, a file cannot be written or a query fails.  A configuration in
\* its place is not rolled back when a later step of PrepareConfig fails.
Broken(t) ==
    /\ breaks < MaxBreaks /\ breaks' = breaks + 1
    /\ task[t].at \in {"download", "version", "link", "switch", "unseat", "prune", "record",
                       "ensure", "clear", "save", "place", "check"}
    /\ Go(t, "failed")
    /\ newLink' = IF task[t].at \in {"switch", "unseat"} THEN NoCert ELSE newLink
    /\ IF Is(t, "place") /\ target = 0
       THEN target' = lastGood /\ lastGood' = 0
       ELSE UNCHANGED <<target, lastGood>>
    /\ UNCHANGED <<versions, current, copied, fingerprint, plan, setAside, ocserv, served, apart, tasks, bad>>

\* The container dies; what is on disk stays, and Reconcile applies the node again.
Death ==
    /\ breaks < MaxBreaks /\ breaks' = breaks + 1
    /\ task' = [t \in Task |-> NoTask]
    /\ ocserv' = Off
    /\ UNCHANGED <<certVars, plan, configVars, served, apart, tasks, bad>>

VpnNext ==
    \/ Serve
    \/ \E t \in Task :
        \/ BeginRefresh(t) \/ BeginApply(t) \/ BeginEdit(t)
        \/ Download(t) \/ Compare(t) \/ WriteVersion(t) \/ Unlink(t) \/ Link(t) \/ Switch(t)
        \/ Unseat(t) \/ PruneVersions(t) \/ Record(t)
        \/ Ensure(t) \/ ClearLastGood(t) \/ SaveTarget(t) \/ PlaceConfig(t) \/ Check(t)
        \/ RestartServer(t) \/ SetAside(t) \/ BringBack(t) \/ RestartAgain(t) \/ EndFailed(t)
        \/ Broken(t)
    \/ Death

VpnSpec == VpnInit /\ [][VpnNext]_vpnVars

-----------------------------------------------------------------------------
\* A certificate-current that is a link leads to an installed version whatever fails or
\* dies between two steps.  A directory that a backup has restored is removed before the
\* link takes its place: then there is no certificate for a while, and for longer only
\* after a failure or death.  Between refreshes the current certificate is the one whose
\* fingerprint is recorded, unless a step failed.  Not so for two refreshes at once: one
\* may link the older certificate last and the other record last, and no later refresh
\* sees the difference.
CertificateTaken ==
    apart => /\ copied \/ current \in Installed
             /\ copied /\ current = NoCert => breaks > 0 \/ \E t \in Task : Is(t, "switch")
             /\ Working = {} /\ breaks = 0 => current = fingerprint

\* Between Applies the server runs the stored plan with the current certificate, also
\* after a plan ocserv rejects or a restart that failed, and is off only where the second
\* restart failed as well; and one failure or death leaves a configuration a server can
\* be started with.
ApplyRestores ==
    apart /\ Working = {} =>
        /\ breaks = 0 => /\ target = plan
                         /\ \/ ocserv = [cert |-> current, plan |-> plan]
                            \/ ocserv = Off /\ bad >= 2
        /\ bad + breaks <= 1 => {target, lastGood} \cap (Plan \ Rejected) # {}
=============================================================================
