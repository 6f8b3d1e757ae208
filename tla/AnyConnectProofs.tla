-------------------------- MODULE AnyConnectProofs --------------------------
(***************************************************************************)
(* Theorems about three parts of the AnyConnect nodes. VpnFiles, for any   *)
(* number of goroutines, certificates and plans: the types, that the       *)
(* current certificate is an installed one whatever dies or fails and the  *)
(* one on record between refreshes, and that an Apply that failed leaves   *)
(* the server with what it ran before. Accounts, for any number of nodes,  *)
(* accounts and files: the types, that a request whose Apply failed is     *)
(* undone, and that an import that reports success has merged its file.    *)
(* Cidr, for addresses of any width and any special-use prefixes: the      *)
(* types, and that the routes are exact.                                   *)
(***************************************************************************)
EXTENDS VpnFiles, Accounts, Cidr, FiniteSetTheorems, WellFoundedInduction, TLAPS

-----------------------------------------------------------------------------
(* VpnFiles: types.                                                        *)

TaskStage == {"idle", "download", "compare", "version", "unlink", "link", "switch",
       "unseat", "prune", "record", "ensure", "clear", "save", "place", "check",
       "restart", "aside", "back", "again", "failed"}

Goroutine == [kind : {"none", "due", "manual", "edit", "undo", "apply"}, at : TaskStage,
              cert : Cert \cup {NoCert}, plan : Plan \cup {0}, old : Plan \cup {0}, new : BOOLEAN]

Refreshing == {"download", "compare", "version", "unlink", "link", "switch", "unseat", "prune", "record"}

\* A refresh has its certificate once it is downloaded, and an Apply its plan.
Holds(g) ==
    /\ g.at \in Refreshing \ {"download"} => g.cert \in Cert
    /\ g.kind = "edit" => g.old \in Plan
    /\ g.at \in {"clear", "save", "place"} => g.plan \in Plan
    /\ g.at \in Refreshing => g.kind \in {"due", "manual"} \/ g.plan \in Plan

Goroutines == {g \in Goroutine : Holds(g)}

\* Nothing removes the last version.
VpnTypes == VpnTypeOK /\ versions # <<>> /\ task \in [Task -> Goroutines]

LEMMA VersionTypes ==
    ASSUME VpnTypes, NEW t \in Task
    PROVE  /\ Len(versions) \in Nat \ {0} /\ Last(versions) \in Installed /\ Installed \subseteq Cert
           /\ task[t].cert \in Cert => Added(t) \in Seq(Cert) /\ IsInjective(Added(t)) /\ Added(t) # <<>>
           /\ Pruned(t) \in Seq(Cert) /\ IsInjective(Pruned(t)) /\ Pruned(t) # <<>>
<1>1. /\ versions \in Seq(Cert) /\ IsInjective(versions) /\ Len(versions) \in Nat \ {0}
      /\ DOMAIN versions = 1 .. Len(versions)
  BY DEF VpnTypes, VpnTypeOK
<1>2. Last(versions) \in Installed /\ Installed \subseteq Cert
  BY <1>1 DEF Last, Installed, ToSet
<1>3. ASSUME task[t].cert \in Cert
      PROVE  Added(t) \in Seq(Cert) /\ IsInjective(Added(t)) /\ Added(t) # <<>>
  <2>1. CASE task[t].cert \in Installed
    BY <1>1, <2>1 DEF Added
  <2>2. CASE task[t].cert \notin Installed
    <3>1. Added(t) = Append(versions, task[t].cert)
      BY <2>2 DEF Added
    <3>2. \A k \in 1 .. Len(versions) : versions[k] # task[t].cert
      BY <1>1, <2>2 DEF Installed, ToSet
    <3>3. QED
      BY <1>1, <1>3, <3>1, <3>2 DEF IsInjective
  <2>3. QED
    BY <2>1, <2>2
<1>4. Pruned(t) \in Seq(Cert) /\ IsInjective(Pruned(t)) /\ Pruned(t) # <<>>
  <2> DEFINE own == task[t].cert
             n == Len(versions)
  <2>0. own \in Installed => own \in Cert
    BY <1>2
  <2>1. CASE Last(versions) # own /\ own \in Installed
    <3>1. Pruned(t) = <<own, Last(versions)>>
      BY <2>1 DEF Pruned
    <3>2. QED
      BY <1>2, <2>1, <3>1 DEF IsInjective
  <2>2. CASE Last(versions) # own /\ own \notin Installed
    <3>1. Pruned(t) = <<Last(versions)>>
      BY <2>2 DEF Pruned
    <3>2. QED
      BY <1>2, <3>1 DEF IsInjective
  <2>3. CASE Last(versions) = own /\ n = 1
    <3>1. Pruned(t) = <<own>>
      BY <2>3 DEF Pruned
    <3>2. QED
      BY <1>2, <2>3, <3>1 DEF IsInjective
  <2>4. CASE Last(versions) = own /\ n # 1
    <3>1. Pruned(t) = <<versions[n - 1], own>>
      BY <2>4 DEF Pruned
    <3>2. own = versions[n] /\ n - 1 \in 1 .. n /\ n \in 1 .. n
      BY <1>1, <2>4 DEF Last
    <3>3. versions[n - 1] \in Cert /\ versions[n - 1] # own
      BY <1>1, <3>2 DEF IsInjective
    <3>4. QED
      BY <1>2, <2>4, <3>1, <3>3 DEF IsInjective
  <2>5. QED
    BY <2>1, <2>2, <2>3, <2>4
<1>5. QED
  BY <1>1, <1>2, <1>3, <1>4

LEMMA NoTaskType == NoTask \in Goroutines
  BY DEF NoTask, Goroutines, Goroutine, Holds, TaskStage, Refreshing

LEMMA GoType ==
    ASSUME VpnTypes, NEW t \in Task, NEW at \in TaskStage, Go(t, at),
           at \in Refreshing => task[t].at \in Refreshing \ {"download"},
           at \in {"clear", "save", "place"} => task[t].plan \in Plan
    PROVE  task' \in [Task -> Goroutines]
<1>1. [task[t] EXCEPT !.at = at] \in Goroutines
  BY DEF VpnTypes, Goroutines, Goroutine, Holds
<1>2. QED
  BY <1>1, NoTaskType DEF Go, VpnTypes

LEMMA VpnInitTypes == VpnInit => VpnTypes
<1> SUFFICES ASSUME VpnInit PROVE VpnTypes
  OBVIOUS
<1>1. PICK c \in Cert : served = c /\ versions = <<c>> /\ current = c /\ fingerprint = c
  BY DEF VpnInit
<1>2. versions \in Seq(Cert) /\ IsInjective(versions) /\ versions # <<>>
  BY <1>1 DEF IsInjective
<1>3. task \in [Task -> Goroutines]
  BY NoTaskType DEF VpnInit
<1>4. VpnTypeOK
  BY <1>1, <1>2, <1>3 DEF VpnInit, VpnTypeOK, Goroutines, Goroutine, TaskStage
<1>5. QED
  BY <1>2, <1>3, <1>4 DEF VpnTypes

\* What a step has to keep.
LEMMA VpnTypesFrom ==
    ASSUME served' \in Cert, versions' \in Seq(Cert), IsInjective(versions'), versions' # <<>>,
           current' \in Cert \cup {NoCert}, copied' \in BOOLEAN, newLink' \in Cert \cup {NoCert},
           fingerprint' \in Cert \cup {NoCert},
           plan' \in Plan, target' \in Plan \cup {0}, lastGood' \in Plan \cup {0}, setAside' \in Plan \cup {0},
           ocserv' \in [cert : Cert \cup {NoCert}, plan : Plan \cup {0}],
           task' \in [Task -> Goroutines], apart' \in BOOLEAN, tasks' \in Nat, bad' \in Nat, breaks' \in Nat
    PROVE  VpnTypes'
  BY DEF VpnTypes, VpnTypeOK, Goroutines, Goroutine, TaskStage

LEMMA VpnTypesParts ==
    ASSUME VpnTypes
    PROVE  /\ served \in Cert /\ versions \in Seq(Cert) /\ IsInjective(versions) /\ versions # <<>>
           /\ current \in Cert \cup {NoCert} /\ newLink \in Cert \cup {NoCert}
           /\ fingerprint \in Cert \cup {NoCert} /\ copied \in BOOLEAN
           /\ plan \in Plan /\ target \in Plan \cup {0} /\ lastGood \in Plan \cup {0}
           /\ setAside \in Plan \cup {0}
           /\ ocserv \in [cert : Cert \cup {NoCert}, plan : Plan \cup {0}]
           /\ task \in [Task -> Goroutines] /\ apart \in BOOLEAN
           /\ tasks \in Nat /\ bad \in Nat /\ breaks \in Nat
  BY DEF VpnTypes, VpnTypeOK

LEMMA RefreshTypes ==
    ASSUME VpnTypes, NEW t \in Task,
           \/ Download(t) \/ Compare(t) \/ WriteVersion(t) \/ Unlink(t) \/ Link(t) \/ Switch(t)
           \/ Unseat(t) \/ PruneVersions(t) \/ Record(t)
    PROVE  VpnTypes'
<1> USE DEF certVars, configVars, worldVars
<1>0. /\ task[t] \in Goroutines /\ task[t] \in Goroutine /\ Holds(task[t])
      /\ task[t].cert \in Cert \cup {NoCert}
      /\ task[t].at \in Refreshing \ {"download"} => task[t].cert \in Cert
  BY VpnTypesParts DEF Goroutines, Goroutine, Holds
<1>1. CASE Download(t)
  <2>1. PICK g : g = [task[t] EXCEPT !.at = "compare", !.cert = served]
    OBVIOUS
  <2>2. g \in Goroutine /\ g.at = "compare" /\ g.cert = served /\ g.kind = task[t].kind /\ g.plan = task[t].plan
        /\ g.old = task[t].old
    BY <1>0, <2>1, VpnTypesParts DEF Goroutine, TaskStage
  <2>3. Holds(g)
    BY <1>0, <1>1, <2>2, VpnTypesParts DEF Holds, Download, Is, Refreshing
  <2>4. task' \in [Task -> Goroutines]
    BY <1>1, <2>1, <2>2, <2>3, VpnTypesParts DEF Download, Goroutines
  <2>5. QED
    BY <1>1, <2>4, VpnTypesParts, VpnTypesFrom DEF Download
<1>2. CASE Compare(t)
  <2>1. PICK g : g = [task[t] EXCEPT !.at = IF Changed(t) THEN "version" ELSE "record", !.new = Changed(t)]
    OBVIOUS
  <2>2. g \in Goroutine /\ g.at \in {"version", "record"} /\ g.cert = task[t].cert /\ g.kind = task[t].kind
        /\ g.plan = task[t].plan /\ g.old = task[t].old
    BY <1>0, <2>1 DEF Goroutine, TaskStage, Changed
  <2>3. Holds(g)
    BY <1>0, <1>2, <2>2 DEF Holds, Compare, Is, Refreshing
  <2>4. task' \in [Task -> Goroutines]
    BY <1>2, <2>1, <2>2, <2>3, VpnTypesParts DEF Compare, Goroutines
  <2>5. QED
    BY <1>2, <2>4, VpnTypesParts, VpnTypesFrom DEF Compare
<1>3. CASE WriteVersion(t)
  <2>1. task' \in [Task -> Goroutines]
    BY <1>0, <1>3, GoType DEF WriteVersion, Is, TaskStage, Refreshing
  <2>2. QED
    BY <1>0, <1>3, <2>1, VersionTypes, VpnTypesParts, VpnTypesFrom DEF WriteVersion, Is, Refreshing
<1>4. CASE Unlink(t)
  <2>1. task' \in [Task -> Goroutines]
    BY <1>0, <1>4, GoType DEF Unlink, Is, TaskStage, Refreshing
  <2>2. QED
    BY <1>4, <2>1, VpnTypesParts, VpnTypesFrom DEF Unlink
<1>5. CASE Link(t)
  <2>1. task' \in [Task -> Goroutines]
    BY <1>0, <1>5, GoType DEF Link, Is, TaskStage, Refreshing
  <2>2. QED
    BY <1>0, <1>5, <2>1, VpnTypesParts, VpnTypesFrom DEF Link
<1>6. CASE Switch(t)
  <2>1. task' \in [Task -> Goroutines]
    <3>1. PICK at \in {"unseat", "prune", "failed"} : Go(t, at)
      BY <1>6 DEF Switch
    <3>2. QED
      BY <1>0, <1>6, <3>1, GoType DEF Switch, Is, TaskStage, Refreshing
  <2>2. /\ current' \in {current, newLink} /\ newLink' \in {newLink, NoCert}
        /\ copied' \in BOOLEAN
    BY <1>6, VpnTypesParts DEF Switch
  <2>3. QED
    BY <1>6, <2>1, <2>2, VpnTypesParts, VpnTypesFrom DEF Switch
<1>7. CASE PruneVersions(t)
  <2>1. task' \in [Task -> Goroutines]
    BY <1>0, <1>7, GoType DEF PruneVersions, Is, TaskStage, Refreshing
  <2>2. QED
    BY <1>7, <2>1, VersionTypes, VpnTypesParts, VpnTypesFrom DEF PruneVersions
<1>8. CASE Record(t)
  <2>1. task' \in [Task -> Goroutines]
    <3>1. CASE /\ task[t].kind \in {"edit", "undo", "apply"}
               /\ task' = [task EXCEPT ![t].at = "clear", ![t].cert = NoCert, ![t].new = FALSE]
      <4>1. task[t].kind \in {"edit", "undo", "apply"}
        BY <3>1
      <4>2. PICK g : g = [task[t] EXCEPT !.at = "clear", !.cert = NoCert, !.new = FALSE]
        OBVIOUS
      <4>3. g \in Goroutine /\ g.at = "clear" /\ g.plan = task[t].plan /\ g.kind = task[t].kind
            /\ g.old = task[t].old
        BY <1>0, <4>2 DEF Goroutine, TaskStage
      <4>4. Holds(g)
        BY <1>0, <1>8, <4>1, <4>3 DEF Holds, Record, Is, Refreshing
      <4>5. QED
        BY <3>1, <4>2, <4>3, <4>4, VpnTypesParts DEF Goroutines
    <3>2. CASE task' = [task EXCEPT ![t] = [NoTask EXCEPT !.kind = "apply", !.at = "ensure"]]
      <4>1. [NoTask EXCEPT !.kind = "apply", !.at = "ensure"] \in Goroutines
        BY DEF NoTask, Goroutines, Goroutine, Holds, TaskStage, Refreshing
      <4>2. QED
        BY <3>2, <4>1, VpnTypesParts
    <3>3. CASE Go(t, "idle")
      BY <3>3, GoType DEF TaskStage, Refreshing
    <3>4. QED
      BY <1>8, <3>1, <3>2, <3>3 DEF Record
  <2>2. QED
    BY <1>0, <1>8, <2>1, VpnTypesParts, VpnTypesFrom DEF Record, Is, Refreshing
<1>9. CASE Unseat(t)
  <2>1. task' \in [Task -> Goroutines]
    BY <1>0, <1>9, GoType DEF Unseat, Is, TaskStage, Refreshing
  <2>2. QED
    BY <1>9, <2>1, VpnTypesParts, VpnTypesFrom DEF Unseat
<1>10. QED
  BY <1>1, <1>2, <1>3, <1>4, <1>5, <1>6, <1>7, <1>8, <1>9

\* The steps of an Apply.
LEMMA ApplyTypes ==
    ASSUME VpnTypes, NEW t \in Task,
           \/ Ensure(t) \/ ClearLastGood(t) \/ SaveTarget(t) \/ PlaceConfig(t) \/ Check(t)
           \/ RestartServer(t) \/ SetAside(t) \/ BringBack(t) \/ RestartAgain(t) \/ EndFailed(t)
    PROVE  VpnTypes'
<1> USE DEF certVars, configVars, worldVars
<1>0. /\ task[t] \in Goroutines /\ task[t] \in Goroutine /\ Holds(task[t])
      /\ task[t].plan \in Plan \cup {0}
      /\ Loaded \in [cert : Cert \cup {NoCert}, plan : Plan \cup {0}]
      /\ Off \in [cert : Cert \cup {NoCert}, plan : Plan \cup {0}]
  BY VpnTypesParts DEF Goroutines, Goroutine, Holds, Loaded, Off
<1>1. CASE Ensure(t)
  <2>1. PICK g : g = [task[t] EXCEPT !.plan = plan, !.at = IF Readable THEN "clear" ELSE "download"]
    OBVIOUS
  <2>2. g \in Goroutine /\ g.at \in {"clear", "download"} /\ g.plan = plan /\ g.cert = task[t].cert
        /\ g.kind = task[t].kind /\ g.old = task[t].old
    BY <1>0, <2>1, VpnTypesParts DEF Goroutine, TaskStage
  <2>3. Holds(g)
    BY <1>0, <1>1, <2>2, VpnTypesParts DEF Holds, Refreshing
  <2>4. task' \in [Task -> Goroutines]
    BY <1>1, <2>1, <2>2, <2>3, VpnTypesParts DEF Ensure, Goroutines
  <2>5. QED
    BY <1>1, <2>4, VpnTypesParts, VpnTypesFrom DEF Ensure
<1>2. CASE ClearLastGood(t)
  <2>1. task' \in [Task -> Goroutines]
    BY <1>0, <1>2, GoType DEF ClearLastGood, Is, TaskStage, Refreshing, Holds
  <2>2. QED
    BY <1>2, <2>1, VpnTypesParts, VpnTypesFrom DEF ClearLastGood
<1>3. CASE SaveTarget(t)
  <2>1. task' \in [Task -> Goroutines]
    BY <1>0, <1>3, GoType DEF SaveTarget, Is, TaskStage, Refreshing, Holds
  <2>2. QED
    BY <1>3, <2>1, VpnTypesParts, VpnTypesFrom DEF SaveTarget
<1>4. CASE PlaceConfig(t)
  <2>1. task' \in [Task -> Goroutines]
    BY <1>0, <1>4, GoType DEF PlaceConfig, Is, TaskStage, Refreshing
  <2>2. QED
    BY <1>0, <1>4, <2>1, VpnTypesParts, VpnTypesFrom DEF PlaceConfig
<1>5. CASE Check(t)
  <2>1. PICK g : g = [task[t] EXCEPT !.at = IF target \in Plan \ Rejected THEN "restart" ELSE "aside", !.new = FALSE]
    OBVIOUS
  <2>2. g \in Goroutine /\ g.at \in {"restart", "aside"} /\ g.kind = task[t].kind /\ g.old = task[t].old
    BY <1>0, <2>1 DEF Goroutine, TaskStage
  <2>3. Holds(g)
    BY <1>0, <2>2 DEF Holds, Refreshing
  <2>4. task' \in [Task -> Goroutines]
    BY <1>5, <2>1, <2>2, <2>3, VpnTypesParts DEF Check, Goroutines
  <2>5. QED
    BY <1>5, <2>4, VpnTypesParts, VpnTypesFrom DEF Check
<1>6. CASE RestartServer(t)
  <2>1. PICK g : g = [task[t] EXCEPT !.at = "aside", !.new = TRUE]
    OBVIOUS
  <2>2. g \in Goroutine /\ g.at = "aside" /\ g.kind = task[t].kind /\ g.old = task[t].old
    BY <1>0, <2>1 DEF Goroutine, TaskStage
  <2>3. Holds(g)
    BY <1>0, <2>2 DEF Holds, Refreshing
  <2>4. task' \in [Task -> Goroutines]
    <3>1. CASE Go(t, "idle")
      BY <3>1, GoType DEF TaskStage, Refreshing
    <3>2. CASE task' = [task EXCEPT ![t].at = "aside", ![t].new = TRUE]
      BY <3>2, <2>1, <2>2, <2>3, VpnTypesParts DEF Goroutines
    <3>3. QED
      BY <1>6, <3>1, <3>2 DEF RestartServer
  <2>5. ocserv' \in {Loaded, Off} /\ bad' \in Nat
    BY <1>6, VpnTypesParts DEF RestartServer
  <2>6. QED
    BY <1>0, <1>6, <2>4, <2>5, VpnTypesParts, VpnTypesFrom DEF RestartServer
<1>7. CASE SetAside(t)
  <2>1. task' \in [Task -> Goroutines]
    BY <1>0, <1>7, GoType DEF SetAside, Is, TaskStage, Refreshing
  <2>2. QED
    BY <1>7, <2>1, VpnTypesParts, VpnTypesFrom DEF SetAside
<1>8. CASE BringBack(t)
  <2>1. task' \in [Task -> Goroutines]
    BY <1>0, <1>8, GoType DEF BringBack, Is, TaskStage, Refreshing
  <2>2. QED
    BY <1>8, <2>1, VpnTypesParts, VpnTypesFrom DEF BringBack, Restored
<1>9. CASE RestartAgain(t)
  <2>1. task' \in [Task -> Goroutines]
    BY <1>0, <1>9, GoType DEF RestartAgain, Is, TaskStage, Refreshing
  <2>2. ocserv' \in {Loaded, Off} /\ bad' \in Nat
    BY <1>9, VpnTypesParts DEF RestartAgain
  <2>3. QED
    BY <1>0, <1>9, <2>1, <2>2, VpnTypesParts, VpnTypesFrom DEF RestartAgain
<1>10. CASE EndFailed(t)
  <2>1. [NoTask EXCEPT !.kind = "undo", !.at = "ensure"] \in Goroutines
    BY DEF NoTask, Goroutines, Goroutine, Holds, TaskStage, Refreshing
  <2>2. task' \in [Task -> Goroutines]
    <3>1. CASE task[t].kind = "edit"
      BY <1>10, <2>1, <3>1, VpnTypesParts DEF EndFailed
    <3>2. CASE task[t].kind # "edit"
      <4>1. Go(t, "idle")
        BY <1>10, <3>2 DEF EndFailed
      <4>2. QED
        BY <4>1, GoType DEF TaskStage, Refreshing
    <3>3. QED
      BY <3>1, <3>2
  <2>3. plan' \in Plan
    BY <1>0, <1>10, VpnTypesParts DEF EndFailed, Holds
  <2>4. QED
    BY <1>10, <2>2, <2>3, VpnTypesParts, VpnTypesFrom DEF EndFailed
<1>11. QED
  BY <1>1, <1>2, <1>3, <1>4, <1>5, <1>6, <1>7, <1>8, <1>9, <1>10

\* What begins, and what breaks.
LEMMA VpnOtherTypes ==
    ASSUME VpnTypes,
           \/ Serve \/ Death
           \/ \E t \in Task : BeginRefresh(t) \/ BeginApply(t) \/ BeginEdit(t) \/ Broken(t)
    PROVE  VpnTypes'
<1> USE DEF certVars, configVars, worldVars
<1>1. CASE Serve
  BY <1>1, VpnTypesParts, VpnTypesFrom DEF Serve
<1>2. CASE Death
  <2>1. Off \in [cert : Cert \cup {NoCert}, plan : Plan \cup {0}] /\ task' \in [Task -> Goroutines]
    BY <1>2, NoTaskType DEF Off, Death
  <2>2. QED
    BY <1>2, <2>1, VpnTypesParts, VpnTypesFrom DEF Death
<1>3. ASSUME NEW t \in Task, BeginRefresh(t) \/ BeginApply(t) \/ BeginEdit(t)
      PROVE  VpnTypes'
  <2>1. PICK kind \in {"due", "manual", "apply", "edit"}, at \in {"download", "ensure"}, old \in Plan \cup {0} :
           /\ Begun(t, kind, at, old)
           /\ kind = "edit" => old \in Plan
           /\ at = "download" => kind \in {"due", "manual"}
    BY <1>3, VpnTypesParts DEF BeginRefresh, BeginApply, BeginEdit
  <2>2. PICK g : g = [NoTask EXCEPT !.kind = kind, !.at = at, !.old = old]
    OBVIOUS
  <2>3. g \in Goroutine /\ g.at = at /\ g.kind = kind /\ g.old = old
    BY <2>2 DEF NoTask, Goroutine, TaskStage
  <2>4. Holds(g)
    BY <2>1, <2>3 DEF Holds, Refreshing
  <2>5. task' \in [Task -> Goroutines] /\ apart' \in BOOLEAN /\ tasks' \in Nat
    BY <2>1, <2>2, <2>3, <2>4, VpnTypesParts DEF Begun, Goroutines
  <2>6. plan' \in Plan /\ bad' \in Nat
    BY <1>3, VpnTypesParts DEF BeginRefresh, BeginApply, BeginEdit
  <2>7. UNCHANGED <<served, breaks, certVars, configVars, ocserv>>
    BY <1>3 DEF BeginRefresh, BeginApply, BeginEdit
  <2>8. QED
    BY <2>5, <2>6, <2>7, VpnTypesParts, VpnTypesFrom
<1>4. ASSUME NEW t \in Task, Broken(t)
      PROVE  VpnTypes'
  <2>1. task' \in [Task -> Goroutines]
    BY <1>4, GoType DEF Broken, TaskStage, Refreshing
  <2>2. QED
    BY <1>4, <2>1, VpnTypesParts, VpnTypesFrom DEF Broken
<1>5. QED
  BY <1>1, <1>2, <1>3, <1>4

LEMMA VpnStepTypes == VpnTypes /\ [VpnNext]_vpnVars => VpnTypes'
<1> SUFFICES ASSUME VpnTypes, [VpnNext]_vpnVars PROVE VpnTypes'
  OBVIOUS
<1>1. CASE VpnNext
  BY <1>1, RefreshTypes, ApplyTypes, VpnOtherTypes DEF VpnNext
<1>2. CASE UNCHANGED vpnVars
  BY <1>2, VpnTypesParts, VpnTypesFrom DEF vpnVars
<1>3. QED
  BY <1>1, <1>2

\* Every variable of the files of a node keeps its type, and the last version is never removed.
THEOREM VpnTypeCorrect == VpnSpec => []VpnTypeOK
<1>1. VpnTypes => VpnTypeOK
  BY DEF VpnTypes
<1>2. QED
  BY <1>1, VpnInitTypes, VpnStepTypes, PTL DEF VpnSpec

-----------------------------------------------------------------------------
(* VpnFiles: the current certificate.                                      *)

\* What a goroutine does once it has begun.
RefreshStep(t) ==
    \/ Download(t) \/ Compare(t) \/ WriteVersion(t) \/ Unlink(t) \/ Link(t) \/ Switch(t)
    \/ Unseat(t) \/ PruneVersions(t) \/ Record(t)

ApplyStep(t) ==
    \/ Ensure(t) \/ ClearLastGood(t) \/ SaveTarget(t) \/ PlaceConfig(t) \/ Check(t)
    \/ RestartServer(t) \/ SetAside(t) \/ BringBack(t) \/ RestartAgain(t) \/ EndFailed(t)

TaskBegin(t) == BeginRefresh(t) \/ BeginApply(t) \/ BeginEdit(t)

Alone == \A s, t \in Task : task[s].at # "idle" /\ task[t].at # "idle" => s = t

\* Where a refresh is, and where its certificate is then.
Leads(t) ==
    /\ task[t].at \in Refreshing /\ breaks = 0 => task[t].kind \in {"due", "manual"}
    /\ task[t].at \in {"unlink", "link", "switch", "unseat"} => task[t].cert \in Installed
    /\ task[t].at = "link" => newLink = NoCert
    /\ task[t].at \in {"switch", "unseat"} => newLink = task[t].cert
    /\ task[t].at = "unseat" => copied
    /\ task[t].at = "prune" => ~copied /\ current = task[t].cert
    /\ task[t].at = "record" /\ breaks = 0 => current = task[t].cert

\* Of goroutines that do not overlap one is at work, a restored directory is there until
\* its place is taken, and from there to the record the fingerprint is another one.
Linked ==
    apart => /\ Alone /\ \A t \in Task : Leads(t)
             /\ copied \/ current \in Installed
             /\ breaks = 0 /\ (\A t \in Task : task[t].at # "switch") => ~copied \/ current # NoCert
             /\ breaks = 0 /\ (\A t \in Task : task[t].at \notin {"switch", "unseat", "prune", "record"})
                    => current = fingerprint

LEMMA GoMeans ==
    ASSUME VpnTypes, NEW t \in Task, NEW at, Go(t, at)
    PROVE  /\ \A s \in Task \ {t} : task'[s] = task[s]
           /\ task'[t].at = at
           /\ at # "idle" => /\ task'[t].kind = task[t].kind /\ task'[t].cert = task[t].cert
                             /\ task'[t].plan = task[t].plan /\ task'[t].old = task[t].old
                             /\ task'[t].new = task[t].new
  BY DEF Go, VpnTypes, Goroutines, Goroutine, NoTask

\* Where the steps of a goroutine lead it.
LEMMA StepMeans ==
    ASSUME VpnTypes, NEW t \in Task, RefreshStep(t) \/ ApplyStep(t) \/ Broken(t)
    PROVE  /\ task[t].at # "idle" /\ apart' = apart
           /\ \A s \in Task \ {t} : task'[s] = task[s]
<1> USE DEF Is, worldVars
<1>0. task \in [Task -> Goroutines]
  BY VpnTypesParts
<1>1. CASE RefreshStep(t)
  BY <1>0, <1>1, GoMeans DEF RefreshStep, Download, Compare, WriteVersion, Unlink, Link, Switch, Unseat,
     PruneVersions, Record
<1>2. CASE ApplyStep(t)
  BY <1>0, <1>2, GoMeans DEF ApplyStep, Ensure, ClearLastGood, SaveTarget, PlaceConfig, Check, RestartServer,
     SetAside, BringBack, RestartAgain, EndFailed
<1>3. CASE Broken(t)
  BY <1>0, <1>3, GoMeans DEF Broken
<1>4. QED
  BY <1>1, <1>2, <1>3

LEMMA BeginMeans ==
    ASSUME VpnTypes, NEW t \in Task, TaskBegin(t)
    PROVE  /\ task[t].at = "idle" /\ apart' = (apart /\ Working = {})
           /\ \A s \in Task \ {t} : task'[s] = task[s]
           /\ task'[t].kind \in {"due", "manual", "apply", "edit"} /\ task'[t].at \in {"download", "ensure"}
           /\ task'[t].at = "download" <=> task'[t].kind \in {"due", "manual"}
           /\ task'[t].plan = 0 /\ task'[t].old = IF task'[t].kind = "edit" THEN plan ELSE 0
           /\ task'[t].kind = "edit" => plan' \in Plan /\ bad' = IF plan' \in Rejected THEN bad + 1 ELSE bad
           /\ task'[t].kind # "edit" => plan' = plan /\ bad' = bad
           /\ UNCHANGED <<served, breaks, certVars, configVars, ocserv>>
<1>1. ASSUME NEW kind, NEW at, NEW old, Begun(t, kind, at, old)
      PROVE  /\ task[t].at = "idle" /\ apart' = (apart /\ Working = {})
             /\ \A s \in Task \ {t} : task'[s] = task[s]
             /\ task'[t].kind = kind /\ task'[t].at = at /\ task'[t].old = old /\ task'[t].plan = 0
  BY <1>1, VpnTypesParts DEF Begun, Is, NoTask
<1>2. CASE BeginRefresh(t)
  <2>1. PICK kind \in {"due", "manual"} : Begun(t, kind, "download", 0)
    BY <1>2 DEF BeginRefresh
  <2>2. /\ task[t].at = "idle" /\ apart' = (apart /\ Working = {})
        /\ \A s \in Task \ {t} : task'[s] = task[s]
        /\ task'[t].kind = kind /\ task'[t].at = "download" /\ task'[t].old = 0 /\ task'[t].plan = 0
    BY <1>1, <2>1
  <2>3. QED
    BY <1>2, <2>2 DEF BeginRefresh
<1>3. CASE BeginApply(t)
  <2>1. Begun(t, "apply", "ensure", 0)
    BY <1>3 DEF BeginApply
  <2>2. /\ task[t].at = "idle" /\ apart' = (apart /\ Working = {})
        /\ \A s \in Task \ {t} : task'[s] = task[s]
        /\ task'[t].kind = "apply" /\ task'[t].at = "ensure" /\ task'[t].old = 0 /\ task'[t].plan = 0
    BY <1>1, <2>1
  <2>3. QED
    BY <1>3, <2>2 DEF BeginApply
<1>4. CASE BeginEdit(t)
  <2>1. Begun(t, "edit", "ensure", plan)
    BY <1>4 DEF BeginEdit
  <2>2. /\ task[t].at = "idle" /\ apart' = (apart /\ Working = {})
        /\ \A s \in Task \ {t} : task'[s] = task[s]
        /\ task'[t].kind = "edit" /\ task'[t].at = "ensure" /\ task'[t].old = plan /\ task'[t].plan = 0
    BY <1>1, <2>1
  <2>3. QED
    BY <1>4, <2>2 DEF BeginEdit
<1>5. QED
  BY <1>2, <1>3, <1>4 DEF TaskBegin

\* While goroutines do not overlap, all but the one that steps are idle.
LEMMA OthersIdle ==
    ASSUME VpnTypes, Linked, apart', NEW t \in Task,
           RefreshStep(t) \/ ApplyStep(t) \/ Broken(t) \/ TaskBegin(t)
    PROVE  apart /\ \A s \in Task \ {t} : task[s].at = "idle" /\ task'[s].at = "idle"
<1>1. CASE RefreshStep(t) \/ ApplyStep(t) \/ Broken(t)
  BY <1>1, StepMeans DEF Linked, Alone
<1>2. CASE TaskBegin(t)
  <2>1. apart /\ Working = {} /\ \A s \in Task \ {t} : task'[s] = task[s]
    BY <1>2, BeginMeans
  <2>2. QED
    BY <2>1 DEF Working
<1>3. QED
  BY <1>1, <1>2

LEMMA LinkedFrom ==
    ASSUME NEW t \in Task, \A s \in Task \ {t} : task'[s].at = "idle", Leads(t)',
           copied' \/ current' \in Installed',
           breaks' = 0 /\ task'[t].at # "switch" => ~copied' \/ current' # NoCert,
           breaks' = 0 /\ task'[t].at \notin {"switch", "unseat", "prune", "record"} => current' = fingerprint'
    PROVE  Linked'
<1>1. \A s \in Task \ {t} : Leads(s)'
  BY DEF Leads, Refreshing
<1>2. QED
  BY <1>1 DEF Linked, Alone

\* What is known of the goroutine at work.
LEMMA LinkedHere ==
    ASSUME VpnTypes, Linked, apart', NEW t \in Task,
           RefreshStep(t) \/ ApplyStep(t) \/ Broken(t) \/ TaskBegin(t)
    PROVE  /\ apart /\ \A s \in Task \ {t} : task[s].at = "idle" /\ task'[s].at = "idle"
           /\ Leads(t) /\ (copied \/ current \in Installed)
           /\ breaks = 0 /\ task[t].at # "switch" => Readable
           /\ breaks = 0 /\ task[t].at \notin {"switch", "unseat", "prune", "record"} => current = fingerprint
<1>1. apart /\ \A s \in Task \ {t} : task[s].at = "idle" /\ task'[s].at = "idle"
  BY OthersIdle
<1>2. NoCert \notin Installed
  BY VpnTypesParts, VersionTypes, VpnFilesAssumption
<1>3. QED
  BY <1>1, <1>2 DEF Linked, Readable

\* Steps that leave the certificates alone.
LEMMA LinkedKept ==
    ASSUME VpnTypes, Linked, apart', NEW t \in Task, RefreshStep(t) \/ ApplyStep(t) \/ Broken(t) \/ TaskBegin(t),
           UNCHANGED <<versions, current, copied, fingerprint>>, breaks' = breaks \/ breaks' # 0,
           task'[t].at \notin Refreshing \ {"download"},
           task'[t].at = "download" /\ breaks' = 0 => task'[t].kind \in {"due", "manual"},
           breaks' # 0 \/ task[t].at \notin {"switch", "unseat", "prune", "record"}
    PROVE  Linked'
<1>1. /\ \A s \in Task \ {t} : task'[s].at = "idle"
      /\ copied \/ current \in Installed
      /\ breaks = 0 /\ task[t].at # "switch" => Readable
      /\ breaks = 0 /\ task[t].at \notin {"switch", "unseat", "prune", "record"} => current = fingerprint
  BY LinkedHere
<1>2. Leads(t)' /\ (copied' \/ current' \in Installed')
  BY <1>1 DEF Leads, Refreshing, Installed
<1>3. breaks' = 0 => (~copied' \/ current' # NoCert) /\ current' = fingerprint'
  BY <1>1 DEF Readable
<1>4. QED
  BY <1>1, <1>2, <1>3, LinkedFrom

LEMMA InstalledAdded ==
    ASSUME VpnTypes, NEW t \in Task, task[t].cert \in Cert
    PROVE  /\ ToSet(Added(t)) = Installed \cup {task[t].cert}
           /\ task[t].cert \in Installed => task[t].cert \in ToSet(Pruned(t))
<1>1. /\ versions \in Seq(Cert) /\ Len(versions) \in Nat \ {0} /\ DOMAIN versions = 1 .. Len(versions)
  BY DEF VpnTypes, VpnTypeOK
<1>2. ToSet(Added(t)) = Installed \cup {task[t].cert}
  <2>1. CASE task[t].cert \in Installed
    BY <2>1 DEF Added, Installed
  <2>2. CASE task[t].cert \notin Installed
    <3>1. PICK w : w = Append(versions, task[t].cert)
      OBVIOUS
    <3>2. /\ DOMAIN w = 1 .. (Len(versions) + 1) /\ w[Len(versions) + 1] = task[t].cert
          /\ \A k \in 1 .. Len(versions) : w[k] = versions[k]
      BY <1>1, <3>1
    <3>3. ToSet(w) = Installed \cup {task[t].cert}
      BY <1>1, <3>2 DEF ToSet, Installed
    <3>4. QED
      BY <2>2, <3>1, <3>3 DEF Added
  <2>3. QED
    BY <2>1, <2>2
<1>3. ASSUME task[t].cert \in Installed PROVE task[t].cert \in ToSet(Pruned(t))
  <2>1. PICK own : own = task[t].cert
    OBVIOUS
  <2>2. CASE Last(versions) # own
    <3>1. Pruned(t) = <<own, Last(versions)>>
      BY <1>3, <2>1, <2>2 DEF Pruned
    <3>2. QED
      BY <2>1, <3>1 DEF ToSet
  <2>3. CASE Last(versions) = own /\ Len(versions) = 1
    <3>1. Pruned(t) = <<own>>
      BY <2>1, <2>3 DEF Pruned
    <3>2. QED
      BY <2>1, <3>1 DEF ToSet
  <2>4. CASE Last(versions) = own /\ Len(versions) # 1
    <3>1. Pruned(t) = <<versions[Len(versions) - 1], own>>
      BY <2>1, <2>4 DEF Pruned
    <3>2. QED
      BY <2>1, <3>1 DEF ToSet
  <2>5. QED
    BY <2>2, <2>3, <2>4
<1>4. QED
  BY <1>2, <1>3

LEMMA RefreshLinks ==
    ASSUME VpnTypes, Linked, apart', NEW t \in Task, RefreshStep(t)
    PROVE  Linked'
<1> USE DEF Is, worldVars, certVars, Refreshing
<1>0. /\ apart /\ \A s \in Task \ {t} : task[s].at = "idle" /\ task'[s].at = "idle"
      /\ copied \/ current \in Installed
      /\ Leads(t) /\ task[t] \in Goroutines
      /\ breaks = 0 /\ task[t].at # "switch" => Readable /\ current # NoCert
      /\ breaks = 0 /\ task[t].at \notin {"switch", "unseat", "prune", "record"} => current = fingerprint
  BY LinkedHere, VpnTypesParts DEF Readable
<1>1. CASE Download(t)
  <2>1. task'[t].at = "compare" /\ task'[t].kind = task[t].kind
    BY <1>0, <1>1, VpnTypesParts DEF Download, Goroutines, Goroutine
  <2>2. QED
    BY <1>0, <1>1, <2>1, LinkedFrom DEF Download, Leads, Installed
<1>2. CASE Compare(t)
  <2>1. /\ task'[t].at = IF Changed(t) THEN "version" ELSE "record"
        /\ task'[t].kind = task[t].kind /\ task'[t].cert = task[t].cert
    BY <1>0, <1>2, VpnTypesParts DEF Compare, Goroutines, Goroutine
  <2>2. UNCHANGED <<versions, current, copied, newLink, fingerprint, breaks>>
    BY <1>2 DEF Compare
  <2>3. Leads(t)' /\ (copied' \/ current' \in Installed')
    BY <1>0, <1>2, <2>1, <2>2 DEF Compare, Leads, Installed, Changed
  <2>4. QED
    BY <1>0, <1>2, <2>2, <2>3, LinkedFrom DEF Compare
<1>3. CASE WriteVersion(t)
  <2>1. task[t].cert \in Cert
    BY <1>0, <1>3 DEF WriteVersion, Goroutines, Holds
  <2>2. Installed' = Installed \cup {task[t].cert}
    BY <1>3, <2>1, InstalledAdded DEF WriteVersion, Installed
  <2>3. task'[t].at = "unlink" /\ task'[t].kind = task[t].kind /\ task'[t].cert = task[t].cert
    BY <1>3, GoMeans DEF WriteVersion
  <2>4. QED
    BY <1>0, <1>3, <2>2, <2>3, LinkedFrom DEF WriteVersion, Leads
<1>4. CASE Unlink(t)
  <2>1. task'[t].at = "link" /\ task'[t].kind = task[t].kind /\ task'[t].cert = task[t].cert
    BY <1>4, GoMeans DEF Unlink
  <2>2. QED
    BY <1>0, <1>4, <2>1, LinkedFrom DEF Unlink, Leads, Installed
<1>5. CASE Link(t)
  <2>1. task'[t].at = "switch" /\ task'[t].kind = task[t].kind /\ task'[t].cert = task[t].cert
    BY <1>0, <1>5, GoMeans DEF Link, Leads
  <2>2. QED
    BY <1>0, <1>5, <2>1, LinkedFrom DEF Link, Leads, Installed
<1>6. CASE Switch(t)
  <2>1. task[t].cert \in Cert /\ newLink = task[t].cert /\ newLink # NoCert
    BY <1>0, <1>6, VpnFilesAssumption DEF Switch, Goroutines, Holds, Leads
  <2>2. CASE copied /\ current # NoCert
    <3>1. Go(t, "unseat") /\ UNCHANGED <<versions, current, copied, newLink, fingerprint, breaks>>
      BY <1>6, <2>2 DEF Switch
    <3>2. task'[t].at = "unseat" /\ task'[t].kind = task[t].kind /\ task'[t].cert = task[t].cert
      BY <3>1, GoMeans
    <3>3. Leads(t)'
      BY <1>0, <1>6, <2>1, <3>1, <3>2 DEF Switch, Leads, Installed
    <3>4. QED
      BY <1>0, <2>2, <3>1, <3>2, <3>3, LinkedFrom
  <2>3. CASE ~copied \/ current = NoCert
    <3>1. /\ Go(t, "prune") /\ current' = task[t].cert /\ copied' = FALSE
          /\ UNCHANGED <<versions, fingerprint, breaks>>
      BY <1>6, <2>1, <2>3, VpnTypesParts DEF Switch
    <3>2. task'[t].at = "prune" /\ task'[t].kind = task[t].kind /\ task'[t].cert = task[t].cert
      BY <3>1, GoMeans
    <3>3. task[t].cert \in Installed
      BY <1>0, <1>6 DEF Switch, Leads
    <3>4. Leads(t)' /\ current' \in Installed'
      BY <1>0, <1>6, <3>1, <3>2, <3>3 DEF Switch, Leads, Installed
    <3>5. QED
      BY <1>0, <3>1, <3>2, <3>4, LinkedFrom
  <2>4. QED
    BY <2>2, <2>3
<1>7. CASE PruneVersions(t)
  <2>1. task[t].cert \in Cert /\ current = task[t].cert /\ ~copied
    BY <1>0, <1>7 DEF PruneVersions, Goroutines, Holds, Leads
  <2>2. current' \in Installed' /\ ~copied'
    BY <1>0, <1>7, <2>1, InstalledAdded DEF PruneVersions, Installed
  <2>3. task'[t].at = "record" /\ task'[t].kind = task[t].kind /\ task'[t].cert = task[t].cert
    BY <1>7, GoMeans DEF PruneVersions
  <2>4. QED
    BY <1>0, <1>7, <2>1, <2>2, <2>3, LinkedFrom DEF PruneVersions, Leads
<1>8. CASE Record(t)
  <2>1. task'[t].at \in {"clear", "ensure", "idle"}
    <3>1. CASE task' = [task EXCEPT ![t].at = "clear", ![t].cert = NoCert, ![t].new = FALSE]
      BY <3>1, VpnTypesParts DEF Goroutines, Goroutine
    <3>2. CASE task' = [task EXCEPT ![t] = [NoTask EXCEPT !.kind = "apply", !.at = "ensure"]]
      BY <3>2, VpnTypesParts DEF NoTask
    <3>3. CASE Go(t, "idle")
      BY <3>3, GoMeans
    <3>4. QED
      BY <1>8, <3>1, <3>2, <3>3 DEF Record
  <2>2. breaks' = 0 => current' = fingerprint'
    BY <1>0, <1>8 DEF Record, Leads
  <2>3. QED
    BY <1>0, <1>8, <2>1, <2>2, LinkedFrom DEF Record, Leads, Installed
<1>9. CASE Unseat(t)
  <2>1. task'[t].at = "switch" /\ task'[t].kind = task[t].kind /\ task'[t].cert = task[t].cert
    BY <1>9, GoMeans DEF Unseat
  <2>2. UNCHANGED <<versions, copied, newLink, fingerprint, breaks>>
    BY <1>9 DEF Unseat
  <2>3. copied
    BY <1>0, <1>9 DEF Unseat, Leads
  <2>4. Leads(t)'
    BY <1>0, <1>9, <2>1, <2>2 DEF Unseat, Leads, Installed
  <2>5. QED
    BY <1>0, <2>1, <2>2, <2>3, <2>4, LinkedFrom
<1>10. QED
  BY <1>1, <1>2, <1>3, <1>4, <1>5, <1>6, <1>7, <1>8, <1>9 DEF RefreshStep

LEMMA ApplyLinks ==
    ASSUME VpnTypes, Linked, apart', NEW t \in Task, ApplyStep(t)
    PROVE  Linked'
<1> USE DEF Is, worldVars, certVars, Refreshing
<1>0. /\ task[t] \in Goroutines /\ task \in [Task -> Goroutines]
      /\ breaks = 0 /\ task[t].at # "switch" => Readable
  BY LinkedHere, VpnTypesParts
<1>1. /\ UNCHANGED <<versions, current, copied, fingerprint>> /\ breaks' = breaks
      /\ task[t].at \notin {"switch", "unseat", "prune", "record"}
  BY DEF ApplyStep, Ensure, ClearLastGood, SaveTarget, PlaceConfig, Check, RestartServer, SetAside, BringBack,
     RestartAgain, EndFailed
<1>2. /\ task'[t].at \notin Refreshing \ {"download"}
      /\ breaks = 0 => task'[t].at # "download"
  <2>1. CASE Ensure(t)
    BY <1>0, <1>1, <2>1 DEF Ensure, Goroutines, Goroutine
  <2>2. CASE Check(t)
    BY <1>0, <2>2 DEF Check, Goroutines, Goroutine
  <2>3. CASE RestartServer(t)
    BY <1>0, <2>3, GoMeans DEF RestartServer, Goroutines, Goroutine
  <2>4. CASE EndFailed(t)
    <3>1. \/ task' = [task EXCEPT ![t] = [NoTask EXCEPT !.kind = "undo", !.at = "ensure"]]
          \/ Go(t, "idle")
      BY <2>4 DEF EndFailed
    <3>2. task'[t].at \in {"ensure", "idle"}
      BY <1>0, <3>1, GoMeans DEF NoTask
    <3>3. QED
      BY <3>2
  <2>5. CASE ClearLastGood(t) \/ SaveTarget(t) \/ PlaceConfig(t) \/ SetAside(t) \/ BringBack(t) \/ RestartAgain(t)
    <3>1. PICK at \in {"save", "failed", "place", "check", "again", "back"} : Go(t, at)
      BY <2>5 DEF ClearLastGood, SaveTarget, PlaceConfig, SetAside, BringBack, RestartAgain
    <3>2. QED
      BY <3>1, GoMeans
  <2>6. QED
    BY <2>1, <2>2, <2>3, <2>4, <2>5 DEF ApplyStep
<1>3. QED
  BY <1>1, <1>2, LinkedKept

LEMMA LinkedStep == VpnTypes /\ Linked /\ [VpnNext]_vpnVars => Linked'
<1> SUFFICES ASSUME VpnTypes, Linked, [VpnNext]_vpnVars, apart' PROVE Linked'
  BY DEF Linked
<1> USE DEF certVars, worldVars
<1>1. ASSUME NEW t \in Task, RefreshStep(t) \/ ApplyStep(t) PROVE Linked'
  BY <1>1, RefreshLinks, ApplyLinks
<1>2. ASSUME NEW t \in Task, Broken(t) PROVE Linked'
  <2>1. task'[t].at = "failed"
    BY <1>2, GoMeans DEF Broken
  <2>2. UNCHANGED <<versions, current, copied, fingerprint>> /\ breaks' # 0
    BY <1>2, VpnTypesParts DEF Broken
  <2>3. QED
    BY <1>2, <2>1, <2>2, LinkedKept DEF Refreshing
<1>3. ASSUME NEW t \in Task, TaskBegin(t) PROVE Linked'
  <2>1. UNCHANGED <<versions, current, copied, fingerprint>> /\ breaks' = breaks /\ task[t].at = "idle"
    BY <1>3, BeginMeans
  <2>2. /\ task'[t].at \in {"download", "ensure"}
        /\ task'[t].at = "download" => task'[t].kind \in {"due", "manual"}
    BY <1>3, BeginMeans DEF NoTask
  <2>3. QED
    BY <1>3, <2>1, <2>2, LinkedKept DEF Refreshing
<1>4. CASE Serve \/ UNCHANGED vpnVars
  <2>1. UNCHANGED <<versions, current, copied, newLink, fingerprint, task, apart, breaks>>
    BY <1>4 DEF Serve, vpnVars
  <2>2. /\ UNCHANGED Alone /\ (\A t \in Task : Leads(t)') = (\A t \in Task : Leads(t))
        /\ Installed' = Installed
    BY <2>1 DEF Alone, Leads, Installed
  <2>3. apart
    BY <2>1
  <2>4. QED
    BY <2>1, <2>2, <2>3 DEF Linked
<1>5. CASE Death
  <2>1. \A s \in Task : task'[s].at = "idle"
    BY <1>5 DEF Death, NoTask
  <2>2. breaks' # 0 /\ apart /\ (copied' \/ current' \in Installed')
    BY <1>5, VpnTypesParts DEF Death, Linked, Installed
  <2>3. QED
    BY <2>1, <2>2 DEF Linked, Alone, Leads, Refreshing
<1>6. QED
  BY <1>1, <1>2, <1>3, <1>4, <1>5 DEF VpnNext, RefreshStep, ApplyStep, TaskBegin

LEMMA LinkedInit == VpnInit => Linked
<1> SUFFICES ASSUME VpnInit PROVE Linked
  OBVIOUS
<1>1. \A t \in Task : task[t].at = "idle"
  BY DEF VpnInit, NoTask
<1>2. current \in Installed /\ current # NoCert /\ current = fingerprint
  BY VpnFilesAssumption DEF VpnInit, Installed, ToSet
<1>3. QED
  BY <1>1, <1>2 DEF Linked, Alone, Leads, Refreshing

\* A link to the current certificate leads to an installed one after every step, failure and
\* death, a restored directory is missing only while its link is put in place or after a
\* failure or death, and between refreshes without failures the certificate is the one on
\* record, unless refreshes have overlapped.
THEOREM CertificateIsTaken == VpnSpec => []CertificateTaken
<1>1. VpnTypes /\ Linked => CertificateTaken
  <2> SUFFICES ASSUME VpnTypes, Linked, apart
               PROVE  /\ copied \/ current \in Installed
                      /\ copied /\ current = NoCert => breaks > 0 \/ \E t \in Task : Is(t, "switch")
                      /\ Working = {} /\ breaks = 0 => current = fingerprint
    BY DEF CertificateTaken
  <2>1. breaks = 0 \/ breaks > 0
    BY VpnTypesParts
  <2>2. QED
    BY <2>1 DEF Linked, Working, Is
<1>2. QED
  BY <1>1, VpnInitTypes, VpnStepTypes, LinkedInit, LinkedStep, PTL DEF VpnSpec

-----------------------------------------------------------------------------
(* VpnFiles: the configuration and the server.                             *)

Good == Plan \ Rejected

\* What an Apply falls back to: the stored plan, or the one its handler has replaced.
Base(t) == IF task[t].kind = "edit" THEN task[t].old ELSE plan

Running == [cert |-> current, plan |-> plan]

Serves == ocserv = Running \/ (ocserv = Off /\ bad >= 2)

\* The two copies during an Apply: one of them always holds its base.
ServerRuns(t) ==
    /\ Base(t) \in Good
    /\ task[t].at \in Refreshing \cup {"ensure", "clear", "save", "again", "failed"} => target = Base(t)
    /\ task[t].at = "save" => lastGood = 0
    /\ task[t].at \in {"clear", "save", "place"} => task[t].plan = plan
    /\ task[t].at \in {"place", "back"} => target = 0
    /\ task[t].at \in {"place", "check", "restart", "aside", "back"} => lastGood = Base(t)
    /\ task[t].at \in {"check", "restart", "aside"} => target = plan
    /\ task[t].at = "restart" => plan \in Good
    /\ task[t].at \in {"aside", "back"} /\ ~task[t].new => plan \notin Good
    /\ (task[t].at \in {"aside", "back"} /\ task[t].new) \/ task[t].at = "again" => bad >= 1
    /\ task[t].at \in {"version", "unlink", "link", "switch", "unseat", "prune"} => task[t].new
    /\ task[t].at \notin Refreshing => task[t].kind \notin {"due", "manual"}
    /\ \/ task[t].at \in {"download", "compare"}
       \/ task[t].at = "record" /\ ~task[t].new
       \/ task[t].at = "failed" /\ task[t].kind # "edit"
       => Serves

\* As long as nothing breaks.
Recovering ==
    apart /\ breaks = 0 =>
        /\ \A t \in Task : task[t].at # "idle" => ServerRuns(t)
        /\ (\A t \in Task : task[t].at = "idle") => plan \in Good /\ target = plan /\ Serves

\* After one failure or death, when no plan is rejected: each copy is good or missing, and
\* both are missing only for the Apply that puts the new one in its place.
Startable ==
    apart /\ bad = 0 /\ breaks \in {0, 1} =>
        /\ plan \in Good /\ target \in Good \cup {0} /\ lastGood \in Good \cup {0}
        /\ (\A t \in Task : task[t].at \notin {"save", "place"}) => target # 0 \/ lastGood # 0
        /\ \A t \in Task : /\ task[t].plan \in Good \cup {0} /\ task[t].old \in Good \cup {0}
                           /\ task[t].at \notin {"aside", "back", "again"}
                           /\ task[t].at = "save" => lastGood = 0
                           /\ task[t].at = "place" => target = 0
                           /\ task[t].at \in {"check", "restart"} => target # 0

Restores ==
    Recovering /\ Startable /\ (apart => \A t \in Task : task[t].at = "idle" => task[t] = NoTask)

LEMMA RestoresFrom ==
    ASSUME NEW t \in Task, \A s \in Task \ {t} : task'[s].at = "idle" /\ task'[s] = NoTask,
           task'[t].at = "idle" => task'[t] = NoTask,
           breaks' = 0 => /\ task'[t].at # "idle" => ServerRuns(t)'
                          /\ task'[t].at = "idle" => plan' \in Good /\ target' = plan' /\ Serves',
           bad' = 0 /\ breaks' \in {0, 1} =>
               /\ plan' \in Good /\ target' \in Good \cup {0} /\ lastGood' \in Good \cup {0}
               /\ task'[t].at \notin {"save", "place"} => target' # 0 \/ lastGood' # 0
               /\ task'[t].plan \in Good \cup {0} /\ task'[t].old \in Good \cup {0}
               /\ task'[t].at \notin {"aside", "back", "again"}
               /\ task'[t].at = "save" => lastGood' = 0
               /\ task'[t].at = "place" => target' = 0
               /\ task'[t].at \in {"check", "restart"} => target' # 0
    PROVE  Restores'
<1>1. Recovering'
  BY DEF Recovering
<1>2. \A s \in Task : s = t \/ task'[s] = NoTask
  OBVIOUS
<1>3. NoTask.plan = 0 /\ NoTask.old = 0 /\ NoTask.at = "idle"
  BY DEF NoTask
<1>4. Startable'
  BY <1>2, <1>3 DEF Startable
<1>5. QED
  BY <1>1, <1>2, <1>4 DEF Restores

\* What is known before the step of a goroutine that is alone.
LEMMA BeforeStep ==
    ASSUME VpnTypes, Linked, Restores, apart', NEW t \in Task, RefreshStep(t) \/ ApplyStep(t) \/ Broken(t)
    PROVE  /\ \A s \in Task \ {t} : task'[s].at = "idle" /\ task'[s] = NoTask
           /\ \A s \in Task \ {t} : task[s].at = "idle"
           /\ task[t].at # "idle" /\ task[t] \in Goroutines /\ task[t] \in Goroutine /\ Holds(task[t])
           /\ apart /\ Leads(t) /\ (breaks = 0 /\ task[t].at # "switch" => Readable)
           /\ breaks = 0 => ServerRuns(t)
           /\ bad = 0 /\ breaks \in {0, 1} =>
               /\ plan \in Good /\ target \in Good \cup {0} /\ lastGood \in Good \cup {0}
               /\ task[t].at \notin {"save", "place"} => target # 0 \/ lastGood # 0
               /\ task[t].plan \in Good \cup {0} /\ task[t].old \in Good \cup {0}
               /\ task[t].at \notin {"aside", "back", "again"}
               /\ task[t].at = "save" => lastGood = 0
               /\ task[t].at = "place" => target = 0
               /\ task[t].at \in {"check", "restart"} => target # 0
<1>1. /\ apart /\ \A s \in Task \ {t} : task[s].at = "idle" /\ task'[s].at = "idle"
      /\ \A s \in Task \ {t} : task'[s] = task[s]
      /\ task[t].at # "idle"
  BY OthersIdle, StepMeans
<1>2. \A s \in Task \ {t} : task'[s] = NoTask
  BY <1>1 DEF Restores
<1>3. task[t] \in Goroutines /\ task[t] \in Goroutine /\ Holds(task[t])
  BY VpnTypesParts DEF Goroutines
<1>4. Leads(t) /\ (breaks = 0 /\ task[t].at # "switch" => Readable)
  BY LinkedHere
<1>5. breaks = 0 => ServerRuns(t)
  BY <1>1 DEF Restores, Recovering
<1>6. task[t].at \notin {"save", "place"} => \A s \in Task : task[s].at \notin {"save", "place"}
  BY <1>1
<1>7. QED
  BY <1>1, <1>2, <1>3, <1>4, <1>5, <1>6 DEF Restores, Startable

LEMMA RefreshRestores ==
    ASSUME VpnTypes, Linked, Restores, apart', NEW t \in Task, RefreshStep(t)
    PROVE  Restores'
<1> USE DEF Is, worldVars, configVars, certVars
<1>0. task[t].at \in Refreshing /\ (breaks = 0 => task[t].kind \in {"due", "manual"})
  BY BeforeStep DEF RefreshStep, Download, Compare, WriteVersion, Unlink, Link, Switch, Unseat,
     PruneVersions, Record, Leads, Refreshing
<1>1. UNCHANGED <<plan, target, lastGood, ocserv, bad, breaks>>
  BY DEF RefreshStep, Download, Compare, WriteVersion, Unlink, Link, Switch, Unseat, PruneVersions, Record
<1>2. /\ task'[t].at \in Refreshing \cup {"ensure", "clear", "idle"}
      /\ breaks = 0 => task'[t].at # "clear"
      /\ task'[t].plan \in {task[t].plan, 0} /\ task'[t].old \in {task[t].old, 0}
      /\ task'[t].at \in Refreshing => task'[t].kind = task[t].kind
      /\ breaks = 0 /\ task'[t].at \notin Refreshing => task'[t].kind \notin {"due", "manual", "edit"}
      /\ task'[t].at = "idle" => task'[t] = NoTask
      /\ breaks = 0 /\ task'[t].at \in {"version", "unlink", "link", "switch", "unseat", "prune"} => task'[t].new
      /\ breaks = 0 /\ (task'[t].at \in {"idle", "compare"} \/ (task'[t].at = "record" /\ ~task'[t].new))
           => current' = current /\ Serves
      /\ task'[t].at # "download"
  <2>0. /\ task[t] \in Goroutine /\ Leads(t) /\ (breaks = 0 => task[t].kind \in {"due", "manual"})
        /\ task \in [Task -> Goroutines]
        /\ breaks = 0 => ServerRuns(t)
        /\ task[t].at \in Refreshing \ {"download"} => task[t].cert \in Cert
    BY <1>0, BeforeStep, VpnTypesParts DEF Holds
  <2>1. CASE Download(t)
    <3>1. /\ task'[t].at = "compare" /\ task'[t].kind = task[t].kind /\ task'[t].plan = task[t].plan
          /\ task'[t].old = task[t].old
      BY <2>0, <2>1 DEF Download, Goroutine
    <3>2. QED
      BY <2>0, <2>1, <3>1 DEF Download, ServerRuns, Refreshing
  <2>2. CASE Compare(t)
    <3>1. /\ task'[t].at = IF Changed(t) THEN "version" ELSE "record"
          /\ task'[t].kind = task[t].kind /\ task'[t].plan = task[t].plan
          /\ task'[t].old = task[t].old /\ task'[t].new = Changed(t)
      BY <2>0, <2>2 DEF Compare, Goroutine
    <3>2. QED
      BY <2>0, <2>2, <3>1 DEF Compare, ServerRuns, Refreshing
  <2>3. CASE WriteVersion(t) \/ Unlink(t) \/ Link(t) \/ Switch(t) \/ Unseat(t) \/ PruneVersions(t)
    <3>1. newLink = NoCert \/ ~Link(t)
      BY <2>0 DEF Link, Leads
    <3>2. newLink # NoCert \/ ~Switch(t)
      BY <2>0, VpnFilesAssumption DEF Switch, Leads, Refreshing
    <3>3. PICK at \in {"unlink", "link", "switch", "unseat", "prune", "record"} : Go(t, at)
      BY <2>3, <3>1, <3>2 DEF WriteVersion, Unlink, Link, Switch, Unseat, PruneVersions
    <3>4. /\ task'[t].at = at /\ task'[t].kind = task[t].kind /\ task'[t].plan = task[t].plan
          /\ task'[t].old = task[t].old /\ task'[t].new = task[t].new
      BY <3>3, GoMeans
    <3>5. breaks = 0 => task[t].new
      BY <2>0, <2>3 DEF WriteVersion, Unlink, Link, Switch, Unseat, PruneVersions, ServerRuns
    <3>6. QED
      BY <3>4, <3>5 DEF Refreshing
  <2>4. CASE Record(t)
    <3>0. CASE /\ task[t].kind \in {"edit", "undo", "apply"}
               /\ task' = [task EXCEPT ![t].at = "clear", ![t].cert = NoCert, ![t].new = FALSE]
      <4>1. /\ task'[t].at = "clear" /\ task'[t].plan = task[t].plan /\ task'[t].old = task[t].old
            /\ breaks # 0
        BY <2>0, <3>0 DEF Goroutine
      <4>2. QED
        BY <4>1 DEF Refreshing
    <3>1. CASE task' = [task EXCEPT ![t] = [NoTask EXCEPT !.kind = "apply", !.at = "ensure"]]
      BY <2>0, <3>1 DEF NoTask, Refreshing
    <3>2. CASE task[t].kind = "due" /\ ~task[t].new /\ Go(t, "idle")
      <4>1. task'[t] = NoTask
        BY <2>0, <3>2 DEF Go
      <4>2. current' = current /\ (breaks = 0 => Serves)
        BY <2>0, <2>4, <3>2 DEF Record, ServerRuns
      <4>3. QED
        BY <4>1, <4>2 DEF NoTask, Refreshing
    <3>3. QED
      BY <2>0, <2>4, <3>0, <3>1, <3>2 DEF Record
  <2>5. QED
    BY <2>1, <2>2, <2>3, <2>4 DEF RefreshStep
<1>3. breaks' = 0 => /\ task'[t].at # "idle" => ServerRuns(t)'
                     /\ task'[t].at = "idle" => plan' \in Good /\ target' = plan' /\ Serves'
  <2> SUFFICES ASSUME breaks' = 0
               PROVE  /\ task'[t].at # "idle" => ServerRuns(t)'
                      /\ task'[t].at = "idle" => plan' \in Good /\ target' = plan' /\ Serves'
    BY Zenon
  <2>1. ServerRuns(t) /\ breaks = 0
    BY <1>1, BeforeStep
  <2>2. Base(t) = plan /\ plan \in Good /\ target = plan
    BY <1>0, <2>1 DEF ServerRuns, Base
  <2>3. task'[t].kind # "edit"
    BY <1>0, <1>2, <2>1
  <2>4. Base(t)' = plan /\ Base(t)' \in Good /\ target' = plan /\ plan' = plan /\ ocserv' = ocserv
    BY <1>1, <2>2, <2>3 DEF Base
  <2>5. task'[t].at \in {"idle", "compare"} \/ (task'[t].at = "record" /\ ~task'[t].new) => Serves'
    BY <1>1, <1>2, <2>1 DEF Running, Serves
  <2>6. CASE task'[t].at \in Refreshing
    <3>1. task'[t].at \in {"download", "compare"} => Serves'
      BY <1>2, <2>5
    <3>2. breaks = 0
      BY <2>1
    <3>3. task'[t].at \in {"version", "unlink", "link", "switch", "unseat", "prune"} => task'[t].new
      BY <1>2, <3>2
    <3>4. ServerRuns(t)'
      BY <2>4, <2>5, <2>6, <3>1, <3>3 DEF ServerRuns, Refreshing
    <3>5. QED
      BY <2>6, <3>4 DEF Refreshing
  <2>7. CASE task'[t].at = "ensure"
    BY <1>2, <2>1, <2>4, <2>7 DEF ServerRuns, Refreshing
  <2>8. CASE task'[t].at = "idle"
    <3>1. plan' \in Good /\ target' = plan' /\ Serves'
      BY <2>2, <2>4, <2>5, <2>8
    <3>2. QED
      BY <2>8, <3>1
  <2>9. QED
    BY <1>2, <2>1, <2>6, <2>7, <2>8
<1>4. QED
  BY <1>0, <1>1, <1>2, <1>3, BeforeStep, RestoresFrom DEF Refreshing

\* The steps of an Apply, one by one.
LEMMA ApplyRestoresStep ==
    ASSUME VpnTypes, Linked, Restores, apart', NEW t \in Task, ApplyStep(t)
    PROVE  Restores'
<1> USE DEF Is, worldVars, configVars, certVars
<1>0. /\ \A s \in Task \ {t} : task'[s].at = "idle" /\ task'[s] = NoTask
      /\ task[t].at # "idle" /\ task[t] \in Goroutine /\ Holds(task[t]) /\ task \in [Task -> Goroutines]
      /\ breaks = 0 /\ task[t].at # "switch" => Readable
      /\ breaks = 0 => ServerRuns(t)
      /\ bad = 0 /\ breaks \in {0, 1} =>
               /\ plan \in Good /\ target \in Good \cup {0} /\ lastGood \in Good \cup {0}
               /\ task[t].at \notin {"save", "place"} => target # 0 \/ lastGood # 0
               /\ task[t].plan \in Good \cup {0} /\ task[t].old \in Good \cup {0}
               /\ task[t].at \notin {"aside", "back", "again"}
               /\ task[t].at = "save" => lastGood = 0
               /\ task[t].at = "place" => target = 0
               /\ task[t].at \in {"check", "restart"} => target # 0
      /\ 0 \notin Plan /\ 0 \notin Good /\ Good \subseteq Plan
  BY BeforeStep, VpnTypesParts, VpnFilesAssumption DEF Good
<1>1. CASE Ensure(t)
  <2>1. /\ task'[t].at = IF Readable THEN "clear" ELSE "download"
        /\ task'[t].plan = plan /\ task'[t].kind = task[t].kind
        /\ task'[t].old = task[t].old
    BY <1>0, <1>1 DEF Ensure, Goroutine
  <2>2. UNCHANGED <<plan, target, lastGood, ocserv, bad, breaks, current>>
    BY <1>1 DEF Ensure
  <2>3. breaks' = 0 => ServerRuns(t)'
    BY <1>0, <1>1, <2>1, <2>2 DEF Ensure, ServerRuns, Base, Refreshing
  <2>4. QED
    BY <1>0, <1>1, <2>1, <2>2, <2>3, RestoresFrom DEF Ensure
<1>2. CASE ClearLastGood(t)
  <2>1. /\ task'[t].at = "save" /\ task'[t].plan = task[t].plan /\ task'[t].kind = task[t].kind
        /\ task'[t].old = task[t].old
    BY <1>2, GoMeans DEF ClearLastGood
  <2>2. UNCHANGED <<plan, target, ocserv, bad, breaks, current>> /\ lastGood' = 0
    BY <1>2 DEF ClearLastGood
  <2>3. breaks' = 0 => ServerRuns(t)'
    BY <1>0, <1>2, <2>1, <2>2 DEF ClearLastGood, ServerRuns, Base, Refreshing
  <2>4. QED
    BY <1>0, <1>2, <2>1, <2>2, <2>3, RestoresFrom DEF ClearLastGood
<1>3. CASE SaveTarget(t)
  <2>1. PICK at \in {"place", "failed"} :
            Go(t, at) /\ at = IF target # 0 /\ lastGood # 0 THEN "failed" ELSE "place"
    BY <1>3 DEF SaveTarget
  <2>2. /\ task'[t].at = at /\ task'[t].plan = task[t].plan /\ task'[t].kind = task[t].kind
        /\ task'[t].old = task[t].old
    BY <2>1, GoMeans
  <2>3. /\ UNCHANGED <<plan, ocserv, bad, breaks, current>>
        /\ at = "place" => target' = 0 /\ lastGood' = IF target # 0 THEN target ELSE lastGood
        /\ at = "failed" => target' = target /\ lastGood' = lastGood
    BY <1>3, <2>1 DEF SaveTarget
  <2>4. breaks' = 0 => ServerRuns(t)'
    BY <1>0, <1>3, <2>1, <2>2, <2>3 DEF SaveTarget, ServerRuns, Base, Refreshing
  <2>5. QED
    BY <1>0, <1>3, <2>1, <2>2, <2>3, <2>4, RestoresFrom DEF SaveTarget
<1>4. CASE PlaceConfig(t)
  <2>1. PICK at \in {"check", "failed"} : Go(t, at) /\ at = IF target = 0 THEN "check" ELSE "failed"
    BY <1>4 DEF PlaceConfig
  <2>2. /\ task'[t].at = at /\ task'[t].plan = task[t].plan /\ task'[t].kind = task[t].kind
        /\ task'[t].old = task[t].old
    BY <2>1, GoMeans
  <2>3. /\ UNCHANGED <<plan, lastGood, ocserv, bad, breaks, current>>
        /\ target' = IF target = 0 THEN task[t].plan ELSE target
    BY <1>4 DEF PlaceConfig
  <2>4. breaks' = 0 => ServerRuns(t)'
    BY <1>0, <1>4, <2>1, <2>2, <2>3 DEF PlaceConfig, ServerRuns, Base, Refreshing
  <2>5. task[t].plan # 0
    BY <1>0, <1>4 DEF PlaceConfig, Holds
  <2>6. QED
    BY <1>0, <1>4, <2>1, <2>2, <2>3, <2>4, <2>5, RestoresFrom DEF PlaceConfig
<1>5. CASE Check(t)
  <2>1. /\ task'[t].at = IF target \in Good THEN "restart" ELSE "aside"
        /\ task'[t].plan = task[t].plan /\ task'[t].kind = task[t].kind
        /\ task'[t].old = task[t].old /\ task'[t].new = FALSE
    BY <1>0, <1>5 DEF Check, Goroutine, Good
  <2>2. UNCHANGED <<plan, target, lastGood, ocserv, bad, breaks, current>>
    BY <1>5 DEF Check
  <2>3. breaks' = 0 => ServerRuns(t)'
    BY <1>0, <1>5, <2>1, <2>2 DEF Check, ServerRuns, Base, Refreshing
  <2>4. QED
    BY <1>0, <1>5, <2>1, <2>2, <2>3, RestoresFrom DEF Check
<1>6. CASE RestartServer(t)
  <2>1. UNCHANGED <<plan, target, lastGood, breaks, current>>
    BY <1>6 DEF RestartServer
  <2>2. CASE target # 0 /\ Go(t, "idle") /\ ocserv' = Loaded /\ bad' = bad
    <3>1. task'[t] = NoTask /\ task'[t].at = "idle" /\ task'[t].plan = 0 /\ task'[t].old = 0
      BY <1>0, <2>2 DEF Go, NoTask
    <3>2. breaks' = 0 => plan' \in Good /\ target' = plan' /\ Serves'
      BY <1>0, <1>6, <2>1, <2>2 DEF RestartServer, ServerRuns, Running, Serves, Loaded, Good
    <3>3. QED
      BY <1>0, <1>6, <2>1, <2>2, <3>1, <3>2, RestoresFrom DEF RestartServer
  <2>3. CASE /\ bad' = IF target # 0 THEN bad + 1 ELSE bad
             /\ task' = [task EXCEPT ![t].at = "aside", ![t].new = TRUE]
    <3>1. /\ task'[t].at = "aside" /\ task'[t].plan = task[t].plan /\ task'[t].kind = task[t].kind
          /\ task'[t].old = task[t].old /\ task'[t].new = TRUE
      BY <1>0, <2>3 DEF Goroutine
    <3>2. breaks' = 0 => ServerRuns(t)'
      BY <1>0, <1>6, <2>1, <2>3, <3>1, VpnTypesParts DEF RestartServer, ServerRuns, Base, Refreshing
    <3>3. bad' = 0 /\ breaks' \in {0, 1} => FALSE
      BY <1>0, <1>6, <2>1, <2>3, VpnTypesParts DEF RestartServer
    <3>4. QED
      BY <1>0, <3>1, <3>2, <3>3, RestoresFrom
  <2>4. QED
    BY <1>6, <2>2, <2>3 DEF RestartServer
<1>7. CASE SetAside(t)
  <2>1. PICK at \in {"again", "back", "failed"} :
            /\ Go(t, at)
            /\ at = IF lastGood = 0 THEN IF task[t].new THEN "again" ELSE "failed"
                    ELSE IF target # 0 THEN "back" ELSE "failed"
    BY <1>7 DEF SetAside
  <2>2. /\ task'[t].at = at /\ task'[t].plan = task[t].plan /\ task'[t].kind = task[t].kind
        /\ task'[t].old = task[t].old /\ task'[t].new = task[t].new
    BY <2>1, GoMeans
  <2>3. UNCHANGED <<plan, lastGood, ocserv, bad, breaks, current>> /\ target' = 0
    BY <1>7 DEF SetAside
  <2>4. breaks' = 0 => ServerRuns(t)'
    <3>1. breaks = 0 => /\ lastGood = Base(t) /\ lastGood \in Good /\ target = plan /\ Base(t)' = Base(t)
                        /\ ~task[t].new => plan \notin Good
      BY <1>0, <1>7, <2>2, <2>3 DEF SetAside, ServerRuns, Base
    <3>2. breaks = 0 => at = "back"
      BY <1>0, <2>1, <3>1, VpnTypesParts
    <3>3. breaks = 0 => task[t].kind \notin {"due", "manual"}
      BY <1>0, <1>7 DEF SetAside, ServerRuns, Refreshing
    <3>4. QED
      BY <1>0, <1>7, <2>2, <2>3, <3>1, <3>2, <3>3 DEF SetAside, ServerRuns, Refreshing
  <2>5. bad' = 0 /\ breaks' \in {0, 1} => FALSE
    BY <1>0, <1>7, <2>3 DEF SetAside
  <2>6. QED
    BY <1>0, <2>2, <2>4, <2>5, RestoresFrom
<1>8. CASE BringBack(t)
  <2>1. PICK at \in {"again", "failed"} :
            Go(t, at) /\ at = IF task[t].new /\ target = 0 /\ lastGood # 0 THEN "again" ELSE "failed"
    BY <1>8 DEF BringBack
  <2>2. /\ task'[t].at = at /\ task'[t].plan = task[t].plan /\ task'[t].kind = task[t].kind
        /\ task'[t].old = task[t].old /\ task'[t].new = task[t].new
    BY <2>1, GoMeans
  <2>3. /\ UNCHANGED <<plan, ocserv, bad, breaks, current>>
        /\ target = 0 /\ lastGood # 0 => target' = lastGood
    BY <1>8 DEF BringBack, Restored
  <2>4. breaks' = 0 => ServerRuns(t)'
    <3>1. breaks = 0 => ServerRuns(t) /\ target = 0 /\ lastGood # 0 /\ target' = Base(t) /\ Base(t)' = Base(t)
      BY <1>0, <1>8, <2>2, <2>3 DEF BringBack, ServerRuns, Base
    <3>2. breaks = 0 /\ at = "failed" => task[t].kind = "edit"
      BY <1>0, <1>8, <2>1, <2>3, <3>1 DEF BringBack, ServerRuns, Base
    <3>3. QED
      BY <1>8, <2>1, <2>2, <2>3, <3>1, <3>2 DEF BringBack, ServerRuns, Refreshing
  <2>5. bad' = 0 /\ breaks' \in {0, 1} => FALSE
    BY <1>0, <1>8, <2>3 DEF BringBack
  <2>6. QED
    BY <1>0, <2>2, <2>4, <2>5, RestoresFrom
<1>9. CASE RestartAgain(t)
  <2>1. /\ task'[t].at = "failed" /\ task'[t].plan = task[t].plan /\ task'[t].kind = task[t].kind
        /\ task'[t].old = task[t].old
    BY <1>9, GoMeans DEF RestartAgain
  <2>2. /\ UNCHANGED <<plan, target, lastGood, breaks, current>>
        /\ (ocserv' = Loaded /\ bad' = bad) \/ (ocserv' = Off /\ bad' = bad + 1)
    BY <1>9 DEF RestartAgain
  <2>3. breaks' = 0 => ServerRuns(t)'
    <3>1. breaks = 0 => target = Base(t) /\ Base(t) \in Good /\ bad >= 1 /\ Readable
      BY <1>0, <1>9 DEF RestartAgain, ServerRuns
    <3>2. breaks = 0 /\ task[t].kind # "edit" => Serves'
      BY <2>2, <3>1, VpnTypesParts DEF Serves, Running, Loaded, Base, Good
    <3>3. breaks = 0 => task[t].kind \notin {"due", "manual"}
      BY <1>0, <1>9 DEF RestartAgain, ServerRuns, Refreshing
    <3>4. QED
      BY <2>1, <2>2, <3>1, <3>2, <3>3 DEF ServerRuns, Base, Refreshing
  <2>4. bad' = 0 /\ breaks' \in {0, 1} => FALSE
    BY <1>0, <1>9, <2>2, VpnTypesParts DEF RestartAgain
  <2>5. QED
    BY <1>0, <2>1, <2>3, <2>4, RestoresFrom
<1>10. CASE EndFailed(t)
  <2>1. UNCHANGED <<target, lastGood, ocserv, bad, breaks, current>>
    BY <1>10 DEF EndFailed
  <2>2. CASE task[t].kind = "edit"
    <3>1. task' = [task EXCEPT ![t] = [NoTask EXCEPT !.kind = "undo", !.at = "ensure"]] /\ plan' = task[t].old
      BY <1>10, <2>2 DEF EndFailed
    <3>2. /\ task'[t].at = "ensure" /\ task'[t].kind = "undo" /\ task'[t].plan = 0 /\ task'[t].old = 0
      BY <1>0, <3>1 DEF NoTask
    <3>3. breaks' = 0 => ServerRuns(t)'
      BY <1>0, <1>10, <2>1, <2>2, <3>1, <3>2 DEF EndFailed, ServerRuns, Base, Refreshing
    <3>4. task[t].old # 0
      BY <1>0, <2>2 DEF Holds
    <3>5. QED
      BY <1>0, <1>10, <2>1, <3>1, <3>2, <3>3, <3>4, RestoresFrom DEF EndFailed
  <2>3. CASE task[t].kind # "edit"
    <3>1. Go(t, "idle") /\ plan' = plan
      BY <1>10, <2>3 DEF EndFailed
    <3>2. task'[t] = NoTask /\ task'[t].at = "idle" /\ task'[t].plan = 0 /\ task'[t].old = 0
      BY <1>0, <3>1 DEF Go, NoTask
    <3>3. breaks' = 0 => plan' \in Good /\ target' = plan' /\ Serves'
      BY <1>0, <1>10, <2>1, <2>3, <3>1 DEF EndFailed, ServerRuns, Base, Running, Serves
    <3>4. QED
      BY <1>0, <1>10, <2>1, <3>1, <3>2, <3>3, RestoresFrom DEF EndFailed
  <2>4. QED
    BY <2>2, <2>3
<1>11. QED
  BY <1>1, <1>2, <1>3, <1>4, <1>5, <1>6, <1>7, <1>8, <1>9, <1>10 DEF ApplyStep

\* What begins after the others have ended.
LEMMA BeginRestores ==
    ASSUME VpnTypes, Linked, Restores, apart', NEW t \in Task, TaskBegin(t)
    PROVE  Restores'
<1>1. /\ \A s \in Task : task[s].at = "idle"
      /\ \A s \in Task \ {t} : task'[s].at = "idle" /\ task'[s] = NoTask
      /\ apart
  <2>1. \A s \in Task \ {t} : task'[s] = task[s]
    BY BeginMeans
  <2>2. apart /\ Working = {}
    BY BeginMeans
  <2>3. QED
    BY <2>1, <2>2 DEF Working, Restores
<1>2. /\ task'[t].kind \in {"due", "manual", "apply", "edit"} /\ task'[t].at \in {"download", "ensure"}
      /\ task'[t].at = "download" <=> task'[t].kind \in {"due", "manual"}
      /\ task'[t].plan = 0 /\ task'[t].old = IF task'[t].kind = "edit" THEN plan ELSE 0
      /\ task'[t].kind = "edit" => plan' \in Plan /\ bad' = IF plan' \in Rejected THEN bad + 1 ELSE bad
      /\ task'[t].kind # "edit" => plan' = plan /\ bad' = bad
      /\ UNCHANGED <<breaks, current, target, lastGood, ocserv>>
  BY BeginMeans DEF certVars, configVars
<1>3. breaks = 0 => plan \in Good /\ target = plan /\ Serves
  BY <1>1 DEF Restores, Recovering
<1>4. breaks' = 0 => ServerRuns(t)'
  <2>1. breaks' = 0 => Base(t)' = plan /\ plan \in Good
    BY <1>2, <1>3 DEF Base
  <2>2. breaks' = 0 /\ task'[t].at = "download" => Serves'
    BY <1>2, <1>3 DEF Running, Serves
  <2>3. QED
    BY <1>2, <1>3, <2>1, <2>2 DEF ServerRuns, Refreshing
<1>5. bad' = 0 => bad = 0 /\ (plan' = plan \/ plan' \in Good)
  BY <1>2, VpnTypesParts DEF Good
<1>6. bad' = 0 /\ breaks' \in {0, 1} =>
        /\ plan \in Good /\ plan' \in Good /\ target' \in Good \cup {0} /\ lastGood' \in Good \cup {0}
        /\ target' # 0 \/ lastGood' # 0
  BY <1>1, <1>2, <1>5 DEF Restores, Startable
<1>7. QED
  BY <1>1, <1>2, <1>4, <1>6, RestoresFrom

LEMMA BrokenRestores ==
    ASSUME VpnTypes, Linked, Restores, apart', NEW t \in Task, Broken(t)
    PROVE  Restores'
<1>0. /\ \A s \in Task \ {t} : task'[s].at = "idle" /\ task'[s] = NoTask
      /\ breaks = 0 => ServerRuns(t)
      /\ bad = 0 /\ breaks \in {0, 1} =>
               /\ plan \in Good /\ target \in Good \cup {0} /\ lastGood \in Good \cup {0}
               /\ task[t].at \notin {"save", "place"} => target # 0 \/ lastGood # 0
               /\ task[t].plan \in Good \cup {0} /\ task[t].old \in Good \cup {0}
      /\ 0 \notin Good
  BY BeforeStep, VpnFilesAssumption DEF Good
<1>1. /\ task'[t].at = "failed" /\ task'[t].plan = task[t].plan /\ task'[t].old = task[t].old
  BY GoMeans DEF Broken
<1>2. UNCHANGED <<plan, bad>> /\ breaks' = breaks + 1 /\ breaks \in Nat
  BY VpnTypesParts DEF Broken, worldVars
<1>3. /\ task[t].at = "place" /\ target = 0 => target' = lastGood /\ lastGood' = 0
      /\ task[t].at # "place" \/ target # 0 => target' = target /\ lastGood' = lastGood
  BY DEF Broken, Is
<1>4. breaks = 0 => /\ task[t].at = "save" => target \in Good
                    /\ task[t].at = "place" => target = 0 /\ lastGood \in Good
  BY <1>0 DEF ServerRuns, Refreshing
<1>5. QED
  BY <1>0, <1>1, <1>2, <1>3, <1>4, RestoresFrom

LEMMA DeathRestores == VpnTypes /\ Linked /\ Restores /\ Death => Restores'
<1> SUFFICES ASSUME VpnTypes, Linked, Restores, Death PROVE Restores'
  OBVIOUS
<1>1. \A s \in Task : task'[s] = NoTask /\ task'[s].at = "idle" /\ task'[s].plan = 0 /\ task'[s].old = 0
  BY DEF Death, NoTask
<1>2. UNCHANGED <<plan, target, lastGood, bad, apart>> /\ breaks' = breaks + 1 /\ breaks \in Nat
  BY VpnTypesParts DEF Death, configVars
<1>3. apart /\ breaks = 0 => target # 0 \/ lastGood # 0
  <2>1. CASE \A t \in Task : task[t].at = "idle"
    BY <2>1, VpnFilesAssumption DEF Restores, Recovering, Good
  <2>2. CASE \E t \in Task : task[t].at # "idle"
    <3>1. PICK t \in Task : task[t].at # "idle"
      BY <2>2
    <3>2. task[t].at \in TaskStage
      BY VpnTypesParts DEF Goroutines, Goroutine
    <3>3. apart /\ breaks = 0 => ServerRuns(t)
      BY <3>1 DEF Restores, Recovering
    <3>4. QED
      BY <3>1, <3>2, <3>3, VpnFilesAssumption DEF ServerRuns, Good, TaskStage, Refreshing
  <2>3. QED
    BY <2>1, <2>2
<1>4. Recovering' /\ Startable'
  BY <1>1, <1>2, <1>3 DEF Restores, Recovering, Startable
<1>5. QED
  BY <1>1, <1>4 DEF Restores

LEMMA RestoresStep == VpnTypes /\ Linked /\ Restores /\ [VpnNext]_vpnVars => Restores'
<1> SUFFICES ASSUME VpnTypes, Linked, Restores, [VpnNext]_vpnVars PROVE Restores'
  OBVIOUS
<1>1. ASSUME NEW t \in Task, RefreshStep(t) \/ ApplyStep(t) \/ TaskBegin(t) \/ Broken(t) PROVE Restores'
  <2>1. CASE apart'
    BY <1>1, <2>1, RefreshRestores, ApplyRestoresStep, BeginRestores, BrokenRestores
  <2>2. CASE ~apart'
    BY <2>2 DEF Restores, Recovering, Startable
  <2>3. QED
    BY <2>1, <2>2
<1>2. CASE Serve \/ UNCHANGED vpnVars
  BY <1>2 DEF Serve, vpnVars, certVars, configVars, Restores, Recovering, Startable, ServerRuns, Base, Running, Serves
<1>3. CASE Death
  BY <1>3, DeathRestores
<1>4. QED
  BY <1>1, <1>2, <1>3 DEF VpnNext, RefreshStep, ApplyStep, TaskBegin

LEMMA RestoresInit == VpnInit => Restores
<1> SUFFICES ASSUME VpnInit PROVE Restores
  OBVIOUS
<1>1. \A t \in Task : task[t] = NoTask /\ task[t].at = "idle" /\ task[t].plan = 0 /\ task[t].old = 0
  BY DEF VpnInit, NoTask
<1>2. plan \in Good /\ target = plan /\ ocserv = Running /\ lastGood = 0 /\ plan # 0
  BY VpnFilesAssumption DEF VpnInit, Good, Running
<1>3. QED
  BY <1>1, <1>2 DEF Restores, Recovering, Startable, Serves

\* After an Apply that failed the server runs what it ran before, or is off because the
\* second restart failed as the first did; and one failure or death leaves a configuration
\* it can be started with, unless Applies have overlapped.
THEOREM ApplyIsRestored == VpnSpec => []ApplyRestores
<1>1. VpnTypes /\ Restores => ApplyRestores
  <2> SUFFICES ASSUME VpnTypes, Restores, apart, Working = {}
               PROVE  /\ breaks = 0 => target = plan /\ Serves
                      /\ bad + breaks <= 1 => {target, lastGood} \cap (Plan \ Rejected) # {}
    BY DEF ApplyRestores, Serves, Running
  <2>1. \A t \in Task : task[t].at = "idle"
    BY DEF Working
  <2>2. breaks = 0 => plan \in Good /\ target = plan /\ Serves
    BY <2>1 DEF Restores, Recovering
  <2>3. bad = 0 /\ breaks = 1 => target \in Good \/ lastGood \in Good
    BY <2>1 DEF Restores, Startable
  <2>4. bad + breaks <= 1 => breaks = 0 \/ (bad = 0 /\ breaks = 1)
    <3>1. bad \in Nat /\ breaks \in Nat
      BY VpnTypesParts
    <3>2. QED
      BY <3>1
  <2>5. QED
    BY <2>2, <2>3, <2>4 DEF Good
<1>2. QED
  BY <1>1, VpnInitTypes, VpnStepTypes, LinkedInit, LinkedStep, RestoresInit, RestoresStep, PTL DEF VpnSpec

-----------------------------------------------------------------------------
(* Accounts: types.                                                        *)

UnderWay == {"write", "apply", "undo", "reapply"}

Importing == [at : {"none", "node", "list", "user", "prune", "apply", "taken"}, file : Seq(Item),
              replace : BOOLEAN, next : Nat, local : Seq(Vpn), listed : Users, left : SUBSET User,
              before : [Vpn -> Users]]

\* Each item has its node once all nodes are imported.
Progress(i) ==
    /\ i.at = "node" => Len(i.local) = i.next - 1 /\ i.next \in 1 .. Len(i.file) + 1
    /\ i.at \in {"list", "user", "prune", "apply", "taken"} =>
         Len(i.local) = Len(i.file) /\ i.next \in 1 .. Len(i.file) + 1
    /\ i.at \in {"user", "prune"} => i.next <= Len(i.file)
    /\ i.at = "taken" => i.next = Len(i.file) + 1
    /\ i.at = "user" => \A u \in i.left : i.file[i.next].users[u] # Nobody

Requests == [at : {"none", "undone"} \cup UnderWay, op : {"create", "update", "delete"}, node : Vpn \cup {Nobody},
             user : User \cup {Nobody}, old : Account \cup {Nobody}, before : Users]

Known(c) == c.at \in UnderWay => c.node \in Vpn /\ c.user \in User /\ (c.op # "create" => c.old \in Account)

AccountTypes ==
    /\ title \in [Vpn -> Title \cup {Nobody}] /\ buried \subseteq Vpn
    /\ account \in [Vpn -> Users]
    /\ deployed \in [Vpn -> [title : Title \cup {Nobody}, users : Users]]
    /\ import \in Importing /\ Progress(import)
    /\ change \in Requests /\ Known(change) /\ (change.at \in UnderWay => change.node \in There)
    /\ mixed \in BOOLEAN /\ files \in Nat /\ requested \in Nat /\ refusals \in Nat

LEMMA NothingTypes ==
    /\ NoUsers \in Users /\ NoImport \in Importing /\ Progress(NoImport) /\ NoImport.at = "none"
    /\ NoChange \in Requests /\ Known(NoChange) /\ NoChange.at = "none"
<1>1. NoUsers \in Users
  BY DEF NoUsers, Users
<1>2. [v \in Vpn |-> NoUsers] \in [Vpn -> Users] /\ <<>> \in Seq(Item) /\ <<>> \in Seq(Vpn)
  BY <1>1
<1>3. NoImport \in Importing /\ Progress(NoImport) /\ NoImport.at = "none"
  BY <1>1, <1>2 DEF NoImport, Importing, Progress
<1>4. NoChange \in Requests /\ Known(NoChange) /\ NoChange.at = "none"
  BY <1>1 DEF NoChange, Requests, Known, UnderWay
<1>5. QED
  BY <1>1, <1>3, <1>4

LEMMA GiveUpTypes == GiveUp => import' = NoImport /\ import' \in Importing /\ Progress(import') /\ import'.at = "none"
  BY NothingTypes DEF GiveUp

\* The import goes on.
LEMMA ImportingNext ==
    ASSUME NEW i \in Importing
    PROVE  /\ i.next + 1 \in Nat /\ i.file \in Seq(Item) /\ i.local \in Seq(Vpn) /\ i.next \in Nat
           /\ \A at \in {"node", "list"} :
                LET j == [i EXCEPT !.at = at, !.next = @ + 1]
                IN  /\ j \in Importing /\ j.at = at /\ j.next = i.next + 1 /\ j.file = i.file /\ j.local = i.local
                    /\ j.listed = i.listed /\ j.left = i.left /\ j.before = i.before /\ j.replace = i.replace
           /\ LET j == [i EXCEPT !.next = @ + 1]
              IN  /\ j \in Importing /\ j.at = i.at /\ j.next = i.next + 1 /\ j.file = i.file /\ j.local = i.local
                  /\ j.listed = i.listed /\ j.left = i.left /\ j.before = i.before /\ j.replace = i.replace
<1>1. PICK n \in Nat : n = i.next + 1
  BY DEF Importing
<1>2. ASSUME NEW at \in {"node", "list"}
      PROVE  LET j == [i EXCEPT !.at = at, !.next = n]
             IN  /\ j \in Importing /\ j.at = at /\ j.next = n /\ j.file = i.file /\ j.local = i.local
                 /\ j.listed = i.listed /\ j.left = i.left /\ j.before = i.before /\ j.replace = i.replace
  BY DEF Importing
<1>3. LET j == [i EXCEPT !.next = n]
      IN  /\ j \in Importing /\ j.at = i.at /\ j.next = n /\ j.file = i.file /\ j.local = i.local
          /\ j.listed = i.listed /\ j.left = i.left /\ j.before = i.before /\ j.replace = i.replace
  BY DEF Importing
<1>4. i.file \in Seq(Item) /\ i.local \in Seq(Vpn) /\ i.next \in Nat
  BY DEF Importing
<1>5. QED
  BY <1>1, <1>2, <1>3, <1>4

\* The item of the file the import is at.
LEMMA AtItem ==
    ASSUME AccountTypes, import.at \in {"list", "user", "prune", "apply"}, import.next <= Len(import.file)
    PROVE  /\ This \in Vpn /\ import.file[import.next] \in Item /\ Wanted \in [User -> FileUser \cup {Nobody}]
           /\ import.next \in 1 .. Len(import.local) /\ import.next \in 1 .. Len(import.file)
<1>1. /\ import.file \in Seq(Item) /\ import.local \in Seq(Vpn) /\ Len(import.local) = Len(import.file)
      /\ import.next \in 1 .. Len(import.file) + 1 /\ Len(import.file) \in Nat
  BY DEF AccountTypes, Importing, Progress
<1>2. import.next \in 1 .. Len(import.local) /\ import.next \in 1 .. Len(import.file)
  BY <1>1
<1>3. import.local[import.next] \in Vpn /\ import.file[import.next] \in Item
  BY <1>1, <1>2
<1>4. QED
  BY <1>2, <1>3 DEF This, Wanted, Item

\* Accounts as the steps write them.
LEMMA AccountOf ==
    /\ \A a \in Account : /\ a # Nobody
                          /\ a.password \in {"old", "new", "file"} /\ a.quota \in {0, 1, 2} /\ a.history \in BOOLEAN
                          /\ \A p \in {"old", "new", "file"}, q \in {0, 1, 2} :
                               /\ [a EXCEPT !.password = p] \in Account
                               /\ [a EXCEPT !.password = p, !.quota = q] \in Account
    /\ \A p \in {"old", "new", "file"}, q \in {0, 1, 2} : [password |-> p, quota |-> q, history |-> FALSE] \in Account
    /\ \A p \in {"old", "new", "file"} : New(p) \in Account
  BY AccountsAssumption DEF Account, New

LEMMA GivenType ==
    ASSUME AccountTypes, import.at = "user", NEW u \in import.left, NEW q \in {0, 1, 2}
    PROVE  /\ Given(q, u) \in {0, 1, 2} /\ u \in User /\ Wanted[u] \in FileUser /\ Wanted[u] # Nobody
           /\ Given(q, u) = IF Wanted[u].quota = 0 THEN q ELSE Wanted[u].quota
<1>1. import.next <= Len(import.file) /\ u \in User
  BY DEF AccountTypes, Importing, Progress
<1>2. Wanted[u] # Nobody
  BY DEF AccountTypes, Progress, Wanted
<1>3. Wanted[u] \in FileUser
  BY <1>1, <1>2, AtItem
<1>4. QED
  BY <1>1, <1>2, <1>3 DEF Given, FileUser

\* The files an import may read.
LEMMA FileType == \A file \in UNION {[1 .. n -> Item] : n \in 1 .. 2} : file \in Seq(Item) /\ Len(file) \in {1, 2}
<1> SUFFICES ASSUME NEW file \in UNION {[1 .. n -> Item] : n \in 1 .. 2} PROVE file \in Seq(Item) /\ Len(file) \in {1, 2}
  OBVIOUS
<1>1. PICK n \in 1 .. 2 : file \in [1 .. n -> Item]
  OBVIOUS
<1>2. QED
  BY <1>1

LEMMA ImportFields ==
    ASSUME AccountTypes
    PROVE  /\ import \in Importing /\ import.next \in Nat /\ import.file \in Seq(Item) /\ import.local \in Seq(Vpn)
           /\ Len(import.file) \in Nat /\ Len(import.local) \in Nat /\ DOMAIN import.local = 1 .. Len(import.local)
           /\ import.before \in [Vpn -> Users]
  BY DEF AccountTypes, Importing

LEMMA AccountsInitTypes == AccountsInit => AccountTypes
<1> SUFFICES ASSUME AccountsInit PROVE AccountTypes
  OBVIOUS
<1>1. [password |-> "old", quota |-> 1, history |-> TRUE] \in Account
  BY DEF Account
<1>2. account \in [Vpn -> Users]
  <2>1. \A f \in [User -> {Nobody, [password |-> "old", quota |-> 1, history |-> TRUE]}] : f \in Users
    BY <1>1 DEF Users
  <2>2. QED
    BY <2>1 DEF AccountsInit
<1>3. buried \subseteq Vpn
  BY DEF AccountsInit
<1>4. deployed \in [Vpn -> [title : Title \cup {Nobody}, users : Users]]
  BY <1>2 DEF AccountsInit
<1>5. QED
  BY <1>2, <1>3, <1>4, NothingTypes DEF AccountsInit, AccountTypes, UnderWay

LEMMA AccountTypesFrom ==
    ASSUME title' \in [Vpn -> Title \cup {Nobody}], buried' \subseteq Vpn, account' \in [Vpn -> Users],
           deployed' \in [Vpn -> [title : Title \cup {Nobody}, users : Users]],
           import' \in Importing, Progress(import'),
           change' \in Requests, Known(change'), change'.at \in UnderWay => change'.node \in There',
           mixed' \in BOOLEAN, files' \in Nat, requested' \in Nat, refusals' \in Nat
    PROVE  AccountTypes'
  BY DEF AccountTypes

LEMMA AccountTypesParts ==
    ASSUME AccountTypes
    PROVE  /\ title \in [Vpn -> Title \cup {Nobody}] /\ buried \subseteq Vpn /\ account \in [Vpn -> Users]
           /\ deployed \in [Vpn -> [title : Title \cup {Nobody}, users : Users]]
           /\ import \in Importing /\ Progress(import)
           /\ change \in Requests /\ Known(change) /\ (change.at \in UnderWay => change.node \in There)
           /\ mixed \in BOOLEAN /\ files \in Nat /\ requested \in Nat /\ refusals \in Nat
  BY DEF AccountTypes

LEMMA DeployType ==
    ASSUME AccountTypes, NEW v \in Vpn, Deploy(v)
    PROVE  deployed' \in [Vpn -> [title : Title \cup {Nobody}, users : Users]]
  BY AccountTypesParts DEF Deploy

LEMMA ImportTypes ==
    ASSUME AccountTypes,
           \/ BeginImport \/ ImportNode \/ NodesImported \/ ListUsers \/ ImportUser \/ UsersImported
           \/ PruneUser \/ ImportApply \/ ImportFails
    PROVE  AccountTypes'
<1> USE DEF nodeRows, bounds
<1> PICK i : i = import
  OBVIOUS
<1>0. /\ i \in Importing /\ Progress(i) /\ Len(i.file) \in Nat /\ Len(i.local) \in Nat
  BY AccountTypesParts DEF Importing
<1>1. CASE BeginImport
  <2>1. PICK file \in UNION {[1 .. n -> Item] : n \in 1 .. 2}, replace \in BOOLEAN :
           import' = [NoImport EXCEPT !.at = "node", !.file = file, !.replace = replace, !.before = account]
    BY <1>1 DEF BeginImport
  <2>2. file \in Seq(Item) /\ Len(file) \in {1, 2}
    BY FileType
  <2>3. /\ import'.at = "node" /\ import'.file = file /\ import'.next = 1 /\ import'.local = <<>>
        /\ import' \in Importing
    BY <2>1, <2>2, NothingTypes, AccountTypesParts DEF NoImport, Importing
  <2>4. Progress(import')
    BY <2>2, <2>3 DEF Progress
  <2>5. change' \in {change, NoChange} /\ (change'.at \in UnderWay => change' = change)
    BY <1>1, NothingTypes DEF BeginImport, UnderWay
  <2>6. /\ UNCHANGED <<title, buried, account, deployed, requested, refusals>> /\ mixed' \in BOOLEAN
        /\ files' \in Nat
    <3>1. UNCHANGED <<title, buried, account, deployed, requested, refusals>> /\ files' = files + 1
      BY <1>1 DEF BeginImport
    <3>2. mixed' = (mixed \/ change.at \notin {"none", "undone"})
      BY <1>1 DEF BeginImport
    <3>3. QED
      BY <3>1, <3>2, AccountTypesParts
  <2>7. QED
    BY <2>3, <2>4, <2>5, <2>6, NothingTypes, AccountTypesParts, AccountTypesFrom DEF There
<1>2. CASE ImportNode
  <2>0. i.next \in 1 .. Len(i.file) /\ i.at = "node" /\ Len(i.local) = i.next - 1 /\ i.file[i.next] \in Item
    <3>1. import.at = "node" /\ import.next <= Len(import.file)
      BY <1>2 DEF ImportNode
    <3>2. i.file \in Seq(Item) /\ i.next \in Nat
      BY <1>0, ImportingNext
    <3>3. i.next \in 1 .. Len(i.file) /\ i.at = "node" /\ Len(i.local) = i.next - 1
      BY <1>0, <3>1, <3>2 DEF Progress
    <3>4. QED
      BY <3>2, <3>3
  <2>1. title' \in [Vpn -> Title \cup {Nobody}] /\ There \subseteq There'
        /\ import' \in Importing /\ Progress(import')
    <3>1. CASE GiveUp /\ UNCHANGED title
      BY <3>1, GiveUpTypes, AccountTypesParts DEF There
    <3>2. ASSUME NEW v \in Vpn, title' = [title EXCEPT ![v] = i.file[i.next].title],
                 import' = [i EXCEPT !.next = @ + 1, !.local = Append(@, v)]
          PROVE  title' \in [Vpn -> Title \cup {Nobody}] /\ There \subseteq There' /\ import' \in Importing /\ Progress(import')
      <4>3. i.file[i.next].title \in Title
        BY <2>0 DEF Item
      <4>4. title' \in [Vpn -> Title \cup {Nobody}] /\ There \subseteq There'
        BY <3>2, <4>3, AccountTypesParts, AccountsAssumption DEF There
      <4>5. /\ Append(i.local, v) \in Seq(Vpn) /\ Len(Append(i.local, v)) = Len(i.local) + 1
        BY <1>0 DEF Importing
      <4>6. /\ import' \in Importing /\ import'.at = i.at /\ import'.next = i.next + 1 /\ import'.file = i.file
            /\ import'.local = Append(i.local, v)
        <5>1. PICK n \in Nat, l \in Seq(Vpn) : n = i.next + 1 /\ l = Append(i.local, v)
          BY <1>0, <4>5, ImportingNext
        <5>2. import' = [i EXCEPT !.next = n, !.local = l]
          BY <1>0, <3>2, <5>1
        <5>3. QED
          BY <1>0, <5>1, <5>2 DEF Importing
      <4>7. Progress(import')
        BY <1>0, <2>0, <4>5, <4>6 DEF Progress
      <4>8. QED
        BY <4>4, <4>6, <4>7
    <3>3. ASSUME ~(GiveUp /\ UNCHANGED title)
          PROVE  \E v \in Vpn : /\ title' = [title EXCEPT ![v] = i.file[i.next].title]
                                /\ import' = [i EXCEPT !.next = @ + 1, !.local = Append(@, v)]
      <4>2. i.file[i.next].id \in Vpn
        BY <2>0 DEF Item
      <4>3. Targets(i.file[i.next]) \subseteq Vpn
        BY <4>2 DEF Targets, There
      <4>4. QED
        BY <1>2, <3>3, <4>2, <4>3 DEF ImportNode
    <3>4. QED
      BY <3>1, <3>2, <3>3
  <2>2. UNCHANGED <<buried, account, deployed, change, mixed, files, requested, refusals>>
    BY <1>2 DEF ImportNode
  <2>3. QED
    BY <2>1, <2>2, AccountTypesParts, AccountTypesFrom
<1>3. CASE NodesImported
  <2>1. /\ import' \in Importing /\ import'.at = "list" /\ import'.next = 1 /\ import'.file = i.file
        /\ import'.local = i.local
    BY <1>0, <1>3 DEF NodesImported, Importing
  <2>2. Progress(import')
    BY <1>0, <1>3, <2>1 DEF NodesImported, Progress
  <2>3. UNCHANGED <<title, buried, account, deployed, change, mixed, files, requested, refusals>>
    BY <1>3 DEF NodesImported
  <2>4. QED
    BY <2>1, <2>2, <2>3, AccountTypesParts, AccountTypesFrom DEF There
<1>4. CASE ListUsers
  <2>1. UNCHANGED <<title, buried, account, deployed, change, mixed, files, requested, refusals>>
    BY <1>4 DEF ListUsers
  <2>2. import' \in Importing /\ Progress(import')
    <3>1. CASE i.next <= Len(i.file)
      <4>1. import' = [i EXCEPT !.at = "user", !.listed = account[This], !.left = {u \in User : Wanted[u] # Nobody}]
        BY <1>4, <3>1 DEF ListUsers
      <4>2. account[This] \in Users
        BY <1>4, <3>1, AtItem, AccountTypesParts DEF ListUsers
      <4>3. /\ import' \in Importing /\ import'.at = "user" /\ import'.next = i.next /\ import'.file = i.file
            /\ import'.local = i.local /\ import'.left = {u \in User : Wanted[u] # Nobody}
        BY <1>0, <4>1, <4>2 DEF Importing
      <4>4. \A u \in import'.left : import'.file[import'.next].users[u] # Nobody
        BY <4>3 DEF Wanted
      <4>5. QED
        BY <1>0, <1>4, <3>1, <4>3, <4>4 DEF ListUsers, Progress
    <3>2. CASE ~(i.next <= Len(i.file))
      <4>1. import' = [i EXCEPT !.at = "apply", !.next = 1]
        BY <1>4, <3>2 DEF ListUsers
      <4>2. /\ import' \in Importing /\ import'.at = "apply" /\ import'.next = 1 /\ import'.file = i.file
            /\ import'.local = i.local
        BY <1>0, <4>1 DEF Importing
      <4>3. QED
        BY <1>0, <1>4, <4>2 DEF ListUsers, Progress
    <3>3. QED
      BY <3>1, <3>2
  <2>3. QED
    BY <2>1, <2>2, AccountTypesParts, AccountTypesFrom DEF There
<1>5. CASE ImportUser
  <2>0. i.at = "user" /\ i.next <= Len(i.file)
    BY <1>0, <1>5 DEF ImportUser, Progress
  <2>1. /\ UNCHANGED <<title, buried, deployed, change, mixed, files, requested>>
        /\ refusals' \in {refusals, refusals + 1}
    BY <1>5 DEF ImportUser, Refuse
  <2>2. PICK u \in i.left :
          \/ GiveUp /\ UNCHANGED account
          \/ import' = [i EXCEPT !.left = @ \ {u}] /\ account' = [account EXCEPT ![This][u] = Imported(@, u)]
          \/ GiveUp /\ account' = [account EXCEPT ![This][u] = WithoutQuota(@, u)]
    BY <1>5 DEF ImportUser
  <2>3. u \in User /\ This \in Vpn /\ account[This] \in Users /\ account[This][u] \in Account \cup {Nobody}
    BY <1>0, <2>0, AtItem, AccountTypesParts DEF Importing, Users
  <2>4. Imported(account[This][u], u) \in Account /\ WithoutQuota(account[This][u], u) \in Account
    <3>1. \A q \in {0, 1, 2} : Given(q, u) \in {0, 1, 2}
      BY <2>0, <2>2, GivenType
    <3>2. Imported(account[This][u], u) \in Account
      BY <2>3, <3>1, AccountOf DEF Imported
    <3>3. PICK q \in {0, 1, 2} : q = IF account[This][u] = Nobody THEN 0 ELSE account[This][u].quota
      BY <2>3 DEF Account
    <3>4. WithoutQuota(account[This][u], u) = [Imported(account[This][u], u) EXCEPT !.quota = q]
      BY <3>3 DEF WithoutQuota
    <3>5. QED
      BY <3>2, <3>3, <3>4 DEF Account
  <2>5. account' \in [Vpn -> Users]
    <3>1. ASSUME NEW b \in Account, account' = [account EXCEPT ![This][u] = b]
          PROVE  account' \in [Vpn -> Users]
      BY <2>3, <3>1, AccountTypesParts DEF Users
    <3>2. \/ account' = account
          \/ account' = [account EXCEPT ![This][u] = Imported(account[This][u], u)]
          \/ account' = [account EXCEPT ![This][u] = WithoutQuota(account[This][u], u)]
      BY <2>2
    <3>3. QED
      BY <2>4, <3>1, <3>2, AccountTypesParts
  <2>6. import' \in Importing /\ Progress(import')
    <3>1. CASE import' = [i EXCEPT !.left = @ \ {u}]
      <4>1. /\ import' \in Importing /\ import'.at = i.at /\ import'.next = i.next /\ import'.file = i.file
            /\ import'.local = i.local /\ import'.left \subseteq i.left
        BY <1>0, <3>1 DEF Importing
      <4>2. QED
        BY <1>0, <2>0, <4>1 DEF Progress
    <3>2. QED
      BY <2>2, <3>1, GiveUpTypes
  <2>7. QED
    BY <2>1, <2>5, <2>6, AccountTypesParts, AccountTypesFrom DEF There
<1>6. CASE UsersImported
  <2>0. i.at = "user" /\ i.next <= Len(i.file)
    BY <1>0, <1>6 DEF UsersImported, Progress
  <2>1. UNCHANGED <<title, buried, account, deployed, change, mixed, files, requested, refusals>>
    BY <1>6 DEF UsersImported
  <2>2. import' \in Importing /\ Progress(import')
    <3>1. CASE i.replace
      <4>1. import' = [i EXCEPT !.at = "prune",
                           !.left = {u \in User : i.listed[u] # Nobody /\ Wanted[u] = Nobody}]
        BY <1>6, <3>1 DEF UsersImported
      <4>2. /\ import' \in Importing /\ import'.at = "prune" /\ import'.next = i.next /\ import'.file = i.file
            /\ import'.local = i.local
        BY <1>0, <4>1 DEF Importing
      <4>3. QED
        BY <1>0, <2>0, <4>2 DEF Progress
    <3>2. CASE ~i.replace
      <4>1. import' = [i EXCEPT !.at = "list", !.next = @ + 1]
        BY <1>6, <3>2 DEF UsersImported
      <4>2. /\ import' \in Importing /\ import'.at = "list" /\ import'.next = i.next + 1 /\ import'.file = i.file
            /\ import'.local = i.local
        BY <1>0, <4>1, ImportingNext
      <4>3. QED
        BY <1>0, <2>0, <4>2 DEF Progress
    <3>3. QED
      BY <3>1, <3>2
  <2>3. QED
    BY <2>1, <2>2, AccountTypesParts, AccountTypesFrom DEF There
<1>7. CASE PruneUser
  <2>0. i.at = "prune" /\ i.next <= Len(i.file)
    BY <1>0, <1>7 DEF PruneUser, Progress
  <2>1. UNCHANGED <<title, buried, deployed, change, mixed, files, requested, refusals>>
    BY <1>7 DEF PruneUser
  <2>2. import' \in Importing /\ Progress(import') /\ account' \in [Vpn -> Users]
    <3>1. CASE GiveUp /\ UNCHANGED account
      BY <3>1, GiveUpTypes, AccountTypesParts
    <3>2. CASE import' = [i EXCEPT !.at = "list", !.next = @ + 1] /\ UNCHANGED account
      <4>2. /\ import' \in Importing /\ import'.at = "list" /\ import'.next = i.next + 1 /\ import'.file = i.file
            /\ import'.local = i.local
        BY <1>0, <3>2, ImportingNext
      <4>3. QED
        BY <1>0, <2>0, <3>2, <4>2, AccountTypesParts DEF Progress
    <3>3. ASSUME NEW u \in i.left, import' = [i EXCEPT !.left = @ \ {u}],
                 account' = [account EXCEPT ![This][u] = Nobody]
          PROVE  import' \in Importing /\ Progress(import') /\ account' \in [Vpn -> Users]
      <4>1. u \in User /\ This \in Vpn
        BY <1>0, <2>0, AtItem DEF Importing
      <4>2. account' \in [Vpn -> Users]
        BY <3>3, <4>1, AccountTypesParts DEF Users
      <4>3. /\ import' \in Importing /\ import'.at = i.at /\ import'.next = i.next /\ import'.file = i.file
            /\ import'.local = i.local
        BY <1>0, <3>3 DEF Importing
      <4>4. QED
        BY <1>0, <2>0, <4>2, <4>3 DEF Progress
    <3>4. QED
      BY <1>7, <3>1, <3>2, <3>3 DEF PruneUser
  <2>3. QED
    BY <2>1, <2>2, AccountTypesParts, AccountTypesFrom DEF There
<1>8. CASE ImportApply
  <2>1. UNCHANGED <<title, buried, account, change, mixed, files, requested, refusals>>
    BY <1>8 DEF ImportApply
  <2>2. /\ import' \in Importing /\ Progress(import')
        /\ deployed' \in [Vpn -> [title : Title \cup {Nobody}, users : Users]]
    <3>1. CASE i.next > Len(i.file)
      <4>1. import' = [i EXCEPT !.at = "taken"] /\ UNCHANGED deployed
        BY <1>8, <3>1 DEF ImportApply
      <4>2. /\ import' \in Importing /\ import'.at = "taken" /\ import'.next = i.next /\ import'.file = i.file
            /\ import'.local = i.local
        BY <1>0, <4>1 DEF Importing
      <4>3. QED
        BY <1>0, <1>8, <3>1, <4>1, <4>2, AccountTypesParts DEF ImportApply, Progress
    <3>2. CASE ~(i.next > Len(i.file)) /\ This \in There
      <4>1. Deploy(This) /\ import' = [i EXCEPT !.next = @ + 1]
        BY <1>8, <3>2 DEF ImportApply
      <4>2. /\ import' \in Importing /\ import'.at = i.at /\ import'.next = i.next + 1 /\ import'.file = i.file
            /\ import'.local = i.local
        BY <1>0, <4>1, ImportingNext
      <4>3. This \in Vpn
        BY <3>2 DEF There
      <4>4. QED
        BY <1>0, <1>8, <3>2, <4>1, <4>2, <4>3, DeployType DEF ImportApply, Progress
    <3>3. CASE ~(i.next > Len(i.file)) /\ This \notin There
      BY <1>8, <3>3, GiveUpTypes, AccountTypesParts DEF ImportApply
    <3>4. QED
      BY <3>1, <3>2, <3>3
  <2>3. QED
    BY <2>1, <2>2, AccountTypesParts, AccountTypesFrom DEF There
<1>9. CASE ImportFails
  <2>1. UNCHANGED <<title, buried, account, deployed, change, mixed, files, requested>> /\ refusals' \in Nat
    BY <1>9, AccountTypesParts DEF ImportFails, Refuse
  <2>2. QED
    BY <1>9, <2>1, GiveUpTypes, AccountTypesParts, AccountTypesFrom DEF ImportFails, There
<1>10. QED
  BY <1>1, <1>2, <1>3, <1>4, <1>5, <1>6, <1>7, <1>8, <1>9

LEMMA StoreType ==
    ASSUME AccountTypes, change.at \in UnderWay, NEW value \in Account \cup {Nobody}, Store(value)
    PROVE  account' \in [Vpn -> Users]
<1>1. change.node \in Vpn /\ change.user \in User
  BY DEF AccountTypes, Known
<1>2. QED
  BY <1>1, AccountTypesParts DEF Store, Users

\* What a request stores, and what it stores to undo that.
LEMMA HereType ==
    ASSUME AccountTypes, change.at \in UnderWay
    PROVE  /\ Here \in Account \cup {Nobody} /\ change.op \in {"create", "update", "delete"}
           /\ change.op # "create" => change.old \in Account
           /\ Undone \in Account \cup {Nobody}
           /\ Here # Nobody => [Here EXCEPT !.password = "new"] \in Account
<1>1. change.node \in Vpn /\ change.user \in User /\ (change.op # "create" => change.old \in Account)
  BY DEF AccountTypes, Known
<1>2. Here \in Account \cup {Nobody} /\ change.op \in {"create", "update", "delete"}
  BY <1>1, AccountTypesParts DEF Here, Users, Requests
<1>3. Here # Nobody => \A p \in {"old", "new", "file"} : [Here EXCEPT !.password = p] \in Account
  BY <1>2, AccountOf
<1>4. change.op # "create" => change.old.password \in {"old", "new", "file"} /\ New(change.old.password) \in Account
  BY <1>1, AccountOf
<1>5. Undone \in Account \cup {Nobody}
  BY <1>2, <1>3, <1>4 DEF Undone
<1>6. QED
  BY <1>1, <1>2, <1>3, <1>5

LEMMA ChangeGoesOn ==
    ASSUME AccountTypes, NEW at \in UnderWay \cup {"undone"}, change' = [change EXCEPT !.at = at], change.at \in UnderWay
    PROVE  /\ change' \in Requests /\ Known(change') /\ change'.at = at /\ change'.node = change.node
           /\ change'.op = change.op /\ change'.user = change.user /\ change'.old = change.old
           /\ change'.before = change.before
<1>1. /\ change' \in Requests /\ change'.at = at /\ change'.node = change.node
      /\ change'.op = change.op /\ change'.user = change.user /\ change'.old = change.old
      /\ change'.before = change.before
  BY AccountTypesParts DEF Requests
<1>2. QED
  BY <1>1, AccountTypesParts DEF Known

LEMMA ChangeTypes ==
    ASSUME AccountTypes, BeginChange \/ WriteChange \/ ApplyChange \/ UndoChange \/ Reapply \/ DeleteVpn
    PROVE  AccountTypes'
<1> USE DEF nodeRows, bounds
<1>1. CASE BeginChange
  <2>1. PICK op \in {"create", "update", "delete"}, v \in There, u \in User :
           /\ op # "create" => account[v][u] # Nobody
           /\ change' = [NoChange EXCEPT !.at = "write", !.op = op, !.node = v, !.user = u,
                                         !.old = account[v][u], !.before = account[v]]
    BY <1>1 DEF BeginChange
  <2>2. v \in Vpn /\ account[v] \in Users /\ account[v][u] \in Account \cup {Nobody}
    BY AccountTypesParts DEF There, Users
  <2>3. /\ change' \in Requests /\ change'.at = "write" /\ change'.node = v /\ change'.user = u /\ change'.op = op
        /\ change'.old = account[v][u]
    BY <2>1, <2>2 DEF NoChange, Requests, UnderWay
  <2>4. Known(change')
    BY <2>1, <2>2, <2>3 DEF Known
  <2>5. UNCHANGED <<title, buried, account, deployed, files, refusals>> /\ requested' = requested + 1
    BY <1>1 DEF BeginChange
  <2>6. mixed' = (mixed \/ import.at \notin {"none", "taken"}) /\ import' \in {import, NoImport}
    BY <1>1 DEF BeginChange
  <2>7. mixed' \in BOOLEAN
    BY <2>6
  <2>8. import' \in Importing /\ Progress(import')
    BY <2>6, NothingTypes, AccountTypesParts
  <2>9. QED
    BY <2>1, <2>3, <2>4, <2>5, <2>7, <2>8, AccountTypesParts, AccountTypesFrom DEF There
<1>2. CASE WriteChange
  <2>1. UNCHANGED <<title, buried, deployed, import, mixed, files, requested, refusals>> /\ change.at = "write"
    BY <1>2 DEF WriteChange
  <2>2. CASE change' = NoChange /\ UNCHANGED account
    BY <2>1, <2>2, NothingTypes, AccountTypesParts, AccountTypesFrom DEF UnderWay
  <2>3. CASE ~(change' = NoChange /\ UNCHANGED account)
    <3>1. /\ (Here = Nobody) = (change.op = "create")
          /\ change' = [change EXCEPT !.at = "apply"]
          /\ Store(CASE change.op = "create" -> New("new")
                     [] change.op = "update" -> [Here EXCEPT !.password = "new"]
                     [] change.op = "delete" -> Nobody)
      BY <1>2, <2>3 DEF WriteChange
    <3>2. (CASE change.op = "create" -> New("new")
             [] change.op = "update" -> [Here EXCEPT !.password = "new"]
             [] change.op = "delete" -> Nobody) \in Account \cup {Nobody}
      BY <2>1, <3>1, HereType, AccountOf DEF UnderWay
    <3>3. account' \in [Vpn -> Users]
      BY <2>1, <3>1, <3>2, StoreType DEF UnderWay
    <3>4. change' \in Requests /\ Known(change') /\ change'.node = change.node
      BY <2>1, <3>1, ChangeGoesOn DEF UnderWay
    <3>5. change.node \in There /\ There' = There
      BY <2>1, AccountTypesParts DEF UnderWay, There
    <3>6. QED
      BY <2>1, <3>3, <3>4, <3>5, AccountTypesParts, AccountTypesFrom
  <2>4. QED
    BY <2>2, <2>3
<1>3. CASE ApplyChange
  <2>1. /\ UNCHANGED <<title, buried, account, import, mixed, files, requested>> /\ change.at = "apply"
        /\ change.at \in UnderWay
    BY <1>3 DEF ApplyChange, UnderWay
  <2>2. change.node \in Vpn /\ change.node \in There /\ There' = There
    BY <2>1, AccountTypesParts DEF There
  <2>3. CASE Deploy(change.node) /\ change' = NoChange /\ UNCHANGED refusals
    BY <2>1, <2>2, <2>3, DeployType, NothingTypes, AccountTypesParts, AccountTypesFrom DEF UnderWay
  <2>4. CASE refusals' \in {refusals, refusals + 1} /\ change' = [change EXCEPT !.at = "undo"] /\ UNCHANGED deployed
    <3>1. change' \in Requests /\ Known(change') /\ change'.node = change.node
      BY <2>1, <2>4, ChangeGoesOn DEF UnderWay
    <3>2. QED
      BY <2>1, <2>2, <2>4, <3>1, AccountTypesParts, AccountTypesFrom
  <2>5. QED
    BY <1>3, <2>3, <2>4 DEF ApplyChange, Refuse
<1>4. CASE UndoChange
  <2>1. /\ UNCHANGED <<title, buried, deployed, import, mixed, files, requested>> /\ change.at = "undo"
        /\ refusals' \in {refusals, refusals + 1}
        /\ change.at \in UnderWay /\ change' = [change EXCEPT !.at = "reapply"]
        /\ Store(Undone) \/ UNCHANGED account
    BY <1>4 DEF UndoChange, UnderWay, Refuse
  <2>2. account' \in [Vpn -> Users]
    BY <2>1, HereType, StoreType, AccountTypesParts
  <2>3. change' \in Requests /\ Known(change') /\ change'.node = change.node
    BY <2>1, ChangeGoesOn DEF UnderWay
  <2>4. change.node \in There /\ There' = There
    BY <2>1, AccountTypesParts DEF There
  <2>5. QED
    BY <2>1, <2>2, <2>3, <2>4, AccountTypesParts, AccountTypesFrom
<1>5. CASE Reapply
  <2>1. /\ UNCHANGED <<title, buried, account, import, mixed, files, requested>> /\ change.at = "reapply"
        /\ change.at \in UnderWay /\ change' = [change EXCEPT !.at = "undone"]
        /\ refusals' \in {refusals, refusals + 1} /\ (Deploy(change.node) \/ UNCHANGED deployed)
    BY <1>5 DEF Reapply, UnderWay, Refuse
  <2>2. deployed' \in [Vpn -> [title : Title \cup {Nobody}, users : Users]]
    BY <2>1, DeployType, AccountTypesParts DEF Known
  <2>3. change' \in Requests /\ Known(change') /\ change'.at = "undone"
    BY <2>1, ChangeGoesOn
  <2>4. QED
    BY <2>1, <2>2, <2>3, AccountTypesParts, AccountTypesFrom DEF UnderWay
<1>6. CASE DeleteVpn
  <2>1. PICK v \in There :
          /\ title' = [title EXCEPT ![v] = Nobody] /\ buried' = buried \cup {v}
          /\ account' = [account EXCEPT ![v] = NoUsers]
          /\ deployed' = [deployed EXCEPT ![v] = [title |-> Nobody, users |-> NoUsers]]
    BY <1>6 DEF DeleteVpn
  <2>2. /\ title' \in [Vpn -> Title \cup {Nobody}] /\ buried' \subseteq Vpn /\ account' \in [Vpn -> Users]
        /\ deployed' \in [Vpn -> [title : Title \cup {Nobody}, users : Users]]
    BY <2>1, NothingTypes, AccountTypesParts DEF There
  <2>3. UNCHANGED <<files, refusals>> /\ requested' = requested + 1 /\ change' = NoChange
    BY <1>6 DEF DeleteVpn
  <2>4. mixed' = (mixed \/ import.at \notin {"none", "taken"}) /\ import' \in {import, NoImport}
    BY <1>6 DEF DeleteVpn
  <2>5. mixed' \in BOOLEAN /\ import' \in Importing /\ Progress(import')
    BY <2>4, NothingTypes, AccountTypesParts
  <2>6. QED
    BY <2>2, <2>3, <2>5, NothingTypes, AccountTypesParts, AccountTypesFrom DEF UnderWay
<1>7. QED
  BY <1>1, <1>2, <1>3, <1>4, <1>5, <1>6

LEMMA AccountsStepTypes == AccountTypes /\ [AccountsNext]_accountVars => AccountTypes'
<1> SUFFICES ASSUME AccountTypes, [AccountsNext]_accountVars PROVE AccountTypes'
  OBVIOUS
<1>1. CASE AccountsNext
  BY <1>1, ImportTypes, ChangeTypes DEF AccountsNext
<1>2. CASE UNCHANGED accountVars
  BY <1>2, AccountTypesParts, AccountTypesFrom DEF accountVars, There
<1>3. QED
  BY <1>1, <1>2

\* The rows, the accounts, the import and the request keep their types.
THEOREM AccountsTypeCorrect == AccountsSpec => []AccountsTypeOK
<1>1. AccountTypes => AccountsTypeOK
  BY DEF AccountTypes, AccountsTypeOK, Importing, Requests, UnderWay
<1>2. QED
  BY <1>1, AccountsInitTypes, AccountsStepTypes, PTL DEF AccountsSpec

-----------------------------------------------------------------------------
(* Accounts: a request and its rollback.                                   *)

\* The accounts of the node while a request is stored.
Stored == [u \in User |-> IF u # change.user THEN change.before[u]
                          ELSE IF change.op = "create" THEN New("new")
                          ELSE IF change.op = "update" THEN [change.old EXCEPT !.password = "new"]
                          ELSE Nobody]

\* The accounts of the node once it is undone.
Back == [u \in User |-> IF change.op = "delete" /\ u = change.user THEN New(change.before[u].password)
                        ELSE change.before[u]]

\* Without an overlap a request has its node to itself, and what it stored tells what it
\* replaced; the first Apply that fails takes one refusal, and the statement that undoes
\* the request or the second Apply another.
Asked ==
    ~mixed =>
        /\ import.at # "none" => change.at = "none"
        /\ change.at # "none" =>
            /\ change.node \in Vpn /\ change.user \in User /\ change.old = change.before[change.user]
            /\ change.op # "create" => change.old \in Account
            /\ change.at = "write" => account[change.node] = change.before
            /\ change.at \in {"apply", "undo"} =>
                 account[change.node] = Stored /\ (change.op = "create" => change.old = Nobody)
            /\ change.at \in {"reapply", "undone"} =>
                 account[change.node] = Back \/ (refusals >= 2 /\ account[change.node] = Stored)
            /\ change.at \in {"undo", "reapply"} => refusals >= 1
            /\ change.at = "undone" /\ refusals <= 1 => deployed[change.node].users = account[change.node]

ImportStep ==
    \/ ImportNode \/ NodesImported \/ ListUsers \/ ImportUser \/ UsersImported
    \/ PruneUser \/ ImportApply \/ ImportFails

LEMMA ImportStepMeans ==
    ASSUME ImportStep
    PROVE  import.at \notin {"none", "taken"} /\ mixed' = mixed /\ change' = change /\ buried' = buried
  BY DEF ImportStep, ImportNode, NodesImported, ListUsers, ImportUser, UsersImported, PruneUser, ImportApply,
     ImportFails, bounds, nodeRows

LEMMA BeginImportMeans ==
    ASSUME BeginImport, ~mixed'
    PROVE  ~mixed /\ change'.at = "none" /\ account' = account /\ title' = title /\ deployed' = deployed
  BY NothingTypes DEF BeginImport, nodeRows

\* Undoing gives back what was there, but for an account that was deleted.
LEMMA UndoneIs ==
    ASSUME AccountTypes, ~mixed, Asked, change.at = "undo"
    PROVE  [Stored EXCEPT ![change.user] = Undone] = Back
<1>1. /\ change.node \in Vpn /\ change.user \in User /\ change.old = change.before[change.user]
      /\ change.op # "create" => change.old \in Account
      /\ change.op = "create" => change.old = Nobody
      /\ account[change.node] = Stored /\ change.op \in {"create", "update", "delete"}
      /\ change.before \in Users
  BY AccountTypesParts DEF Asked, Requests
<1>2. Here = Stored[change.user]
  BY <1>1 DEF Here
<1>3. CASE change.op = "create"
  <2>1. Undone = Nobody
    BY <1>3 DEF Undone
  <2>2. QED
    BY <1>1, <1>3, <2>1 DEF Stored, Back
<1>4. CASE change.op = "update"
  <2>1. Here = [change.old EXCEPT !.password = "new"] /\ Here # Nobody
    BY <1>1, <1>2, <1>4, AccountOf DEF Stored
  <2>2. [Here EXCEPT !.password = change.old.password] = change.old
    BY <1>1, <1>4, <2>1 DEF Account
  <2>3. Undone = change.old
    BY <1>4, <2>1, <2>2 DEF Undone
  <2>4. QED
    BY <1>1, <1>4, <2>3 DEF Stored, Back
<1>5. CASE change.op = "delete"
  <2>1. Here = Nobody
    BY <1>1, <1>2, <1>5 DEF Stored
  <2>2. Undone = New(change.old.password)
    BY <1>5, <2>1 DEF Undone
  <2>3. QED
    BY <1>1, <1>5, <2>2 DEF Stored, Back
<1>6. QED
  BY <1>1, <1>3, <1>4, <1>5

LEMMA AskedStep == AccountTypes /\ Asked /\ [AccountsNext]_accountVars => Asked'
<1> SUFFICES ASSUME AccountTypes, Asked, [AccountsNext]_accountVars, ~mixed' PROVE Asked'
  BY DEF Asked
<1> USE DEF nodeRows, bounds
<1>1. CASE BeginImport
  BY <1>1, BeginImportMeans DEF Asked
<1>2. CASE ImportStep
  BY <1>2, ImportStepMeans DEF Asked
<1>3. CASE BeginChange
  <2>1. PICK op \in {"create", "update", "delete"}, v \in There, u \in User :
           /\ op # "create" => account[v][u] # Nobody
           /\ change' = [NoChange EXCEPT !.at = "write", !.op = op, !.node = v, !.user = u,
                                         !.old = account[v][u], !.before = account[v]]
    BY <1>3 DEF BeginChange
  <2>2. v \in Vpn /\ account[v][u] \in Account \cup {Nobody}
    BY AccountTypesParts DEF There, Users
  <2>3. /\ change'.at = "write" /\ change'.node = v /\ change'.user = u /\ change'.op = op
        /\ change'.old = account[v][u] /\ change'.before = account[v]
    BY <2>1 DEF NoChange
  <2>4. account' = account /\ import'.at = "none"
    BY <1>3, NothingTypes DEF BeginChange
  <2>5. QED
    BY <2>1, <2>2, <2>3, <2>4 DEF Asked
<1>4. CASE WriteChange
  <2>1. UNCHANGED <<title, buried, deployed, import, mixed, files, requested, refusals>> /\ change.at = "write"
    BY <1>4 DEF WriteChange
  <2>2. CASE change' = NoChange /\ UNCHANGED account
    BY <2>1, <2>2, NothingTypes DEF Asked
  <2>3. CASE ~(change' = NoChange /\ UNCHANGED account)
    <3>1. PICK value :
            /\ (Here = Nobody) = (change.op = "create")
            /\ change' = [change EXCEPT !.at = "apply"]
            /\ value = CASE change.op = "create" -> New("new")
                         [] change.op = "update" -> [Here EXCEPT !.password = "new"]
                         [] change.op = "delete" -> Nobody
            /\ Store(value)
      BY <1>4, <2>3 DEF WriteChange
    <3>2. /\ change'.at = "apply" /\ change'.node = change.node
          /\ change'.op = change.op /\ change'.user = change.user /\ change'.old = change.old
          /\ change'.before = change.before
      BY <2>1, <3>1, ChangeGoesOn DEF UnderWay
    <3>3. /\ change.node \in Vpn /\ change.user \in User /\ change.old = change.before[change.user]
          /\ change.op # "create" => change.old \in Account
          /\ account[change.node] = change.before /\ import.at = "none"
          /\ change.op \in {"create", "update", "delete"} /\ change.before \in Users
      BY <2>1, AccountTypesParts DEF Asked, Requests
    <3>4. Here = change.old
      BY <3>3 DEF Here
    <3>5. account'[change.node] = [change.before EXCEPT ![change.user] = value]
      BY <3>1, <3>3, AccountTypesParts DEF Store
    <3>6. Stored' = [change.before EXCEPT ![change.user] = value]
      BY <3>1, <3>2, <3>3, <3>4 DEF Stored, Users
    <3>7. QED
      BY <2>1, <3>1, <3>2, <3>3, <3>4, <3>5, <3>6 DEF Asked
  <2>4. QED
    BY <2>2, <2>3
<1>5. CASE ApplyChange
  <2>1. /\ UNCHANGED <<title, buried, account, import, mixed, files, requested>> /\ change.at = "apply"
        /\ change.at \in UnderWay
    BY <1>5 DEF ApplyChange, UnderWay
  <2>2. CASE change' = NoChange
    BY <2>1, <2>2, NothingTypes DEF Asked
  <2>3. CASE Refuse /\ change' = [change EXCEPT !.at = "undo"]
    <3>1. /\ change'.at = "undo" /\ change'.node = change.node
          /\ change'.op = change.op /\ change'.user = change.user /\ change'.old = change.old
          /\ change'.before = change.before
      BY <2>1, <2>3, ChangeGoesOn DEF UnderWay
    <3>2. Stored' = Stored
      BY <3>1 DEF Stored
    <3>3. refusals' >= 1
      BY <2>3, AccountTypesParts DEF Refuse
    <3>4. QED
      BY <2>1, <3>1, <3>2, <3>3 DEF Asked
  <2>4. change.node \in There
    BY <2>1, AccountTypesParts
  <2>5. QED
    BY <1>5, <2>2, <2>3, <2>4 DEF ApplyChange
<1>6. CASE UndoChange
  <2>1. /\ UNCHANGED <<title, buried, deployed, import, mixed, files, requested>> /\ change.at = "undo"
        /\ change.at \in UnderWay /\ change' = [change EXCEPT !.at = "reapply"]
    BY <1>6 DEF UndoChange, UnderWay
  <2>2. \/ Store(Undone) /\ refusals' = refusals
        \/ account' = account /\ refusals' = refusals + 1
    BY <1>6, <2>1, AccountTypesParts DEF UndoChange, Refuse
  <2>3. /\ change'.at = "reapply" /\ change'.node = change.node
        /\ change'.op = change.op /\ change'.user = change.user /\ change'.old = change.old
        /\ change'.before = change.before
    BY <2>1, ChangeGoesOn DEF UnderWay
  <2>4. /\ change.node \in Vpn /\ change.user \in User /\ account[change.node] = Stored /\ ~mixed
        /\ refusals >= 1 /\ refusals \in Nat
    BY <2>1, AccountTypesParts DEF Asked
  <2>5. account'[change.node] = Back \/ (refusals' >= 2 /\ account'[change.node] = Stored)
    <3>1. CASE Store(Undone) /\ refusals' = refusals
      BY <2>1, <2>4, <3>1, UndoneIs, AccountTypesParts DEF Store
    <3>2. CASE account' = account /\ refusals' = refusals + 1
      BY <2>4, <3>2
    <3>3. QED
      BY <2>2, <3>1, <3>2
  <2>6. Back' = Back /\ Stored' = Stored /\ refusals' >= 1
    BY <2>2, <2>3, <2>4 DEF Back, Stored
  <2>7. QED
    BY <2>1, <2>3, <2>4, <2>5, <2>6 DEF Asked
<1>7. CASE Reapply
  <2>1. /\ UNCHANGED <<title, buried, account, import, mixed, files, requested>> /\ change.at = "reapply"
        /\ change.at \in UnderWay /\ change' = [change EXCEPT !.at = "undone"]
    BY <1>7 DEF Reapply, UnderWay
  <2>2. (Deploy(change.node) /\ refusals' = refusals) \/ Refuse
    BY <1>7, <2>1, AccountTypesParts DEF Reapply
  <2>3. /\ change'.at = "undone" /\ change'.node = change.node
        /\ change'.op = change.op /\ change'.user = change.user /\ change'.old = change.old
        /\ change'.before = change.before
    BY <2>1, ChangeGoesOn
  <2>4. change.node \in Vpn /\ ~mixed /\ refusals >= 1
    BY <2>1 DEF Asked
  <2>5. refusals' <= 1 => deployed'[change.node].users = account[change.node]
    BY <2>2, <2>4, AccountTypesParts DEF Deploy, Refuse
  <2>6. Back' = Back /\ Stored' = Stored /\ (refusals >= 2 => refusals' >= 2)
    BY <2>2, <2>3, AccountTypesParts DEF Back, Stored, Refuse
  <2>7. QED
    BY <2>1, <2>3, <2>4, <2>5, <2>6 DEF Asked
<1>8. CASE DeleteVpn
  BY <1>8, NothingTypes DEF DeleteVpn, Asked
<1>9. CASE UNCHANGED accountVars
  BY <1>9 DEF accountVars, Asked, Stored, Back
<1>10. QED
  BY <1>1, <1>2, <1>3, <1>4, <1>5, <1>6, <1>7, <1>8, <1>9 DEF AccountsNext, ImportStep

\* A request whose Apply failed leaves the accounts as they were, but for the quota and the
\* traffic of an account it should have deleted, unless the statement that undoes it fails
\* as well: then its own account stays as the request stored it, and the others as they
\* were. Without a second failure they are also in use.
THEOREM ChangeIsUndone == AccountsSpec => []ChangeUndone
<1>1. AccountsInit => Asked
  BY NothingTypes DEF AccountsInit, Asked
<1>2. AccountTypes /\ Asked => ChangeUndone
  <2> SUFFICES ASSUME AccountTypes, Asked, change.at = "undone", ~mixed PROVE ChangeUndone
    BY DEF ChangeUndone
  <2>1. /\ change.user \in User /\ change.old = change.before[change.user]
        /\ account[change.node] = Back \/ (refusals >= 2 /\ account[change.node] = Stored)
        /\ refusals <= 1 => deployed[change.node].users = account[change.node]
        /\ change.op \in {"create", "update", "delete"}
    BY AccountTypesParts DEF Asked, Requests
  <2>2. CASE account[change.node] = Back
    BY <2>1, <2>2 DEF ChangeUndone, Back
  <2>3. CASE refusals >= 2 /\ account[change.node] = Stored
    BY <2>1, <2>3 DEF ChangeUndone, Stored
  <2>4. QED
    BY <2>1, <2>2, <2>3
<1>3. QED
  BY <1>1, <1>2, AccountsInitTypes, AccountsStepTypes, AskedStep, PTL DEF AccountsSpec

-----------------------------------------------------------------------------
(* Accounts: an import.                                                    *)

\* As long as nothing fails, a node the import has applied is in use, but while a
\* request has stored an account of it and not applied it yet.
Deployed ==
    refusals = 0 =>
        /\ change.at \in {"none", "write", "apply"}
        /\ import.at \in {"apply", "taken"} =>
             \A k \in DOMAIN import.local : k < import.next /\ import.local[k] \in There =>
                 InUse(import.local[k]) \/ (change.at = "apply" /\ change.node = import.local[k])

LEMMA DeployedKept ==
    ASSUME AccountTypes, Deployed,
           UNCHANGED <<title, account, deployed>>, refusals' \in {refusals, refusals + 1},
           import'.at \in {"apply", "taken"} =>
               /\ import.at \in {"apply", "taken"} /\ import'.local = import.local /\ import'.next = import.next,
           (change'.at = change.at /\ change'.node = change.node)
             \/ (change.at # "apply" /\ change'.at \in {"none", "write"})
    PROVE  Deployed'
<1>1. refusals' = 0 => refusals = 0
  BY AccountTypesParts
<1>2. \A v \in Vpn : InUse(v)' = InUse(v)
  BY DEF InUse
<1>3. There' = There
  BY DEF There
<1>4. There \subseteq Vpn
  BY DEF There
<1>5. QED
  BY <1>1, <1>2, <1>3, <1>4 DEF Deployed

LEMMA DeployMeans ==
    ASSUME AccountTypes, NEW v \in Vpn, Deploy(v), UNCHANGED <<title, account>>
    PROVE  InUse(v)' /\ \A w \in Vpn : InUse(w) => InUse(w)'
  BY AccountTypesParts DEF Deploy, InUse

LEMMA DeployedStep == AccountTypes /\ Deployed /\ [AccountsNext]_accountVars => Deployed'
<1> SUFFICES ASSUME AccountTypes, Deployed, [AccountsNext]_accountVars, refusals' = 0 PROVE Deployed'
  BY DEF Deployed
<1> USE DEF nodeRows, bounds
<1>0. import.local \in Seq(Vpn) /\ import.next \in Nat /\ refusals \in Nat
  BY ImportingNext, AccountTypesParts
<1>1. CASE BeginImport
  <2>1. /\ refusals = 0 /\ import'.at = "node" /\ (change' = change \/ change' = NoChange)
    BY <1>1 DEF BeginImport, NoImport
  <2>2. QED
    BY <2>1, NothingTypes DEF Deployed
<1>2. CASE ImportNode \/ ImportUser \/ PruneUser \/ NodesImported \/ UsersImported
  <2>1. change' = change /\ refusals = 0 /\ import'.at \notin {"apply", "taken"}
    <3>1. import' = NoImport \/ (import \in Importing /\ import'.at \in {import.at, "list", "prune"})
      <4>1. import \in Importing
        BY AccountTypesParts
      <4>2. CASE ImportNode
        BY <4>1, <4>2 DEF ImportNode, GiveUp, Importing
      <4>3. CASE ImportUser
        BY <4>1, <4>3 DEF ImportUser, GiveUp, Importing
      <4>4. CASE PruneUser
        BY <4>1, <4>4 DEF PruneUser, GiveUp, Importing
      <4>5. CASE NodesImported \/ UsersImported
        BY <4>1, <4>5 DEF NodesImported, UsersImported, Importing
      <4>6. QED
        BY <1>2, <4>2, <4>3, <4>4, <4>5
    <3>2. import.at \notin {"apply", "taken"} /\ change' = change /\ refusals' \in {refusals, refusals + 1}
      BY <1>2 DEF Refuse, ImportNode, ImportUser, PruneUser, NodesImported, UsersImported
    <3>3. QED
      BY <1>0, <3>1, <3>2, NothingTypes
  <2>2. QED
    BY <2>1 DEF Deployed
<1>3. CASE ListUsers
  <2>1. change' = change /\ refusals' = refusals
    BY <1>3 DEF ListUsers
  <2>2. import'.at = "apply" => import'.next = 1
    BY <1>3, AccountTypesParts DEF ListUsers, Importing
  <2>3. import'.at # "taken" /\ (import'.at = "apply" => import'.local = import.local)
    BY <1>3, AccountTypesParts DEF ListUsers, Importing
  <2>4. QED
    BY <1>0, <2>1, <2>2, <2>3 DEF Deployed
<1>4. CASE ImportApply
  <2>1. UNCHANGED <<title, account, change, refusals>> /\ import.at = "apply"
    BY <1>4 DEF ImportApply
  <2>2. CASE import.next > Len(import.file)
    <3>1. import' = [import EXCEPT !.at = "taken"] /\ UNCHANGED deployed
      BY <1>4, <2>2 DEF ImportApply
    <3>2. import'.local = import.local /\ import'.next = import.next
      BY <3>1, AccountTypesParts DEF Importing
    <3>3. QED
      BY <2>1, <3>1, <3>2, DeployedKept
  <2>3. CASE ~(import.next > Len(import.file)) /\ This \in There
    <3>1. Deploy(This) /\ import' = [import EXCEPT !.next = @ + 1]
      BY <1>4, <2>3 DEF ImportApply
    <3>2. import'.local = import.local /\ import'.next = import.next + 1
      BY <3>1, ImportingNext, AccountTypesParts
    <3>3. PICK v \in Vpn : v = This /\ Deploy(v)
      BY <2>3, <3>1 DEF There
    <3>4. InUse(v)' /\ \A w \in Vpn : InUse(w) => InUse(w)'
      BY <2>1, <3>3, DeployMeans
    <3>5. ASSUME NEW k \in DOMAIN import.local, k < import.next + 1, NEW w \in Vpn, w = import.local[k], w \in There'
          PROVE  InUse(w)' \/ (change.at = "apply" /\ change.node = w)
      <4>0. There' = There
        BY <2>1 DEF There
      <4>1. CASE k = import.next
        BY <3>3, <3>4, <3>5, <4>1 DEF This
      <4>2. CASE k # import.next
        <5>1. k < import.next
          BY <1>0, <3>5, <4>2
        <5>2. InUse(w) \/ (change.at = "apply" /\ change.node = w)
          BY <2>1, <3>5, <4>0, <5>1 DEF Deployed
        <5>3. QED
          BY <3>4, <5>2
      <4>3. QED
        BY <4>1, <4>2
    <3>6. change'.at \in {"none", "write", "apply"}
      BY <2>1 DEF Deployed
    <3>7. \A k \in DOMAIN import'.local : import'.local[k] \in Vpn
      BY <1>0, <3>2
    <3>8. QED
      BY <2>1, <3>2, <3>5, <3>6, <3>7 DEF Deployed
  <2>4. CASE ~(import.next > Len(import.file)) /\ This \notin There
    <3>1. GiveUp
      BY <1>4, <2>4 DEF ImportApply
    <3>2. QED
      BY <2>1, <3>1, NothingTypes DEF Deployed, GiveUp
  <2>5. QED
    BY <2>2, <2>3, <2>4
<1>5. CASE ImportFails
  <2>1. refusals' = refusals + 1
    BY <1>5 DEF ImportFails, Refuse
  <2>2. QED
    BY <1>0, <2>1
<1>6. CASE BeginChange
  <2>1. /\ UNCHANGED <<title, account, deployed, refusals>>
        /\ import' = IF import.at = "taken" THEN NoImport ELSE import
        /\ change.at \in {"none", "undone"} /\ change'.at = "write"
    BY <1>6 DEF BeginChange, NoChange
  <2>2. QED
    BY <2>1, NothingTypes, DeployedKept
<1>7. CASE WriteChange
  <2>1. UNCHANGED <<title, deployed, import, refusals>> /\ change.at = "write" /\ change.at \in UnderWay
    BY <1>7 DEF WriteChange, UnderWay
  <2>2. CASE change' = NoChange /\ UNCHANGED account
    BY <2>1, <2>2, NothingTypes, DeployedKept
  <2>3. CASE ~(change' = NoChange /\ UNCHANGED account)
    <3>1. PICK value : change' = [change EXCEPT !.at = "apply"] /\ Store(value)
      BY <1>7, <2>3 DEF WriteChange
    <3>2. change'.at = "apply" /\ change'.node = change.node
      BY <2>1, <3>1, ChangeGoesOn DEF UnderWay
    <3>3. change.node \in Vpn /\ \A w \in Vpn \ {change.node} : account'[w] = account[w]
      BY <2>1, <3>1, AccountTypesParts DEF Store, Known
    <3>4. \A w \in Vpn \ {change.node} : InUse(w) => InUse(w)'
      BY <2>1, <3>3 DEF InUse
    <3>5. There' = There /\ There \subseteq Vpn
      BY <2>1 DEF There
    <3>6. QED
      BY <2>1, <3>2, <3>4, <3>5 DEF Deployed
  <2>4. QED
    BY <2>2, <2>3
<1>8. CASE ApplyChange
  <2>1. /\ UNCHANGED <<title, account, import>> /\ change.at = "apply" /\ change.at \in UnderWay
    BY <1>8 DEF ApplyChange, UnderWay
  <2>2. change.node \in There /\ change.node \in Vpn
    BY <2>1, AccountTypesParts DEF There
  <2>3. Deploy(change.node) /\ change' = NoChange /\ UNCHANGED refusals
    BY <1>0, <1>8, <2>2 DEF ApplyChange, Refuse
  <2>4. PICK v \in Vpn : v = change.node /\ Deploy(v)
    BY <2>2, <2>3
  <2>5. InUse(v)' /\ \A w \in Vpn : InUse(w) => InUse(w)'
    BY <2>1, <2>4, DeployMeans
  <2>6. There' = There /\ There \subseteq Vpn
    BY <2>1 DEF There
  <2>7. QED
    BY <2>1, <2>3, <2>4, <2>5, <2>6, NothingTypes DEF Deployed
<1>9. CASE UndoChange \/ Reapply
  <2>1. change.at \in {"undo", "reapply"} /\ refusals' \in {refusals, refusals + 1}
    BY <1>9 DEF UndoChange, Reapply, Refuse
  <2>2. QED
    BY <1>0, <2>1 DEF Deployed
<1>10. CASE DeleteVpn
  <2>1. PICK v \in There :
          /\ title' = [title EXCEPT ![v] = Nobody]
          /\ account' = [account EXCEPT ![v] = NoUsers]
          /\ deployed' = [deployed EXCEPT ![v] = [title |-> Nobody, users |-> NoUsers]]
    BY <1>10 DEF DeleteVpn
  <2>2. /\ change.at \in {"none", "undone"} /\ change' = NoChange /\ refusals' = refusals
        /\ import' = IF import.at = "taken" THEN NoImport ELSE import
    BY <1>10 DEF DeleteVpn
  <2>3. \A w \in Vpn : w \in There' => w \in There /\ w # v
    BY <2>1, AccountTypesParts DEF There
  <2>4. \A w \in Vpn \ {v} : InUse(w) => InUse(w)'
    BY <2>1, AccountTypesParts DEF InUse, There
  <2>5. There' \subseteq Vpn
    BY DEF There
  <2>6. QED
    BY <2>2, <2>3, <2>4, <2>5, NothingTypes DEF Deployed
<1>11. CASE UNCHANGED accountVars
  BY <1>11 DEF accountVars, Deployed, InUse, There
<1>12. QED
  BY <1>1, <1>2, <1>3, <1>4, <1>5, <1>6, <1>7, <1>8, <1>9, <1>10, <1>11 DEF AccountsNext

\* What the account a node had before the import becomes by the users of an item.
Outcome(users, u, was) ==
    IF users[u] = Nobody THEN IF import.replace THEN Nobody ELSE was
    ELSE [password |-> "file", history |-> was # Nobody /\ was.history,
          quota |-> IF users[u].quota # 0 THEN users[u].quota
                    ELSE IF was = Nobody THEN 0 ELSE was.quota]

\* The accounts a merged node should have, and the accounts it had before.
Due(k) == [u \in User |-> Outcome(import.file[k].users, u, import.before[import.local[k]][u])]
Had(k) == import.before[import.local[k]]

\* How far each step of an import has come, if its items lead to different nodes and no
\* request comes between.
Merging ==
    ~mixed /\ import.at # "none" /\ IsInjective(import.local) =>
        /\ \A k \in DOMAIN import.local : title[import.local[k]] = import.file[k].title
        /\ \A v \in Vpn \ ToSet(import.local) : account[v] = import.before[v]
        /\ import.at = "node" => account = import.before
        /\ import.at \in {"list", "user", "prune"} =>
             \A k \in DOMAIN import.local :
                 /\ k < import.next => account[import.local[k]] = Due(k)
                 /\ k > import.next \/ (k = import.next /\ import.at = "list") =>
                      account[import.local[k]] = Had(k)
        /\ import.at \in {"user", "prune"} =>
             \A k \in DOMAIN import.local : k = import.next =>
                 /\ import.listed = Had(k)
                 /\ account[import.local[k]] =
                      [u \in User |-> IF u \in import.left \/ (import.at = "user" /\ Wanted[u] = Nobody)
                                      THEN Had(k)[u] ELSE Due(k)[u]]
        /\ import.at = "prune" => import.replace /\ \A u \in import.left : Wanted[u] = Nobody
        /\ import.at \in {"apply", "taken"} =>
             \A k \in DOMAIN import.local :
                 account[import.local[k]] = Due(k) /\ (k < import.next => InUse(import.local[k]))

\* Steps that keep the file, its nodes and what they had.
SameFile ==
    /\ import'.file = import.file /\ import'.local = import.local /\ import'.before = import.before
    /\ import'.replace = import.replace

LEMMA SameFileMeans ==
    ASSUME SameFile
    PROVE  /\ \A k \in DOMAIN import.local : Due(k)' = Due(k) /\ Had(k)' = Had(k)
           /\ import'.next = import.next => This' = This /\ Wanted' = Wanted
  BY DEF SameFile, Due, Had, Outcome, This, Wanted

\* What holds of the import while it is alone.
LEMMA MergingMeans ==
    ASSUME AccountTypes, Asked, Merging, ImportStep, ~mixed', IsInjective(import.local)
    PROVE  /\ import \in Importing /\ Progress(import) /\ import.next \in Nat
           /\ import.file \in Seq(Item) /\ import.local \in Seq(Vpn) /\ import.at # "none"
           /\ DOMAIN import.local = 1 .. Len(import.local)
           /\ \A k, l \in DOMAIN import.local : import.local[k] = import.local[l] => k = l
           /\ \A k \in DOMAIN import.local : title[import.local[k]] = import.file[k].title
           /\ \A v \in Vpn \ ToSet(import.local) : account[v] = import.before[v]
           /\ import.at = "node" => account = import.before
           /\ import.at \in {"list", "user", "prune"} =>
                \A k \in DOMAIN import.local :
                    /\ k < import.next => account[import.local[k]] = Due(k)
                    /\ k > import.next \/ (k = import.next /\ import.at = "list") =>
                         account[import.local[k]] = Had(k)
           /\ import.at \in {"user", "prune"} =>
                /\ import.listed = Had(import.next) /\ Had(import.next) = import.before[This]
                /\ import.next \in DOMAIN import.local /\ import.next <= Len(import.file)
                /\ This = import.local[import.next] /\ This \in Vpn /\ This \in ToSet(import.local)
                /\ Wanted \in [User -> FileUser \cup {Nobody}] /\ import.before[This] \in Users
           /\ import.at \in {"user", "prune"} =>
                account[This] =
                      [u \in User |-> IF u \in import.left \/ (import.at = "user" /\ Wanted[u] = Nobody)
                                      THEN Had(import.next)[u] ELSE Due(import.next)[u]]
           /\ import.at = "prune" => import.replace /\ \A u \in import.left : Wanted[u] = Nobody
           /\ import.at = "apply" =>
                \A k \in DOMAIN import.local :
                    account[import.local[k]] = Due(k) /\ (k < import.next => InUse(import.local[k]))
<1>1. import \in Importing /\ Progress(import) /\ import.at \notin {"none", "taken"} /\ ~mixed
  BY ImportStepMeans, AccountTypesParts
<1>2. import.next \in Nat /\ import.file \in Seq(Item) /\ import.local \in Seq(Vpn)
  BY <1>1, ImportingNext
<1>3. /\ DOMAIN import.local = 1 .. Len(import.local)
      /\ \A k, l \in DOMAIN import.local : import.local[k] = import.local[l] => k = l
  BY <1>2 DEF IsInjective
<1>4. import.at \in {"user", "prune"} =>
                /\ import.next \in DOMAIN import.local /\ import.next <= Len(import.file)
                /\ This = import.local[import.next] /\ This \in Vpn /\ This \in ToSet(import.local)
                /\ Wanted \in [User -> FileUser \cup {Nobody}] /\ import.before[This] \in Users
                /\ Had(import.next) = import.before[This]
  <2> SUFFICES ASSUME import.at \in {"user", "prune"}
               PROVE  /\ import.next \in DOMAIN import.local /\ import.next <= Len(import.file)
                      /\ This = import.local[import.next] /\ This \in Vpn /\ This \in ToSet(import.local)
                      /\ Wanted \in [User -> FileUser \cup {Nobody}] /\ import.before[This] \in Users
                      /\ Had(import.next) = import.before[This]
    OBVIOUS
  <2>1. import.next <= Len(import.file)
    BY <1>1 DEF Progress
  <2>2. import.next \in DOMAIN import.local /\ This \in Vpn /\ Wanted \in [User -> FileUser \cup {Nobody}]
    BY <1>3, <2>1, AtItem
  <2>3. This = import.local[import.next] /\ Had(import.next) = import.before[This]
    BY DEF This, Had
  <2>4. This \in ToSet(import.local)
    BY <2>2, <2>3 DEF ToSet
  <2>5. import.before[This] \in Users
    BY <1>1, <2>2 DEF Importing
  <2>6. QED
    BY <2>1, <2>2, <2>3, <2>4, <2>5
<1>5. QED
  BY <1>1, <1>2, <1>3, <1>4 DEF Merging

\* An account that is imported becomes what is due.
LEMMA ImportedIsDue ==
    ASSUME AccountTypes, import.at = "user", NEW u \in import.left, NEW was \in Account \cup {Nobody}
    PROVE  Imported(was, u) = Outcome(Wanted, u, was)
<1>1. /\ \A q \in {0, 1, 2} : Given(q, u) = IF Wanted[u].quota = 0 THEN q ELSE Wanted[u].quota
      /\ Wanted[u] # Nobody
  <2>1. \A q \in {0, 1, 2} : /\ Given(q, u) = IF Wanted[u].quota = 0 THEN q ELSE Wanted[u].quota
                             /\ Wanted[u] # Nobody
    BY GivenType
  <2>2. QED
    BY <2>1
<1>2. CASE was = Nobody
  <2>1. Imported(was, u) = [password |-> "file", quota |-> Given(0, u), history |-> FALSE]
    BY <1>2 DEF Imported
  <2>2. Given(0, u) = IF Wanted[u].quota # 0 THEN Wanted[u].quota ELSE 0
    BY <1>1
  <2>3. QED
    BY <1>1, <1>2, <2>1, <2>2 DEF Outcome
<1>3. CASE was # Nobody
  <2>1. was \in Account /\ was.quota \in {0, 1, 2} /\ was.history \in BOOLEAN
    BY <1>3 DEF Account
  <2>2. PICK q : q = Given(was.quota, u)
    OBVIOUS
  <2>3. q = IF Wanted[u].quota # 0 THEN Wanted[u].quota ELSE was.quota
    BY <1>1, <2>1, <2>2
  <2>4. Imported(was, u) = [password |-> "file", quota |-> q, history |-> was.history]
    BY <1>3, <2>1, <2>2 DEF Imported, Account
  <2>5. Outcome(Wanted, u, was) = [password |-> "file", history |-> was.history, quota |-> q]
    BY <1>1, <1>3, <2>1, <2>3 DEF Outcome
  <2>6. QED
    BY <2>4, <2>5
<1>4. QED
  BY <1>2, <1>3

\* The steps with accounts change those of one node, and no other node's.
LEMMA ThisOnly ==
    ASSUME AccountTypes, Asked, Merging, ImportStep, ~mixed', IsInjective(import.local),
           import.at \in {"user", "prune"}, NEW u \in User, NEW value,
           account' = [account EXCEPT ![This][u] = value]
    PROVE  /\ account'[This] = [account[This] EXCEPT ![u] = value]
           /\ \A k \in DOMAIN import.local : k # import.next => account'[import.local[k]] = account[import.local[k]]
           /\ \A v \in Vpn \ ToSet(import.local) : account'[v] = account[v]
<1>1. /\ import.next \in DOMAIN import.local /\ This = import.local[import.next]
      /\ This \in Vpn /\ This \in ToSet(import.local)
      /\ \A k, l \in DOMAIN import.local : import.local[k] = import.local[l] => k = l
      /\ import.local \in Seq(Vpn)
  BY MergingMeans
<1>2. \A v \in Vpn : v # This => account'[v] = account[v]
  BY <1>1, AccountTypesParts
<1>3. \A k \in DOMAIN import.local : import.local[k] \in Vpn
  BY <1>1
<1>4. account'[This] = [account[This] EXCEPT ![u] = value]
  BY <1>1, AccountTypesParts
<1>5. QED
  BY <1>1, <1>2, <1>3, <1>4

LEMMA ImportNodeMerges == AccountTypes /\ Asked /\ Merging /\ ImportNode /\ ~mixed' => Merging'
<1> SUFFICES ASSUME AccountTypes, Asked, Merging, ImportNode, ~mixed', import'.at # "none", IsInjective(import'.local)
             PROVE  Merging'
  BY DEF Merging
<1> USE DEF nodeRows, bounds
<1>0. ImportStep /\ ~mixed /\ import.at = "node" /\ import.next <= Len(import.file)
  BY ImportStepMeans DEF ImportStep, ImportNode
<1>2. /\ import.local \in Seq(Vpn) /\ import.next = Len(import.local) + 1 /\ Len(import.local) \in Nat
      /\ import.file \in Seq(Item) /\ import.next \in 1 .. Len(import.file)
  BY <1>0, ImportFields, AccountTypesParts DEF Progress
<1>1. PICK v \in Vpn : /\ title' = [title EXCEPT ![v] = import.file[import.next].title]
                       /\ import' = [import EXCEPT !.next = @ + 1, !.local = Append(@, v)]
  <2>1. ~GiveUp
    BY NothingTypes DEF GiveUp
  <2>2. import.file[import.next] \in Item
    BY <1>2
  <2>3. import.file[import.next].id \in Vpn /\ Targets(import.file[import.next]) \subseteq Vpn
    BY <2>2 DEF Item, Targets, There
  <2>4. QED
    BY <2>1, <2>3 DEF ImportNode
<1>3. PICK l \in Seq(Vpn) : l = Append(import.local, v)
  <2>1. Append(import.local, v) \in Seq(Vpn)
    BY <1>2
  <2>2. QED
    BY <2>1
<1>4. /\ Len(l) = Len(import.local) + 1 /\ l[Len(l)] = v /\ DOMAIN l = 1 .. Len(l)
      /\ \A k \in 1 .. Len(import.local) : l[k] = import.local[k]
      /\ DOMAIN import.local = 1 .. Len(import.local)
  BY <1>2, <1>3
<1>5. /\ import'.at = "node" /\ import'.file = import.file /\ import'.local = l /\ import'.before = import.before
  BY <1>0, <1>1, <1>3, AccountTypesParts DEF Importing
<1>6. \A j, k \in DOMAIN l : l[j] = l[k] => j = k
  BY <1>5 DEF IsInjective
<1>7. IsInjective(import.local)
  BY <1>4, <1>6 DEF IsInjective
<1>8. /\ \A k \in DOMAIN import.local : title[import.local[k]] = import.file[k].title
      /\ account = import.before
  BY <1>0, <1>7, MergingMeans
<1>9. \A k \in DOMAIN l : title'[l[k]] = import.file[k].title
  <2> SUFFICES ASSUME NEW k \in DOMAIN l PROVE title'[l[k]] = import.file[k].title
    OBVIOUS
  <2>1. CASE k = Len(l)
    BY <1>1, <1>2, <1>4, <2>1, AccountTypesParts
  <2>2. CASE k # Len(l)
    <3>1. k \in 1 .. Len(import.local) /\ k # Len(l) /\ Len(l) \in DOMAIN l
      BY <1>2, <1>4, <2>2
    <3>2. l[k] = import.local[k] /\ l[k] # v
      BY <1>4, <1>6, <3>1
    <3>3. QED
      BY <1>1, <1>4, <1>8, <3>1, <3>2, AccountTypesParts
  <2>3. QED
    BY <2>1, <2>2
<1>10. account' = account
  BY DEF ImportNode
<1>11. QED
  BY <1>5, <1>8, <1>9, <1>10 DEF Merging

\* A step within the accounts of one node keeps how far the import has come.
LEMMA UsersGoOn ==
    ASSUME SameFile, import'.at \in {"user", "prune"}, import'.next = import.next, import.next \in Nat,
           DOMAIN import.local = 1 .. Len(import.local), import.next \in DOMAIN import.local,
           This = import.local[import.next], import'.listed = Had(import.next),
           account'[This] = [u \in User |-> IF u \in import'.left \/ (import'.at = "user" /\ Wanted'[u] = Nobody)
                                            THEN Had(import.next)[u] ELSE Due(import.next)[u]],
           \A k \in DOMAIN import.local :
               /\ title'[import.local[k]] = import.file[k].title
               /\ k < import.next => account'[import.local[k]] = Due(k)
               /\ k > import.next => account'[import.local[k]] = Had(k),
           \A v \in Vpn \ ToSet(import.local) : account'[v] = import.before[v],
           import'.at = "prune" => import'.replace /\ \A u \in import'.left : Wanted'[u] = Nobody
    PROVE  Merging'
<1>1. /\ \A k \in DOMAIN import.local : Due(k)' = Due(k) /\ Had(k)' = Had(k)
      /\ import'.file = import.file /\ import'.local = import.local /\ import'.before = import.before
  BY SameFileMeans DEF SameFile
<1>2. \A k \in DOMAIN import.local : k = import'.next =>
          /\ import'.listed = Had(k)
          /\ account'[import.local[k]] =
               [u \in User |-> IF u \in import'.left \/ (import'.at = "user" /\ Wanted'[u] = Nobody)
                               THEN Had(k)[u] ELSE Due(k)[u]]
  OBVIOUS
<1>3. \A k \in DOMAIN import'.local : k = import'.next =>
          /\ import'.listed = Had(k)'
          /\ account'[import'.local[k]] =
               [u \in User |-> IF u \in import'.left \/ (import'.at = "user" /\ Wanted'[u] = Nobody)
                               THEN Had(k)'[u] ELSE Due(k)'[u]]
  <2> SUFFICES ASSUME NEW k \in DOMAIN import'.local, k = import'.next
               PROVE  /\ import'.listed = Had(k)'
                      /\ account'[import'.local[k]] =
                           [u \in User |-> IF u \in import'.left \/ (import'.at = "user" /\ Wanted'[u] = Nobody)
                                           THEN Had(k)'[u] ELSE Due(k)'[u]]
    OBVIOUS
  <2>1. k \in DOMAIN import.local /\ Due(k)' = Due(k) /\ Had(k)' = Had(k)
    BY <1>1
  <2>2. QED
    BY <1>1, <1>2, <2>1
<1>4. \A k \in DOMAIN import'.local :
          /\ title'[import'.local[k]] = import'.file[k].title
          /\ k < import'.next => account'[import'.local[k]] = Due(k)'
          /\ k > import'.next => account'[import'.local[k]] = Had(k)'
  BY <1>1
<1>5. \A v \in Vpn \ ToSet(import'.local) : account'[v] = import'.before[v]
  BY <1>1
<1>6. QED
  BY <1>3, <1>4, <1>5 DEF Merging

LEMMA ListMerges == AccountTypes /\ Asked /\ Merging /\ (NodesImported \/ ListUsers) /\ ~mixed' => Merging'
<1> SUFFICES ASSUME AccountTypes, Asked, Merging, NodesImported \/ ListUsers, ~mixed', IsInjective(import'.local)
             PROVE  Merging'
  BY DEF Merging
<1> USE DEF nodeRows, bounds
<1>0. ImportStep /\ ~mixed /\ UNCHANGED <<title, account, deployed>>
  BY ImportStepMeans DEF ImportStep, NodesImported, ListUsers
<1>1. SameFile
  BY AccountTypesParts DEF NodesImported, ListUsers, SameFile, Importing
<1>2. IsInjective(import.local)
  BY <1>1 DEF SameFile
<1>3. /\ import \in Importing /\ Progress(import) /\ import.next \in Nat
      /\ import.file \in Seq(Item) /\ import.local \in Seq(Vpn)
      /\ DOMAIN import.local = 1 .. Len(import.local)
      /\ \A k \in DOMAIN import.local : title[import.local[k]] = import.file[k].title
      /\ \A v \in Vpn \ ToSet(import.local) : account[v] = import.before[v]
      /\ import.at = "node" => account = import.before
      /\ import.at = "list" =>
            \A k \in DOMAIN import.local :
                    /\ k < import.next => account[import.local[k]] = Due(k)
                    /\ k >= import.next => account[import.local[k]] = Had(k)
  BY <1>0, <1>2, MergingMeans
<1>4. \A k \in DOMAIN import.local : Due(k)' = Due(k) /\ Had(k)' = Had(k)
  BY <1>1, SameFileMeans
<1>5. CASE NodesImported
  <2>1. import'.at = "list" /\ import'.next = 1 /\ import.at = "node"
    BY <1>3, <1>5 DEF NodesImported, Importing
  <2>2. \A k \in DOMAIN import.local : account[import.local[k]] = Had(k)
    BY <1>3, <2>1 DEF Had
  <2>3. QED
    BY <1>0, <1>1, <1>3, <1>4, <2>1, <2>2 DEF Merging, SameFile
<1>6. CASE ListUsers /\ import.next <= Len(import.file)
  <2>1. /\ import'.at = "user" /\ import'.next = import.next /\ import.at = "list"
        /\ import'.listed = account[This] /\ import'.left = {u \in User : Wanted[u] # Nobody}
    BY <1>3, <1>6 DEF ListUsers, Importing
  <2>2. This' = This /\ Wanted' = Wanted
    BY <1>1, <2>1, SameFileMeans
  <2>3. import.next \in DOMAIN import.local /\ This = import.local[import.next] /\ This \in Vpn
    BY <1>3, <1>6, <2>1, AtItem DEF This
  <2>4. account[This] = Had(import.next) /\ account[This] \in Users
    BY <1>3, <2>1, <2>3, AccountTypesParts
  <2>5. account[This] = [u \in User |-> IF u \in import'.left \/ Wanted'[u] = Nobody
                                        THEN Had(import.next)[u] ELSE Due(import.next)[u]]
    BY <1>0, <2>1, <2>2, <2>4 DEF Users
  <2>6. QED
    BY <1>0, <1>1, <1>3, <1>4, <2>1, <2>2, <2>3, <2>4, <2>5 DEF Merging, SameFile
<1>7. CASE ListUsers /\ ~(import.next <= Len(import.file))
  <2>1. import'.at = "apply" /\ import'.next = 1 /\ import.at = "list"
    BY <1>3, <1>7 DEF ListUsers, Importing
  <2>2. \A k \in DOMAIN import.local : k < import.next
    BY <1>3, <1>7, <2>1 DEF Progress
  <2>3. QED
    BY <1>0, <1>1, <1>3, <1>4, <2>1, <2>2 DEF Merging, SameFile
<1>8. QED
  BY <1>5, <1>6, <1>7

LEMMA ImportUserMerges == AccountTypes /\ Asked /\ Merging /\ ImportUser /\ ~mixed' => Merging'
<1> SUFFICES ASSUME AccountTypes, Asked, Merging, ImportUser, ~mixed', import'.at # "none", IsInjective(import'.local)
             PROVE  Merging'
  BY DEF Merging
<1> USE DEF nodeRows, bounds
<1>0. ImportStep /\ ~mixed /\ UNCHANGED <<title, deployed>> /\ import.at = "user"
  BY ImportStepMeans DEF ImportStep, ImportUser
<1>1. PICK u \in import.left : /\ import' = [import EXCEPT !.left = @ \ {u}]
                               /\ account' = [account EXCEPT ![This][u] = Imported(@, u)]
  <2>1. ~GiveUp
    BY NothingTypes DEF GiveUp
  <2>2. QED
    BY <2>1 DEF ImportUser
<1>2. /\ SameFile /\ import'.at = "user" /\ import'.next = import.next /\ import'.listed = import.listed
      /\ import'.left = import.left \ {u} /\ u \in User
  BY <1>0, <1>1, AccountTypesParts DEF SameFile, Importing
<1>3. IsInjective(import.local)
  BY <1>2 DEF SameFile
<1>4. /\ \A k \in DOMAIN import.local : Due(k)' = Due(k) /\ Had(k)' = Had(k)
      /\ This' = This /\ Wanted' = Wanted
  BY <1>2, SameFileMeans
<1>5. /\ import.next \in DOMAIN import.local /\ This = import.local[import.next] /\ This \in Vpn
      /\ Had(import.next) = import.before[This] /\ import.before[This] \in Users
      /\ account[This] = [w \in User |-> IF w \in import.left \/ Wanted[w] = Nobody
                                         THEN Had(import.next)[w] ELSE Due(import.next)[w]]
  BY <1>0, <1>3, MergingMeans
<1>6. PICK value : value = Imported(account[This][u], u)
  OBVIOUS
<1>7. account' = [account EXCEPT ![This][u] = value]
  BY <1>1, <1>6
<1>8. account[This][u] = import.before[This][u] /\ import.before[This][u] \in Account \cup {Nobody}
  BY <1>2, <1>5 DEF Users
<1>9. value = Due(import.next)[u]
  <2>1. value = Outcome(Wanted, u, import.before[This][u])
    BY <1>0, <1>6, <1>8, ImportedIsDue
  <2>2. Due(import.next)[u] = Outcome(Wanted, u, import.before[This][u])
    BY <1>2 DEF Due, Wanted, This
  <2>3. QED
    BY <2>1, <2>2
<1>10. /\ account'[This] = [account[This] EXCEPT ![u] = value]
       /\ \A k \in DOMAIN import.local : k # import.next => account'[import.local[k]] = account[import.local[k]]
       /\ \A v \in Vpn \ ToSet(import.local) : account'[v] = account[v]
  BY <1>0, <1>2, <1>3, <1>7, ThisOnly
<1>11. Wanted[u] # Nobody
  BY <1>0, AccountTypesParts DEF Progress, Wanted
<1>12. account'[This] = [w \in User |-> IF w \in import'.left \/ (import'.at = "user" /\ Wanted'[w] = Nobody)
                                        THEN Had(import.next)[w] ELSE Due(import.next)[w]]
  <2>1. PICK due : due = Due(import.next)
    OBVIOUS
  <2>2. PICK had : had = Had(import.next)
    OBVIOUS
  <2>3. account[This] = [w \in User |-> IF w \in import.left \/ Wanted[w] = Nobody THEN had[w] ELSE due[w]]
    BY <1>5, <2>1, <2>2
  <2>4. account'[This] = [w \in User |-> IF w = u THEN due[u] ELSE account[This][w]]
    BY <1>9, <1>10, <2>1, <2>3
  <2>5. account'[This] = [w \in User |-> IF w \in import.left \ {u} \/ Wanted[w] = Nobody THEN had[w] ELSE due[w]]
    BY <1>2, <1>11, <2>3, <2>4
  <2>6. account'[This] = [w \in User |-> IF w \in import'.left \/ (import'.at = "user" /\ Wanted'[w] = Nobody)
                                         THEN had[w] ELSE due[w]]
    BY <1>2, <1>4, <2>5
  <2>7. QED
    BY <2>1, <2>2, <2>6
<1>13. /\ \A k \in DOMAIN import.local : title[import.local[k]] = import.file[k].title
       /\ \A v \in Vpn \ ToSet(import.local) : account[v] = import.before[v]
       /\ import.listed = Had(import.next) /\ import.next \in Nat /\ DOMAIN import.local = 1 .. Len(import.local)
       /\ \A k \in DOMAIN import.local : /\ k < import.next => account[import.local[k]] = Due(k)
                                         /\ k > import.next => account[import.local[k]] = Had(k)
  BY <1>0, <1>3, MergingMeans
<1>14. \A k \in DOMAIN import.local :
          /\ title'[import.local[k]] = import.file[k].title
          /\ k < import.next => account'[import.local[k]] = Due(k)
          /\ k > import.next => account'[import.local[k]] = Had(k)
  BY <1>0, <1>10, <1>13
<1>15. \A v \in Vpn \ ToSet(import.local) : account'[v] = import.before[v]
  BY <1>10, <1>13
<1>16. QED
  BY <1>2, <1>5, <1>12, <1>13, <1>14, <1>15, UsersGoOn

LEMMA UsersMerge == AccountTypes /\ Asked /\ Merging /\ UsersImported /\ ~mixed' => Merging'
<1> SUFFICES ASSUME AccountTypes, Asked, Merging, UsersImported, ~mixed', IsInjective(import'.local)
             PROVE  Merging'
  BY DEF Merging
<1> USE DEF nodeRows, bounds
<1>0. ImportStep /\ ~mixed /\ UNCHANGED <<title, account, deployed>> /\ import.at = "user" /\ import.left = {}
  BY ImportStepMeans DEF ImportStep, UsersImported
<1>1. SameFile
  BY AccountTypesParts DEF UsersImported, SameFile, Importing
<1>2. IsInjective(import.local)
  BY <1>1 DEF SameFile
<1>3. \A k \in DOMAIN import.local : Due(k)' = Due(k) /\ Had(k)' = Had(k)
  BY <1>1, SameFileMeans
<1>4. /\ import \in Importing /\ import.next \in DOMAIN import.local /\ This = import.local[import.next] /\ This \in Vpn
      /\ Had(import.next) = import.before[This] /\ import.before[This] \in Users
      /\ account[This] = [w \in User |-> IF Wanted[w] = Nobody
                                         THEN Had(import.next)[w] ELSE Due(import.next)[w]]
      /\ \A k \in DOMAIN import.local : title[import.local[k]] = import.file[k].title
      /\ \A v \in Vpn \ ToSet(import.local) : account[v] = import.before[v]
      /\ import.listed = Had(import.next) /\ import.next \in Nat /\ DOMAIN import.local = 1 .. Len(import.local)
      /\ \A k \in DOMAIN import.local : /\ k < import.next => account[import.local[k]] = Due(k)
                                        /\ k > import.next => account[import.local[k]] = Had(k)
  BY <1>0, <1>2, MergingMeans
<1>5. \A w \in User : Due(import.next)[w] = Outcome(Wanted, w, import.before[This][w])
  BY DEF Due, Wanted, This
<1>6. CASE import.replace
  <2>1. /\ import'.at = "prune" /\ import'.next = import.next /\ import'.listed = import.listed /\ import'.replace
        /\ import'.left = {w \in User : import.listed[w] # Nobody /\ Wanted[w] = Nobody}
    BY <1>4, <1>6 DEF UsersImported, Importing
  <2>2. This' = This /\ Wanted' = Wanted
    BY <1>1, <2>1, SameFileMeans
  <2>3. \A w \in User : Wanted[w] = Nobody => Due(import.next)[w] = Nobody
    BY <1>5, <1>6 DEF Outcome
  <2>4. account[This] = [w \in User |-> IF w \in import'.left \/ (import'.at = "user" /\ Wanted'[w] = Nobody)
                                        THEN Had(import.next)[w] ELSE Due(import.next)[w]]
    <3>1. PICK due : due = Due(import.next)
      OBVIOUS
    <3>2. PICK had : had = Had(import.next)
      OBVIOUS
    <3>3. account[This] = [w \in User |-> IF Wanted[w] = Nobody THEN had[w] ELSE due[w]]
      BY <1>4, <3>1, <3>2
    <3>4. \A w \in User : w \notin import'.left /\ Wanted[w] = Nobody => had[w] = due[w]
      BY <1>4, <2>1, <2>3, <3>1, <3>2
    <3>5. \A w \in User : w \in import'.left => Wanted[w] = Nobody
      BY <2>1
    <3>6. account[This] = [w \in User |-> IF w \in import'.left THEN had[w] ELSE due[w]]
      BY <3>3, <3>4, <3>5
    <3>7. account[This] = [w \in User |-> IF w \in import'.left \/ (import'.at = "user" /\ Wanted'[w] = Nobody)
                                          THEN had[w] ELSE due[w]]
      BY <2>1, <3>6
    <3>8. QED
      BY <3>1, <3>2, <3>7
  <2>5. \A w \in import'.left : Wanted'[w] = Nobody
    BY <2>1, <2>2
  <2>6. account' = account /\ title' = title
    BY <1>0
  <2>7. QED
    BY <1>1, <1>4, <2>1, <2>4, <2>5, <2>6, UsersGoOn
<1>7. CASE ~import.replace
  <2>1. import'.at = "list" /\ import'.next = import.next + 1
    <3>1. import' = [import EXCEPT !.at = "list", !.next = @ + 1]
      BY <1>7 DEF UsersImported
    <3>2. QED
      BY <1>4, <3>1, ImportingNext
  <2>2. \A w \in User : Wanted[w] = Nobody => Due(import.next)[w] = Had(import.next)[w]
    BY <1>4, <1>5, <1>7 DEF Outcome
  <2>3. account[This] = Due(import.next)
    <3>1. account[This] = [w \in User |-> Due(import.next)[w]]
      BY <1>4, <2>2
    <3>2. QED
      BY <3>1 DEF Due
  <2>4. \A k \in DOMAIN import.local : /\ k < import.next + 1 => account[import.local[k]] = Due(k)
                                       /\ k >= import.next + 1 => account[import.local[k]] = Had(k)
    BY <1>4, <2>3
  <2>5. QED
    BY <1>0, <1>1, <1>3, <1>4, <2>1, <2>4 DEF Merging, SameFile
<1>8. QED
  BY <1>6, <1>7

LEMMA PruneMerges == AccountTypes /\ Asked /\ Merging /\ PruneUser /\ ~mixed' => Merging'
<1> SUFFICES ASSUME AccountTypes, Asked, Merging, PruneUser, ~mixed', import'.at # "none", IsInjective(import'.local)
             PROVE  Merging'
  BY DEF Merging
<1> USE DEF nodeRows, bounds
<1>0. ImportStep /\ ~mixed /\ UNCHANGED <<title, deployed>> /\ import.at = "prune" /\ import \in Importing
  BY ImportStepMeans, AccountTypesParts DEF ImportStep, PruneUser
<1>1. ~GiveUp
  BY NothingTypes DEF GiveUp
<1>2. SameFile
  BY <1>0, <1>1 DEF PruneUser, SameFile, Importing
<1>3. IsInjective(import.local)
  BY <1>2 DEF SameFile
<1>4. \A k \in DOMAIN import.local : Due(k)' = Due(k) /\ Had(k)' = Had(k)
  BY <1>2, SameFileMeans
<1>5. /\ import.next \in DOMAIN import.local /\ This = import.local[import.next] /\ This \in Vpn
      /\ account[This] = [w \in User |-> IF w \in import.left THEN Had(import.next)[w] ELSE Due(import.next)[w]]
      /\ \A k \in DOMAIN import.local : title[import.local[k]] = import.file[k].title
      /\ \A v \in Vpn \ ToSet(import.local) : account[v] = import.before[v]
      /\ import.listed = Had(import.next) /\ import.next \in Nat /\ DOMAIN import.local = 1 .. Len(import.local)
      /\ \A k \in DOMAIN import.local : /\ k < import.next => account[import.local[k]] = Due(k)
                                        /\ k > import.next => account[import.local[k]] = Had(k)
      /\ import.replace /\ \A u \in import.left : Wanted[u] = Nobody
  BY <1>0, <1>3, MergingMeans
<1>6. CASE import.left = {}
  <2>1. import' = [import EXCEPT !.at = "list", !.next = @ + 1] /\ UNCHANGED account
    BY <1>6 DEF PruneUser
  <2>2. import'.at = "list" /\ import'.next = import.next + 1
    BY <1>0, <2>1, ImportingNext
  <2>3. account[This] = Due(import.next)
    <3>1. account[This] = [w \in User |-> Due(import.next)[w]]
      BY <1>5, <1>6
    <3>2. QED
      BY <3>1 DEF Due
  <2>4. \A k \in DOMAIN import.local : /\ k < import.next + 1 => account[import.local[k]] = Due(k)
                                       /\ k >= import.next + 1 => account[import.local[k]] = Had(k)
    BY <1>5, <2>3
  <2>5. QED
    BY <1>0, <1>2, <1>4, <1>5, <2>1, <2>2, <2>4 DEF Merging, SameFile
<1>7. CASE import.left # {}
  <2>1. PICK u \in import.left : /\ import' = [import EXCEPT !.left = @ \ {u}]
                                 /\ account' = [account EXCEPT ![This][u] = Nobody]
    BY <1>1, <1>7 DEF PruneUser
  <2>2. /\ import'.at = "prune" /\ import'.next = import.next /\ import'.listed = import.listed /\ import'.replace
        /\ import'.left = import.left \ {u} /\ u \in User
    BY <1>0, <1>5, <2>1 DEF Importing
  <2>3. This' = This /\ Wanted' = Wanted
    BY <1>2, <2>2, SameFileMeans
  <2>4. Due(import.next)[u] = Nobody
    <3>1. Due(import.next)[u] = Outcome(Wanted, u, import.before[This][u])
      BY <2>2 DEF Due, Wanted, This
    <3>2. QED
      BY <1>5, <3>1 DEF Outcome
  <2>5. /\ account'[This] = [account[This] EXCEPT ![u] = Nobody]
        /\ \A k \in DOMAIN import.local : k # import.next => account'[import.local[k]] = account[import.local[k]]
        /\ \A v \in Vpn \ ToSet(import.local) : account'[v] = account[v]
    BY <1>0, <1>3, <2>1, <2>2, ThisOnly
  <2>6. account'[This] = [w \in User |-> IF w \in import'.left THEN Had(import.next)[w] ELSE Due(import.next)[w]]
    BY <1>5, <2>2, <2>4, <2>5
  <2>7. QED
    BY <1>0, <1>2, <1>4, <1>5, <2>2, <2>3, <2>5, <2>6 DEF Merging, SameFile
<1>8. QED
  BY <1>6, <1>7

LEMMA ApplyMerges == AccountTypes /\ Asked /\ Merging /\ ImportApply /\ ~mixed' => Merging'
<1> SUFFICES ASSUME AccountTypes, Asked, Merging, ImportApply, ~mixed', import'.at # "none", IsInjective(import'.local)
             PROVE  Merging'
  BY DEF Merging
<1> USE DEF nodeRows, bounds
<1>0. ImportStep /\ ~mixed /\ UNCHANGED <<title, account>> /\ import.at = "apply" /\ import \in Importing
  BY ImportStepMeans, AccountTypesParts DEF ImportStep, ImportApply
<1>1. ~GiveUp
  BY NothingTypes DEF GiveUp
<1>2. SameFile
  BY <1>0, <1>1 DEF ImportApply, SameFile, Importing
<1>3. IsInjective(import.local)
  BY <1>2 DEF SameFile
<1>4. \A k \in DOMAIN import.local : Due(k)' = Due(k) /\ Had(k)' = Had(k)
  BY <1>2, SameFileMeans
<1>5. /\ \A k \in DOMAIN import.local : title[import.local[k]] = import.file[k].title
      /\ \A v \in Vpn \ ToSet(import.local) : account[v] = import.before[v]
      /\ import.next \in Nat /\ DOMAIN import.local = 1 .. Len(import.local) /\ import.local \in Seq(Vpn)
      /\ \A k \in DOMAIN import.local :
            account[import.local[k]] = Due(k) /\ (k < import.next => InUse(import.local[k]))
  BY <1>0, <1>3, MergingMeans
<1>6. CASE import.next > Len(import.file)
  <2>1. import'.at = "taken" /\ import'.next = import.next /\ UNCHANGED deployed
    BY <1>0, <1>6 DEF ImportApply, Importing
  <2>2. QED
    BY <1>0, <1>2, <1>4, <1>5, <2>1 DEF Merging, SameFile, InUse
<1>7. CASE ~(import.next > Len(import.file))
  <2>1. Deploy(This) /\ import' = [import EXCEPT !.next = @ + 1] /\ This \in There
    BY <1>1, <1>7 DEF ImportApply
  <2>2. import'.at = "apply" /\ import'.next = import.next + 1
    BY <1>0, <2>1, ImportingNext
  <2>3. PICK v \in Vpn : v = This /\ Deploy(v)
    BY <2>1 DEF There
  <2>4. InUse(v)' /\ \A w \in Vpn : InUse(w) => InUse(w)'
    BY <1>0, <2>3, DeployMeans
  <2>5. \A k \in DOMAIN import.local : \A w \in Vpn : w = import.local[k] /\ k < import.next + 1 => InUse(w)'
    BY <1>5, <2>3, <2>4 DEF This
  <2>6. \A k \in DOMAIN import.local : import.local[k] \in Vpn
    BY <1>5
  <2>7. QED
    BY <1>0, <1>2, <1>4, <1>5, <2>2, <2>5, <2>6 DEF Merging, SameFile
<1>8. QED
  BY <1>6, <1>7

LEMMA MergingStep == AccountTypes /\ Asked /\ Merging /\ [AccountsNext]_accountVars => Merging'
<1> SUFFICES ASSUME AccountTypes, Asked, Merging, [AccountsNext]_accountVars, ~mixed', import'.at # "none"
             PROVE  Merging'
  BY DEF Merging
<1> USE DEF nodeRows, bounds
<1>1. CASE BeginImport
  <2>1. account' = account
    BY <1>1 DEF BeginImport
  <2>2. import'.at = "node" /\ import'.local = <<>> /\ import'.before = account
    BY <1>1 DEF BeginImport, NoImport
  <2>3. DOMAIN import'.local = {}
    BY <2>2
  <2>4. QED
    BY <2>1, <2>2, <2>3 DEF Merging
<1>2. CASE ImportFails
  BY <1>2, NothingTypes DEF ImportFails, GiveUp
<1>3. CASE BeginChange
  BY <1>3, NothingTypes DEF BeginChange
<1>4. CASE WriteChange \/ ApplyChange \/ UndoChange \/ Reapply
  <2>1. change.at # "none" /\ import' = import /\ mixed' = mixed
    BY <1>4 DEF WriteChange, ApplyChange, UndoChange, Reapply
  <2>2. QED
    BY <2>1 DEF Asked
<1>5. CASE DeleteVpn
  BY <1>5, NothingTypes DEF DeleteVpn
<1>6. CASE UNCHANGED accountVars
  <2>1. SameFile /\ import' = import /\ UNCHANGED <<title, account, deployed, mixed>>
    BY <1>6 DEF accountVars, SameFile
  <2>2. \A k \in DOMAIN import.local : Due(k)' = Due(k) /\ Had(k)' = Had(k)
    BY <2>1, SameFileMeans
  <2>3. This' = This /\ Wanted' = Wanted
    BY <2>1, SameFileMeans
  <2>4. QED
    BY <2>1, <2>2, <2>3 DEF Merging, InUse
<1>7. QED
  BY <1>1, <1>2, <1>3, <1>4, <1>5, <1>6, ImportNodeMerges, ListMerges, ImportUserMerges, UsersMerge, PruneMerges,
     ApplyMerges DEF AccountsNext

\* An import that reports success has merged every item of the file into the node it led
\* to and left all others alone, whatever the import before it left, and what it stored is
\* in use, also when requests for accounts come between its steps.
THEOREM ImportIsTaken == AccountsSpec => []ImportTaken
<1>1. AccountsInit => Asked /\ Deployed /\ Merging
  BY NothingTypes DEF AccountsInit, Asked, Deployed, Merging
<1>2. AccountTypes /\ Deployed /\ Merging => ImportTaken
  <2> SUFFICES ASSUME AccountTypes, Deployed, Merging, import.at = "taken"
               PROVE  /\ change.at = "none" /\ refusals = 0 =>
                            \A v \in ToSet(import.local) \cap There : InUse(v)
                      /\ ~mixed /\ IsInjective(import.local) =>
                            /\ \A k \in DOMAIN import.file : Merged(import.file[k], import.local[k])
                            /\ \A v \in Vpn \ ToSet(import.local) : account[v] = import.before[v]
    BY DEF ImportTaken
  <2>1. /\ DOMAIN import.local = 1 .. Len(import.local) /\ DOMAIN import.file = 1 .. Len(import.file)
        /\ Len(import.local) = Len(import.file) /\ import.next = Len(import.file) + 1 /\ Len(import.file) \in Nat
    BY ImportFields, AccountTypesParts DEF Progress
  <2>2. \A k \in DOMAIN import.local : k < import.next
    BY <2>1
  <2>3. change.at = "none" /\ refusals = 0 => \A v \in ToSet(import.local) \cap There : InUse(v)
    BY <2>2 DEF Deployed, ToSet
  <2>4. ASSUME ~mixed, IsInjective(import.local), NEW k \in DOMAIN import.file
        PROVE  Merged(import.file[k], import.local[k])
    <3>1. /\ title[import.local[k]] = import.file[k].title /\ InUse(import.local[k])
          /\ account[import.local[k]] = Due(k)
      BY <2>1, <2>2, <2>4 DEF Merging
    <3>2. \A u \in User : account[import.local[k]][u] =
                            Outcome(import.file[k].users, u, import.before[import.local[k]][u])
      BY <3>1 DEF Due
    <3>3. QED
      BY <3>1, <3>2 DEF Merged, Outcome
  <2>5. QED
    BY <2>3, <2>4 DEF Merging
<1>3. QED
  BY <1>1, <1>2, AccountsInitTypes, AccountsStepTypes, AskedStep, DeployedStep, MergingStep, PTL DEF AccountsSpec

-----------------------------------------------------------------------------
(* Cidr: induction over the naturals, and functions defined by recursion.  *)

Less == {ss \in Nat \X Nat : ss[1] < ss[2]}

LEMMA LeastNumber ==
    ASSUME NEW S \in SUBSET Nat, S # {}
    PROVE  \E m \in S : \A k \in S : m <= k
<1>1. IsWellFoundedOn(Less, Nat)
  BY NatLessThanWellFounded DEF OpToRel, Less
<1>2. PICK m \in S : \A k \in S : ~(<<k, m>> \in Less)
  BY <1>1, WFMin
<1>3. \A k \in S : ~(k < m)
  BY <1>2 DEF Less
<1>4. QED
  BY <1>3

\* A set of numbers with 0 and with every successor of a member.
LEMMA Succession ==
    ASSUME NEW S \in SUBSET Nat, 0 \in S, \A n \in S : n + 1 \in S
    PROVE  S = Nat
<1> SUFFICES ASSUME Nat \ S # {} PROVE FALSE
  OBVIOUS
<1>1. PICK m \in Nat \ S : \A k \in Nat \ S : m <= k
  BY LeastNumber
<1>2. m # 0 /\ m - 1 \in Nat /\ m - 1 \notin Nat \ S
  BY <1>1
<1>3. QED
  BY <1>2

\* The body G of a function looks only at arguments of smaller measure M.
Descends(D, V, M, G) ==
    /\ M \in [D -> Nat]
    /\ G \in [[D -> V] -> [D -> V]]
    /\ \A g, h \in [D -> V] : \A x \in D :
           (\A y \in D : M[y] < M[x] => g[y] = h[y]) => G[g][x] = G[h][x]

Solvable(D, V, G) == \E f \in [D -> V] : f = G[f]

LEMMA Recursion ==
    ASSUME NEW D, NEW V, V # {}, NEW M, NEW G, Descends(D, V, M, G)
    PROVE  Solvable(D, V, G)
<1> USE DEF Descends
<1> DEFINE Solved(n) == {g \in [D -> V] : \A x \in D : M[x] < n => g[x] = G[g][x]}
<1>1. \A n \in Nat : Solved(n) # {}
  <2> DEFINE S == {n \in Nat : Solved(n) # {}}
  <2>1. 0 \in S
    <3>1. [x \in D |-> CHOOSE v : v \in V] \in [D -> V]
      OBVIOUS
    <3>2. \A x \in D : ~(M[x] < 0)
      OBVIOUS
    <3>3. QED
      BY <3>1, <3>2
  <2>2. \A n \in S : n + 1 \in S
    <3> SUFFICES ASSUME NEW n \in Nat, NEW g \in Solved(n)
                 PROVE  G[g] \in Solved(n + 1)
      OBVIOUS
    <3>1. \A x \in D : M[x] < n + 1 => G[g][x] = G[G[g]][x]
      <4> SUFFICES ASSUME NEW x \in D, M[x] < n + 1
                   PROVE  G[g][x] = G[G[g]][x]
        OBVIOUS
      <4>1. \A y \in D : M[y] < M[x] => g[y] = G[g][y]
        OBVIOUS
      <4>2. g \in [D -> V] /\ G[g] \in [D -> V]
        OBVIOUS
      <4>3. QED
        BY <4>1, <4>2
    <3>2. QED
      BY <3>1
  <2> HIDE DEF S
  <2>3. S = Nat
    BY <2>1, <2>2, Succession DEF S
  <2>4. QED
    BY <2>3 DEF S
<1>2. ASSUME NEW n \in Nat, NEW k \in Nat, NEW g \in Solved(n), NEW h \in Solved(k)
      PROVE  \A x \in D : M[x] < n /\ M[x] < k => g[x] = h[x]
  <2> DEFINE E == {x \in D : M[x] < n /\ M[x] < k /\ g[x] # h[x]}
             S == {M[x] : x \in E}
  <2> SUFFICES ASSUME E # {} PROVE FALSE
    OBVIOUS
  <2>0. E \subseteq D /\ \A x \in E : M[x] \in Nat
    OBVIOUS
  <2>1. S \in SUBSET Nat /\ S # {}
    <3> HIDE DEF E
    <3> QED BY <2>0
  <2>2. PICK m \in S : \A j \in S : m <= j
    <3> HIDE DEF S
    <3> QED BY <2>1, LeastNumber
  <2>3. PICK x \in E : m = M[x]
    BY <2>2
  <2>4. \A y \in D : M[y] < M[x] => g[y] = h[y]
    <3> SUFFICES ASSUME NEW y \in D, M[y] < M[x], g[y] # h[y]
                 PROVE  FALSE
      OBVIOUS
    <3>1. y \in E
      BY <2>3
    <3>2. m <= M[y]
      <4> HIDE DEF E
      <4> QED BY <2>2, <3>1
    <3>3. M[x] \in Nat /\ M[y] \in Nat
      BY <2>3
    <3>4. QED
      BY <2>3, <3>2, <3>3
  <2>5. G[g][x] = G[h][x]
    BY <2>4
  <2>6. QED
    BY <2>5
<1> DEFINE of(x) == CHOOSE g : g \in Solved(M[x] + 1)
           f == [x \in D |-> of(x)[x]]
<1>3. \A x \in D : of(x) \in Solved(M[x] + 1)
  BY <1>1
<1> HIDE DEF of
<1>4. f \in [D -> V]
  BY <1>3
<1>5. ASSUME NEW x \in D
      PROVE  f[x] = G[f][x]
  <2>1. of(x) \in [D -> V] /\ of(x)[x] = G[of(x)][x]
    BY <1>3
  <2>2. \A y \in D : M[y] < M[x] => of(x)[y] = of(y)[y]
    <3> SUFFICES ASSUME NEW y \in D, M[y] < M[x]
                 PROVE  of(x)[y] = of(y)[y]
      OBVIOUS
    <3>1. M[x] + 1 \in Nat /\ M[y] + 1 \in Nat /\ M[y] < M[x] + 1 /\ M[y] < M[y] + 1
      OBVIOUS
    <3> HIDE DEF Solved
    <3>2. QED
      BY <1>2, <1>3, <3>1
  <2>3. G[of(x)][x] = G[f][x]
    BY <1>4, <2>1, <2>2
  <2>4. QED
    BY <2>1, <2>3
<1>6. QED
  BY <1>4, <1>5 DEF Solvable

-----------------------------------------------------------------------------
(* Cidr: powers of two.                                                    *)

LEMMA PowDef == Pow = [n \in Nat |-> IF n = 0 THEN 1 ELSE 2 * Pow[n - 1]] /\ Pow \in [Nat -> Nat]
<1> DEFINE G == [g \in [Nat -> Nat] |-> [n \in Nat |-> IF n = 0 THEN 1 ELSE 2 * g[n - 1]]]
           M == [n \in Nat |-> n]
<1>1. Descends(Nat, Nat, M, G)
  BY DEF Descends
<1>2. Nat # {}
  OBVIOUS
<1>3. Solvable(Nat, Nat, G)
  <2> HIDE DEF G, M
  <2> QED BY <1>1, <1>2, Recursion
<1>4. PICK f \in [Nat -> Nat] : f = [n \in Nat |-> IF n = 0 THEN 1 ELSE 2 * f[n - 1]]
  BY <1>3 DEF Solvable
<1>5. Pow = [n \in Nat |-> IF n = 0 THEN 1 ELSE 2 * Pow[n - 1]]
  BY <1>4 DEF Pow
<1>6. \A n \in Nat : Pow[n] \in Nat
  <2> DEFINE S == {n \in Nat : Pow[n] \in Nat}
  <2>1. 0 \in S /\ \A n \in S : n + 1 \in S
    BY <1>5
  <2> HIDE DEF S
  <2>2. S = Nat
    BY <2>1, Succession DEF S
  <2>3. QED
    BY <2>2 DEF S
<1>7. QED
  BY <1>5, <1>6

LEMMA PowStep ==
    /\ Pow[0] = 1
    /\ \A n \in Nat : Pow[n + 1] = 2 * Pow[n]
    /\ \A n \in Nat : Pow[n] \in Nat \ {0}
<1>1. Pow[0] = 1 /\ \A n \in Nat : Pow[n + 1] = 2 * Pow[n]
  BY PowDef
<1>2. \A n \in Nat : Pow[n] \in Nat \ {0}
  <2> DEFINE S == {n \in Nat : Pow[n] \in Nat \ {0}}
  <2>1. 0 \in S /\ \A n \in S : n + 1 \in S
    BY <1>1
  <2> HIDE DEF S
  <2>2. S = Nat
    BY <2>1, Succession DEF S
  <2>3. QED
    BY <2>2 DEF S
<1>3. QED
  BY <1>1, <1>2

LEMMA PowFactor ==
    ASSUME NEW n \in Nat, NEW k \in Nat, n <= k
    PROVE  \E c \in Nat \ {0} : Pow[k] = c * Pow[n]
<1> DEFINE S == {j \in Nat : \E c \in Nat \ {0} : Pow[n + j] = c * Pow[n]}
<1>1. 0 \in S
  <2>1. n + 0 = n /\ Pow[n] = 1 * Pow[n] /\ 1 \in Nat \ {0}
    BY PowStep
  <2>2. QED
    BY <2>1
<1>2. ASSUME NEW j \in S
      PROVE  j + 1 \in S
  <2>1. PICK c \in Nat \ {0} : Pow[n + j] = c * Pow[n]
    OBVIOUS
  <2>2. Pow[n + (j + 1)] = 2 * (c * Pow[n])
    <3>1. n + j \in Nat /\ n + (j + 1) = (n + j) + 1
      OBVIOUS
    <3>2. QED
      BY <2>1, <3>1, PowStep
  <2>3. Pow[n] \in Nat
    BY PowStep
  <2>4. 2 * (c * Pow[n]) = (2 * c) * Pow[n] /\ 2 * c \in Nat \ {0}
    BY <2>3
  <2>5. QED
    BY <2>2, <2>4
<1> HIDE DEF S
<1>3. S = Nat
  BY <1>1, <1>2, Succession DEF S
<1>4. k - n \in S /\ n + (k - n) = k
  BY <1>3
<1>5. QED
  BY <1>4 DEF S

\* Multiples.
LEMMA Multiple ==
    ASSUME NEW a \in Nat, NEW m \in Nat \ {0}
    PROVE  a % m = 0 <=> \E q \in Nat : a = q * m
<1>1. a % m = 0 => \E q \in Nat : a = q * m
  OBVIOUS
<1>2. \A q \in Nat : (q * m) % m = 0
  OBVIOUS
<1>3. QED
  BY <1>1, <1>2

LEMMA NextMultiple ==
    ASSUME NEW b \in Nat, NEW d \in Nat, NEW m \in Nat, b < d
    PROVE  b * m + m <= d * m
<1>1. PICK e \in Nat : d = b + 1 + e
  <2>1. d - b - 1 \in Nat /\ d = b + 1 + (d - b - 1)
    OBVIOUS
  <2>2. QED
    BY <2>1
<1>2. d * m = b * m + m + e * m
  BY <1>1
<1>3. e * m >= 0 /\ b * m \in Int /\ e * m \in Int
  OBVIOUS
<1>4. QED
  BY <1>2, <1>3

\* A multiple of m and one of a multiple of m: the smaller block is before, after or
\* inside the larger.
LEMMA Nested ==
    ASSUME NEW a \in Nat, NEW b \in Nat, NEW c \in Nat \ {0}, NEW m \in Nat
    PROVE  LET x == a * (c * m)
               y == b * m
           IN  \/ y + m <= x
               \/ x + c * m <= y
               \/ x <= y /\ y + m <= x + c * m
<1>1. a * (c * m) = (a * c) * m /\ a * (c * m) + c * m = (a * c + c) * m /\ a * c \in Nat /\ a * c + c \in Nat
  OBVIOUS
<1> DEFINE u == a * c
           v == a * c + c
<1> HIDE DEF u, v
<1>2. CASE b < u
  BY <1>1, <1>2, NextMultiple DEF u
<1>3. CASE b >= v
  <2>1. v * m <= b * m
    <3>1. CASE v = b
      BY <3>1, <1>1 DEF v
    <3>2. CASE v < b
      BY <3>2, <1>1, NextMultiple DEF v
    <3> QED BY <3>1, <3>2, <1>3, <1>1 DEF v
  <2>2. QED
    BY <2>1, <1>1 DEF v
<1>4. CASE u <= b /\ b < v
  <2>1. u * m <= b * m
    <3>1. CASE u = b
      BY <3>1, <1>1 DEF u
    <3>2. CASE u < b
      BY <3>2, <1>1, NextMultiple DEF u
    <3> QED BY <3>1, <3>2, <1>4, <1>1 DEF u
  <2>2. b * m + m <= v * m
    BY <1>4, <1>1, NextMultiple DEF v
  <2>3. QED
    BY <2>1, <2>2, <1>1 DEF u, v
<1>5. QED
  BY <1>1, <1>2, <1>3, <1>4 DEF u, v

-----------------------------------------------------------------------------
(* Cidr: prefixes.                                                         *)

LEMMA WidthType == Width \in Nat
  BY CidrAssumption

LEMMA Sizes ==
    ASSUME NEW b \in 0 .. Width
    PROVE  b \in Nat /\ Width - b \in 0 .. Width /\ Pow[b] \in Nat \ {0} /\ Pow[Width - b] \in Nat \ {0} /\ Pow[Width] \in Nat
<1>1. b \in Nat /\ Width - b \in Nat /\ Width - b \in 0 .. Width
  BY WidthType
<1>2. QED
  BY <1>1, WidthType, PowStep

LEMMA PrefixForm ==
    ASSUME NEW p \in Prefix
    PROVE  /\ p.addr \in Nat /\ p.bits \in Nat /\ p.bits <= Width
           /\ p = [addr |-> p.addr, bits |-> p.bits]
           /\ Size(p) \in Nat \ {0}
           /\ \E q \in Nat : p.addr = q * Size(p)
           /\ p.addr + Size(p) <= Pow[Width]
<1>1. p.addr \in Nat /\ p.addr < Pow[Width] /\ p.bits \in 0 .. Width /\ p = [addr |-> p.addr, bits |-> p.bits]
  <2>1. p \in [addr : Address, bits : 0 .. Width]
    BY DEF Prefix
  <2>2. Pow[Width] \in Nat
    BY WidthType, PowStep
  <2>3. QED
    BY <2>1, <2>2 DEF Address
<1>2. Size(p) \in Nat \ {0} /\ Pow[Width] \in Nat
  BY <1>1, Sizes DEF Size
<1>3. PICK q \in Nat : p.addr = q * Size(p)
  BY <1>1, <1>2, Multiple DEF Prefix
<1>4. PICK c \in Nat \ {0} : Pow[Width] = c * Size(p)
  <2>1. Width - p.bits \in Nat /\ Width - p.bits <= Width
    BY <1>1, WidthType
  <2>2. QED
    BY <2>1, WidthType, PowFactor DEF Size
<1>5. q < c
  <2>1. c <= q => c * Size(p) <= q * Size(p)
    <3>1. c = q \/ c < q \/ q < c
      OBVIOUS
    <3>2. c < q => c * Size(p) + Size(p) <= q * Size(p)
      BY <1>2, NextMultiple
    <3>3. c * Size(p) \in Nat /\ q * Size(p) \in Nat
      BY <1>2
    <3>4. QED
      BY <3>1, <3>2, <3>3, <1>2
  <2>2. QED
    BY <2>1, <1>1, <1>2, <1>3, <1>4
<1>6. q * Size(p) + Size(p) <= c * Size(p)
  BY <1>2, <1>5, NextMultiple
<1>7. QED
  BY <1>1, <1>2, <1>3, <1>4, <1>6

LEMMA PrefixBuilt ==
    ASSUME NEW a \in Nat, NEW b \in 0 .. Width, NEW q \in Nat, a = q * Pow[Width - b], a < Pow[Width]
    PROVE  [addr |-> a, bits |-> b] \in Prefix
<1> DEFINE p == [addr |-> a, bits |-> b]
<1>1. Pow[Width - b] \in Nat \ {0} /\ Pow[Width] \in Nat
  BY Sizes
<1>2. a % Pow[Width - b] = 0
  BY <1>1, Multiple
<1>3. p \in [addr : Address, bits : 0 .. Width] /\ Size(p) = Pow[Width - b]
  BY <1>1 DEF Address, Size
<1>4. QED
  BY <1>2, <1>3 DEF Prefix

LEMMA SpanIs ==
    ASSUME NEW p \in Prefix
    PROVE  /\ \A x : x \in Span(p) <=> x \in Int /\ p.addr <= x /\ x < p.addr + Size(p)
           /\ p.addr \in Span(p)
           /\ Span(p) \subseteq Address
<1>1. p.addr \in Nat /\ Size(p) \in Nat \ {0} /\ p.addr + Size(p) <= Pow[Width] /\ Pow[Width] \in Nat
  BY PrefixForm, PowStep, WidthType
<1>2. QED
  BY <1>1 DEF Span, Address

\* Two prefixes are disjoint, or the one with more bits is inside the other.
LEMMA Laminar ==
    ASSUME NEW p \in Prefix, NEW q \in Prefix, p.bits <= q.bits
    PROVE  \/ q.addr + Size(q) <= p.addr
           \/ p.addr + Size(p) <= q.addr
           \/ p.addr <= q.addr /\ q.addr + Size(q) <= p.addr + Size(p)
<1>1. p.bits \in Nat /\ p.bits <= Width /\ q.bits \in Nat /\ q.bits <= Width /\ Size(q) \in Nat
  BY PrefixForm
<1>2. PICK a \in Nat : p.addr = a * Size(p)
  BY PrefixForm
<1>3. PICK b \in Nat : q.addr = b * Size(q)
  BY PrefixForm
<1>4. PICK c \in Nat \ {0} : Size(p) = c * Size(q)
  <2>1. Width - q.bits \in Nat /\ Width - p.bits \in Nat /\ Width - q.bits <= Width - p.bits
    BY <1>1, WidthType
  <2>2. QED
    BY <2>1, PowFactor DEF Size
<1>5. QED
  BY <1>1, <1>2, <1>3, <1>4, Nested

LEMMA SpansMeet ==
    ASSUME NEW p \in Prefix, NEW q \in Prefix, p.bits <= q.bits
    PROVE  /\ Span(q) \subseteq Span(p) \/ Span(p) \cap Span(q) = {}
           /\ Span(p) \cap Span(q) # {} => q.addr \in Span(p)
<1>1. p.addr \in Nat /\ Size(p) \in Nat \ {0} /\ q.addr \in Nat /\ Size(q) \in Nat \ {0}
  BY PrefixForm
<1>2. QED
  BY <1>1, Laminar DEF Span
-----------------------------------------------------------------------------
(* Cidr: rangeToPrefixes.                                                  *)

Fit(r) == {i \in 0 .. Width : r.start % Pow[i] = 0 /\ Pow[i] <= r.count}
Rest(r) == [start |-> r.start + Pow[Exponent(r)], count |-> r.count - Pow[Exponent(r)]]
First(r) == [addr |-> r.start, bits |-> Width - Exponent(r)]

LEMMA ExtentForm ==
    ASSUME NEW r \in Extent
    PROVE  r.start \in Nat /\ r.count \in Nat /\ r.start + r.count <= Pow[Width] /\ Pow[Width] \in Nat
<1>1. r \in [start : 0 .. Pow[Width], count : 0 .. Pow[Width]] /\ r.start + r.count <= Pow[Width]
  BY DEF Extent
<1>2. Pow[Width] \in Nat
  BY WidthType, PowStep
<1>3. QED
  BY <1>1, <1>2

LEMMA ExponentFits ==
    ASSUME NEW r \in Extent, r.count # 0
    PROVE  Exponent(r) \in Fit(r)
<1>1. r.start \in Nat /\ r.count \in Nat \ {0}
  BY ExtentForm
<1>2. 0 \in Fit(r)
  <2>1. 0 \in 0 .. Width /\ Pow[0] = 1 /\ r.start % 1 = 0 /\ 1 <= r.count
    BY <1>1, PowStep, WidthType
  <2>2. QED
    BY <2>1 DEF Fit
<1> DEFINE S == {Width - i : i \in Fit(r)}
<1>3. S \in SUBSET Nat /\ S # {}
  BY <1>2, WidthType DEF Fit
<1> HIDE DEF S
<1>4. PICK m \in S : \A k \in S : m <= k
  BY <1>3, LeastNumber
<1>5. PICK i \in Fit(r) : m = Width - i
  BY DEF S
<1>6. \A j \in Fit(r) : i >= j
  <2>1. \A j \in Fit(r) : j \in 0 .. Width
    BY DEF Fit
  <2>2. \A j \in Fit(r) : m <= Width - j
    BY <1>4 DEF S
  <2>3. QED
    BY <1>5, <2>1, <2>2, WidthType
<1>7. QED
  BY <1>6 DEF Exponent, Max, Fit

LEMMA FirstFits ==
    ASSUME NEW r \in Extent, r.count # 0
    PROVE  /\ First(r) \in Prefix
           /\ Size(First(r)) = Pow[Exponent(r)]
           /\ Rest(r) \in Extent
           /\ Rest(r).count < r.count
           /\ Rest(r).start = r.start + Size(First(r)) /\ Rest(r).count = r.count - Size(First(r))
<1> DEFINE k == Exponent(r)
<1>1. k \in 0 .. Width /\ r.start % Pow[k] = 0 /\ Pow[k] <= r.count
  BY ExponentFits DEF Fit
<1>2. r.start \in Nat /\ r.count \in Nat /\ r.start + r.count <= Pow[Width] /\ Pow[Width] \in Nat
  BY ExtentForm
<1>3. Pow[k] \in Nat \ {0}
  BY <1>1, Sizes
<1> HIDE DEF k
<1>4. Width - k \in 0 .. Width /\ Width - (Width - k) = k
  BY <1>1, WidthType
<1>5. PICK q \in Nat : r.start = q * Pow[k]
  BY <1>1, <1>2, <1>3, Multiple
<1>6. r.start < Pow[Width]
  BY <1>1, <1>2, <1>3
<1>7. First(r) \in Prefix
  BY <1>2, <1>4, <1>5, <1>6, PrefixBuilt DEF First, k
<1>8. Size(First(r)) = Pow[k]
  BY <1>4 DEF First, Size, k
<1>9. Rest(r) \in Extent /\ Rest(r).count < r.count
  BY <1>1, <1>2, <1>3 DEF Rest, Extent, k
<1>10. QED
  BY <1>7, <1>8, <1>9 DEF Rest, k

LEMMA BlocksDef ==
    \A r \in Extent : Blocks[r] = IF r.count = 0 THEN {} ELSE {First(r)} \cup Blocks[Rest(r)]
<1> DEFINE V == SUBSET [addr : Nat, bits : Int]
           G == [g \in [Extent -> V] |->
                    [r \in Extent |-> IF r.count = 0 THEN {} ELSE {First(r)} \cup g[Rest(r)]]]
           M == [r \in Extent |-> r.count]
<1>1. \A r \in Extent : r.count # 0 => First(r) \in [addr : Nat, bits : Int] /\ Rest(r) \in Extent /\ Rest(r).count < r.count
  <2> SUFFICES ASSUME NEW r \in Extent, r.count # 0
               PROVE  First(r) \in [addr : Nat, bits : Int] /\ Rest(r) \in Extent /\ Rest(r).count < r.count
    OBVIOUS
  <2>1. First(r) \in Prefix /\ Rest(r) \in Extent /\ Rest(r).count < r.count
    BY FirstFits
  <2>2. First(r).addr \in Nat /\ First(r).bits \in Int /\ First(r) = [addr |-> First(r).addr, bits |-> First(r).bits]
    BY <2>1, PrefixForm
  <2>3. QED
    BY <2>1, <2>2
<1>2. Descends(Extent, V, M, G)
  <2>1. M \in [Extent -> Nat]
    BY ExtentForm
  <2>2. G \in [[Extent -> V] -> [Extent -> V]]
    <3> SUFFICES ASSUME NEW g \in [Extent -> V], NEW r \in Extent
                 PROVE  (IF r.count = 0 THEN {} ELSE {First(r)} \cup g[Rest(r)]) \in V
      OBVIOUS
    <3>1. CASE r.count = 0
      BY <3>1
    <3>2. CASE r.count # 0
      <4>1. g[Rest(r)] \in V
        BY <1>1, <3>2
      <4>2. QED
        BY <1>1, <3>2, <4>1
    <3>3. QED
      BY <3>1, <3>2
  <2>3. ASSUME NEW g \in [Extent -> V], NEW h \in [Extent -> V], NEW x \in Extent,
               \A y \in Extent : M[y] < M[x] => g[y] = h[y]
        PROVE  G[g][x] = G[h][x]
    <3>1. x.count # 0 => g[Rest(x)] = h[Rest(x)]
      BY <1>1, <2>3
    <3>2. QED
      BY <3>1
  <2> HIDE DEF G, M, V
  <2>4. QED
    BY <2>1, <2>2, <2>3 DEF Descends
<1>3. Solvable(Extent, V, G)
  <2>1. V # {}
    OBVIOUS
  <2> HIDE DEF G, M, V
  <2>2. QED
    BY <1>2, <2>1, Recursion
<1>4. PICK f \in [Extent -> V] :
          f = [r \in Extent |-> IF r.count = 0 THEN {} ELSE {First(r)} \cup f[Rest(r)]]
  <2>1. PICK f \in [Extent -> V] : f = G[f]
    BY <1>3 DEF Solvable
  <2>2. QED
    BY <2>1
<1> HIDE DEF V
<1>5. Blocks = [r \in Extent |-> IF r.count = 0 THEN {} ELSE {First(r)} \cup Blocks[Rest(r)]]
  BY <1>4, Zenon DEF Blocks, First, Rest
<1>6. QED
  BY <1>5

Apart(ps) == \A p, q \in ps : p # q => Span(p) \cap Span(q) = {}

LEMMA CoveredIs == \A ps : \A x : x \in Covered(ps) <=> \E p \in ps : x \in Span(p)
  BY DEF Covered

LEMMA SplitRange ==
    ASSUME NEW s \in Nat, NEW c \in Nat, NEW m \in Nat, m <= c
    PROVE  /\ (s .. s + m - 1) \cup (s + m .. s + m + (c - m) - 1) = s .. s + c - 1
           /\ (s .. s + m - 1) \cap (s + m .. s + m + (c - m) - 1) = {}
  OBVIOUS

\* The blocks of a range are disjoint prefixes that cover it and nothing else.
LEMMA BlocksCover ==
    ASSUME NEW r \in Extent
    PROVE  Blocks[r] \subseteq Prefix /\ Covered(Blocks[r]) = Interval(r) /\ Apart(Blocks[r])
<1> DEFINE Exact(e) == Blocks[e] \subseteq Prefix /\ Covered(Blocks[e]) = Interval(e) /\ Apart(Blocks[e])
           S == {n \in Nat : \A e \in Extent : e.count <= n => Exact(e)}
<1>1. ASSUME NEW e \in Extent, e.count = 0
      PROVE  Exact(e)
  <2>1. Blocks[e] = {}
    BY <1>1, BlocksDef
  <2>2. Interval(e) = {}
    BY <1>1, ExtentForm DEF Interval
  <2>3. QED
    BY <2>1, <2>2 DEF Covered, Apart
<1>2. 0 \in S
  <2>1. \A e \in Extent : e.count <= 0 => e.count = 0
    BY ExtentForm
  <2> HIDE DEF Exact
  <2>2. QED
    BY <1>1, <2>1
<1>3. ASSUME NEW n \in S
      PROVE  n + 1 \in S
  <2> SUFFICES ASSUME NEW e \in Extent, e.count <= n + 1, e.count # 0
               PROVE  Exact(e)
    <3> HIDE DEF Exact
    <3> QED BY <1>1, <1>3
  <2> DEFINE p == First(e)
             t == Rest(e)
  <2>1. /\ p \in Prefix /\ t \in Extent /\ t.count < e.count
        /\ t.start = e.start + Size(p) /\ t.count = e.count - Size(p)
        /\ p.addr = e.start
    BY FirstFits DEF First
  <2>2. Blocks[e] = {p} \cup Blocks[t]
    BY BlocksDef
  <2> HIDE DEF p, t
  <2>3. e.start \in Nat /\ e.count \in Nat /\ t.count \in Nat /\ Size(p) \in Nat \ {0}
    BY <2>1, ExtentForm, PrefixForm
  <2>4. Exact(t)
    <3>1. t.count <= n
      BY <2>1, <2>3
    <3> HIDE DEF Exact
    <3>2. QED
      BY <2>1, <3>1, <1>3
  <2>5. Span(p) \cup Interval(t) = Interval(e) /\ Span(p) \cap Interval(t) = {}
    <3>1. e.count - Size(p) >= 0
      BY <2>1, <2>3
    <3>2. Span(p) = e.start .. e.start + Size(p) - 1
      BY <2>1 DEF Span
    <3>3. Interval(t) = e.start + Size(p) .. e.start + Size(p) + (e.count - Size(p)) - 1
      BY <2>1 DEF Interval
    <3>4. Size(p) <= e.count
      BY <2>3, <3>1
    <3>5. QED
      BY <2>3, <3>2, <3>3, <3>4, SplitRange DEF Interval
  <2>6. Covered(Blocks[e]) = Span(p) \cup Covered(Blocks[t])
    BY <2>2 DEF Covered
  <2>7. \A q \in Blocks[t] : Span(q) \subseteq Interval(t)
    BY <2>4 DEF Covered
  <2>8. Apart(Blocks[e])
    BY <2>2, <2>4, <2>5, <2>7 DEF Apart
  <2>9. QED
    BY <2>1, <2>2, <2>4, <2>5, <2>6, <2>8
<1> HIDE DEF S
<1>4. S = Nat
  BY <1>2, <1>3, Succession DEF S
<1>5. r.count \in S /\ r.count <= r.count
  BY <1>4, ExtentForm
<1>6. QED
  BY <1>5 DEF S

-----------------------------------------------------------------------------
(* Cidr: subtractPrefix.                                                   *)

LEMMA Halves ==
    ASSUME NEW p \in Prefix, p.bits < Width
    PROVE  /\ Left(p) \in Prefix /\ Right(p) \in Prefix
           /\ Left(p).bits = p.bits + 1 /\ Right(p).bits = p.bits + 1
           /\ Span(p) = Span(Left(p)) \cup Span(Right(p))
<1>1. p.addr \in Nat /\ p.bits \in Nat /\ p.addr + Size(p) <= Pow[Width]
  BY PrefixForm
<1> DEFINE h == Pow[Width - (p.bits + 1)]
<1>2. Size(p) = 2 * h /\ h \in Nat \ {0} /\ Pow[Width] \in Nat
  <2>1. Width - (p.bits + 1) \in Nat /\ Width - p.bits = (Width - (p.bits + 1)) + 1
    BY <1>1, WidthType
  <2>2. QED
    BY <2>1, PowStep, WidthType DEF Size
<1>3. p.bits + 1 \in 0 .. Width
  BY <1>1, WidthType
<1>4. PICK q \in Nat : p.addr = q * Size(p)
  BY PrefixForm
<1> HIDE DEF h
<1>5. p.addr = (2 * q) * h /\ p.addr + h = (2 * q + 1) * h
  BY <1>2, <1>4
<1>6. p.addr < Pow[Width] /\ p.addr + h < Pow[Width]
  BY <1>1, <1>2
<1>7. Left(p) = [addr |-> p.addr, bits |-> p.bits + 1]
  BY PrefixForm DEF Left
<1>8. Size(Left(p)) = h
  BY <1>7 DEF Size, h
<1>9. Right(p) = [addr |-> p.addr + h, bits |-> p.bits + 1]
  BY <1>8 DEF Right
<1>10. Left(p) \in Prefix
  BY <1>1, <1>3, <1>5, <1>6, <1>7, PrefixBuilt DEF h
<1>11. Right(p) \in Prefix
  <2>1. p.addr + h \in Nat /\ 2 * q + 1 \in Nat
    BY <1>1, <1>2
  <2>2. QED
    BY <2>1, <1>3, <1>5, <1>6, <1>9, PrefixBuilt DEF h
<1>12. Size(Right(p)) = h
  BY <1>9 DEF Size, h
<1>13. Span(p) = Span(Left(p)) \cup Span(Right(p))
  <2>1. Span(p) = p.addr .. p.addr + 2 * h - 1
    BY <1>2 DEF Span
  <2>2. Span(Left(p)) = p.addr .. p.addr + h - 1
    BY <1>7, <1>8 DEF Span
  <2>3. Span(Right(p)) = p.addr + h .. p.addr + h + (2 * h - h) - 1
    BY <1>1, <1>2, <1>9, <1>12 DEF Span
  <2>4. QED
    BY <1>1, <1>2, <2>1, <2>2, <2>3, SplitRange
<1>14. QED
  BY <1>7, <1>9, <1>10, <1>11, <1>13

LEMMA WithoutDef ==
    ASSUME NEW e \in Prefix
    PROVE  \A p \in Prefix : Without(p, e) =
               IF p.addr \notin Span(e) /\ e.addr \notin Span(p) THEN {p}
               ELSE IF e.bits <= p.bits THEN {}
               ELSE Without(Left(p), e) \cup Without(Right(p), e)
<1> DEFINE V == SUBSET Prefix
           G == [g \in [Prefix -> V] |->
                    [q \in Prefix |->
                        IF q.addr \notin Span(e) /\ e.addr \notin Span(q) THEN {q}
                        ELSE IF e.bits <= q.bits THEN {}
                        ELSE g[Left(q)] \cup g[Right(q)]]]
           M == [q \in Prefix |-> Width - q.bits]
<1>0. e.bits \in Nat /\ e.bits <= Width
  BY PrefixForm
<1>1. \A q \in Prefix : ~(e.bits <= q.bits) => /\ Left(q) \in Prefix /\ Right(q) \in Prefix
                                               /\ M[Left(q)] < M[q] /\ M[Right(q)] < M[q]
  <2> SUFFICES ASSUME NEW q \in Prefix, ~(e.bits <= q.bits)
               PROVE  /\ Left(q) \in Prefix /\ Right(q) \in Prefix
                      /\ M[Left(q)] < M[q] /\ M[Right(q)] < M[q]
    OBVIOUS
  <2>1. q.bits \in Nat /\ q.bits < Width
    BY <1>0, PrefixForm, WidthType
  <2>2. /\ Left(q) \in Prefix /\ Right(q) \in Prefix
        /\ Left(q).bits = q.bits + 1 /\ Right(q).bits = q.bits + 1
    BY <2>1, Halves
  <2>3. QED
    BY <2>1, <2>2, WidthType
<1>2. Descends(Prefix, V, M, G)
  <2>1. M \in [Prefix -> Nat]
    <3>1. \A q \in Prefix : Width - q.bits \in Nat
      BY PrefixForm, WidthType
    <3>2. QED
      BY <3>1
  <2>2. G \in [[Prefix -> V] -> [Prefix -> V]]
    <3> SUFFICES ASSUME NEW g \in [Prefix -> V], NEW q \in Prefix
                 PROVE  (IF q.addr \notin Span(e) /\ e.addr \notin Span(q) THEN {q}
                         ELSE IF e.bits <= q.bits THEN {}
                         ELSE g[Left(q)] \cup g[Right(q)]) \in V
      OBVIOUS
    <3>1. ~(e.bits <= q.bits) => g[Left(q)] \in V /\ g[Right(q)] \in V
      BY <1>1
    <3>2. QED
      BY <3>1
  <2>3. ASSUME NEW g \in [Prefix -> V], NEW k \in [Prefix -> V], NEW x \in Prefix,
               \A y \in Prefix : M[y] < M[x] => g[y] = k[y]
        PROVE  G[g][x] = G[k][x]
    <3>1. ~(e.bits <= x.bits) => g[Left(x)] = k[Left(x)] /\ g[Right(x)] = k[Right(x)]
      <4> HIDE DEF M
      <4> QED BY <1>1, <2>3
    <3>2. QED
      BY <3>1
  <2> HIDE DEF G, M, V
  <2>4. QED
    BY <2>1, <2>2, <2>3 DEF Descends
<1>3. Solvable(Prefix, V, G)
  <2>1. V # {}
    OBVIOUS
  <2> HIDE DEF G, M, V
  <2>2. QED
    BY <1>2, <2>1, Recursion
<1> DEFINE Body(f) == [q \in Prefix |->
                        IF q.addr \notin Span(e) /\ e.addr \notin Span(q) THEN {q}
                        ELSE IF e.bits <= q.bits THEN {}
                        ELSE f[Left(q)] \cup f[Right(q)]]
           Part == CHOOSE f : f = Body(f)
<1>4. PICK f \in [Prefix -> V] : f = Body(f)
  <2>1. PICK f \in [Prefix -> V] : f = G[f]
    BY <1>3 DEF Solvable
  <2>2. QED
    BY <2>1
<1>5. Part = Body(Part)
  <2> HIDE DEF Body
  <2> QED BY <1>4
<1>6. \A p \in Prefix : Without(p, e) = Part[p]
  BY Zenon DEF Without
<1> HIDE DEF Part
<1>7. \A p \in Prefix : Part[p] = IF p.addr \notin Span(e) /\ e.addr \notin Span(p) THEN {p}
                                  ELSE IF e.bits <= p.bits THEN {}
                                  ELSE Part[Left(p)] \cup Part[Right(p)]
  BY <1>5
<1>8. QED
  BY <1>1, <1>6, <1>7

\* What is left of a prefix is made of prefixes and covers all of it that is not excluded.
LEMMA WithoutCovers ==
    ASSUME NEW p \in Prefix, NEW e \in Prefix
    PROVE  Without(p, e) \subseteq Prefix /\ Covered(Without(p, e)) = Span(p) \ Span(e)
<1> DEFINE Exact(q) == Without(q, e) \subseteq Prefix /\ Covered(Without(q, e)) = Span(q) \ Span(e)
           S == {n \in Nat : \A q \in Prefix : Width - q.bits <= n => Exact(q)}
<1>0. e.bits \in Nat /\ e.bits <= Width
  BY PrefixForm
<1>1. ASSUME NEW q \in Prefix, q.addr \notin Span(e) /\ e.addr \notin Span(q)
      PROVE  Exact(q)
  <2>1. Without(q, e) = {q}
    BY <1>1, WithoutDef
  <2>2. Span(q) \cap Span(e) = {}
    <3>1. q.addr \in Nat /\ Size(q) \in Nat \ {0} /\ e.addr \in Nat /\ Size(e) \in Nat \ {0}
      BY PrefixForm
    <3>2. QED
      BY <1>1, <3>1 DEF Span
  <2>3. QED
    BY <2>1, <2>2 DEF Covered
<1>2. ASSUME NEW q \in Prefix, ~(q.addr \notin Span(e) /\ e.addr \notin Span(q)), e.bits <= q.bits
      PROVE  Exact(q)
  <2>1. Without(q, e) = {}
    BY <1>2, WithoutDef
  <2>2. Span(e) \cap Span(q) # {}
    BY <1>2, SpanIs
  <2>3. Span(q) \subseteq Span(e)
    BY <1>2, <2>2, SpansMeet
  <2>4. QED
    BY <2>1, <2>3 DEF Covered
<1>3. ASSUME NEW q \in Prefix, ~(q.addr \notin Span(e) /\ e.addr \notin Span(q)), ~(e.bits <= q.bits),
             Exact(Left(q)), Exact(Right(q))
      PROVE  Exact(q)
  <2>1. q.bits < Width
    BY <1>0, <1>3, PrefixForm, WidthType
  <2>2. Without(q, e) = Without(Left(q), e) \cup Without(Right(q), e)
    BY <1>3, WithoutDef
  <2>3. Span(q) = Span(Left(q)) \cup Span(Right(q))
    BY <2>1, Halves
  <2>4. Covered(Without(q, e)) = Covered(Without(Left(q), e)) \cup Covered(Without(Right(q), e))
    BY <2>2 DEF Covered
  <2>5. QED
    BY <1>3, <2>2, <2>3, <2>4
<1>4. ASSUME NEW n \in Nat, \A q \in Prefix : Width - q.bits < n => Exact(q)
      PROVE  \A q \in Prefix : Width - q.bits <= n => Exact(q)
  <2> SUFFICES ASSUME NEW q \in Prefix, Width - q.bits <= n,
                      ~(q.addr \notin Span(e) /\ e.addr \notin Span(q)), ~(e.bits <= q.bits)
               PROVE  Exact(Left(q)) /\ Exact(Right(q))
    <3> HIDE DEF Exact
    <3> QED BY <1>1, <1>2, <1>3
  <2>1. q.bits \in Nat /\ q.bits < Width
    BY <1>0, PrefixForm, WidthType
  <2>2. /\ Left(q) \in Prefix /\ Right(q) \in Prefix
        /\ Left(q).bits = q.bits + 1 /\ Right(q).bits = q.bits + 1
    BY <2>1, Halves
  <2>3. Width - Left(q).bits < n /\ Width - Right(q).bits < n
    BY <2>1, <2>2, WidthType
  <2> HIDE DEF Exact
  <2>4. QED
    BY <1>4, <2>2, <2>3
<1> HIDE DEF Exact
<1>5. 0 \in S
  <2>1. \A q \in Prefix : ~(Width - q.bits < 0)
    BY PrefixForm, WidthType
  <2>2. QED
    BY <1>4, <2>1
<1>6. ASSUME NEW n \in S
      PROVE  n + 1 \in S
  <2>1. \A q \in Prefix : Width - q.bits < n + 1 => Width - q.bits <= n
    BY PrefixForm, WidthType
  <2>2. QED
    BY <1>4, <2>1
<1> HIDE DEF S
<1>7. S = Nat
  BY <1>5, <1>6, Succession DEF S
<1>8. Width - p.bits \in S
  BY <1>7, PrefixForm, WidthType
<1>9. QED
  <2>1. Width - p.bits <= Width - p.bits
    BY PrefixForm, WidthType
  <2>2. QED
    BY <1>8, <2>1 DEF S, Exact

-----------------------------------------------------------------------------
(* Cidr: excludeSpecialUsePrefixes.                                        *)

LEMMA SpecialType ==
    /\ Len(Special) \in Nat
    /\ \A i \in 1 .. Len(Special) : Special[i] \in Prefix
    /\ Range(Special) = {Special[i] : i \in 1 .. Len(Special)}
<1>1. Special \in Seq(Prefix)
  BY CidrAssumption, Zenon
<1> HIDE DEF Prefix
<1>2. Len(Special) \in Nat /\ DOMAIN Special = 1 .. Len(Special) /\ \A i \in 1 .. Len(Special) : Special[i] \in Prefix
  BY <1>1
<1>3. QED
  BY <1>2 DEF Range

\* What excluding the first n special-use prefixes leaves.
LEMMA ExcludedCovers ==
    ASSUME NEW ps, ps \subseteq Prefix
    PROVE  Excluded(ps) \subseteq Prefix /\ Covered(Excluded(ps)) = Covered(ps) \ Reserved
<1> DEFINE D == 0 .. Len(Special)
           V == SUBSET Prefix
           G == [g \in [D -> V] |->
                    [i \in D |-> IF i = 0 THEN ps ELSE UNION {Without(p, Special[i]) : p \in g[i - 1]}]]
           M == [i \in D |-> i]
<1>1. Descends(D, V, M, G)
  <2>1. M \in [D -> Nat]
    BY SpecialType
  <2>2. G \in [[D -> V] -> [D -> V]]
    <3> SUFFICES ASSUME NEW g \in [D -> V], NEW i \in D, i # 0
                 PROVE  UNION {Without(p, Special[i]) : p \in g[i - 1]} \in V
      OBVIOUS
    <3>1. i - 1 \in D /\ i \in 1 .. Len(Special)
      BY SpecialType
    <3>2. g[i - 1] \subseteq Prefix /\ Special[i] \in Prefix
      BY <3>1, SpecialType
    <3>3. QED
      BY <3>2, WithoutCovers
  <2>3. ASSUME NEW g \in [D -> V], NEW h \in [D -> V], NEW x \in D,
               \A y \in D : M[y] < M[x] => g[y] = h[y]
        PROVE  G[g][x] = G[h][x]
    <3>1. x # 0 => x - 1 \in D /\ x - 1 < x
      BY SpecialType
    <3>2. x # 0 => g[x - 1] = h[x - 1]
      BY <2>3, <3>1
    <3>3. QED
      BY <3>2
  <2> HIDE DEF G, M, V, D
  <2>4. QED
    BY <2>1, <2>2, <2>3 DEF Descends
<1>2. Solvable(D, V, G)
  <2>1. V # {}
    OBVIOUS
  <2> HIDE DEF G, M, V, D
  <2>2. QED
    BY <1>1, <2>1, Recursion
<1> DEFINE Body(f) == [i \in D |-> IF i = 0 THEN ps ELSE UNION {Without(p, Special[i]) : p \in f[i - 1]}]
           Past == CHOOSE f : f = Body(f)
<1>3. PICK f \in [D -> V] : f = Body(f)
  <2>1. PICK f \in [D -> V] : f = G[f]
    BY <1>2 DEF Solvable
  <2>2. QED
    BY <2>1
<1>4. Past = Body(Past)
  <2> HIDE DEF Body
  <2> QED BY <1>3
<1>5. Excluded(ps) = Past[Len(Special)]
  BY Zenon DEF Excluded
<1> HIDE DEF Past
<1>6. Past[0] = ps /\ \A i \in 1 .. Len(Special) : Past[i] = UNION {Without(p, Special[i]) : p \in Past[i - 1]}
  <2>1. 0 \in D /\ \A i \in 1 .. Len(Special) : i \in D /\ i # 0
    BY SpecialType
  <2>2. QED
    BY <1>4, <2>1
<1> DEFINE Done(i) == Covered({Special[j] : j \in 1 .. i})
           Exact(i) == Past[i] \subseteq Prefix /\ Covered(Past[i]) = Covered(ps) \ Done(i)
           S == {n \in Nat : n <= Len(Special) => Exact(n)}
<1>7. 0 \in S
  BY <1>6 DEF Covered
<1>8. ASSUME NEW n \in S
      PROVE  n + 1 \in S
  <2> SUFFICES ASSUME n + 1 <= Len(Special)
               PROVE  Exact(n + 1)
    BY DEF S
  <2>1. Exact(n)
    <3>1. n <= Len(Special)
      BY SpecialType
    <3> HIDE DEF Exact
    <3>2. QED
      BY <3>1
  <2>2. n + 1 \in 1 .. Len(Special) /\ (n + 1) - 1 = n
    BY SpecialType
  <2> DEFINE e == Special[n + 1]
  <2>3. e \in Prefix
    BY <2>2, SpecialType
  <2>4. Past[n + 1] = UNION {Without(p, e) : p \in Past[n]}
    BY <1>6, <2>2
  <2>5. Done(n + 1) = Done(n) \cup Span(e)
    <3>1. 1 .. n + 1 = (1 .. n) \cup {n + 1}
      OBVIOUS
    <3>2. {Special[j] : j \in 1 .. n + 1} = {Special[j] : j \in 1 .. n} \cup {e}
      BY <3>1
    <3>3. QED
      BY <3>2 DEF Covered
  <2> HIDE DEF e, Done
  <2>6. \A p \in Past[n] : Without(p, e) \subseteq Prefix /\ Covered(Without(p, e)) = Span(p) \ Span(e)
    BY <2>1, <2>3, WithoutCovers
  <2>7. Covered(Past[n + 1]) = Covered(Past[n]) \ Span(e)
    BY <2>4, <2>6 DEF Covered
  <2>8. QED
    BY <2>1, <2>4, <2>5, <2>6, <2>7
<1> HIDE DEF S
<1>9. S = Nat
  BY <1>7, <1>8, Succession DEF S
<1>10. Exact(Len(Special)) /\ Done(Len(Special)) = Reserved
  BY <1>9, SpecialType DEF S, Reserved
<1>11. QED
  BY <1>5, <1>10

-----------------------------------------------------------------------------
(* Cidr: the overlap check.                                                *)

\* The place of a prefix in the order of the list.
Key(p) == p.addr * (Width + 1) + p.bits

LEMMA KeyOrder ==
    ASSUME NEW p \in Prefix, NEW q \in Prefix
    PROVE  Key(p) \in Nat /\ (Before(p, q) <=> Key(p) < Key(q))
<1>1. p.addr \in Nat /\ p.bits \in Nat /\ p.bits <= Width /\ q.addr \in Nat /\ q.bits \in Nat /\ q.bits <= Width
  BY PrefixForm
<1>2. Key(p) \in Nat /\ Key(q) \in Nat
  BY <1>1, WidthType DEF Key
<1>3. CASE p.addr = q.addr
  BY <1>1, <1>3, WidthType DEF Key, Before
<1>4. CASE p.addr < q.addr
  <2>1. p.addr * (Width + 1) + (Width + 1) <= q.addr * (Width + 1)
    BY <1>1, <1>4, WidthType, NextMultiple
  <2>2. QED
    BY <1>1, <1>2, <1>4, <2>1, WidthType DEF Key, Before
<1>5. CASE q.addr < p.addr
  <2>1. q.addr * (Width + 1) + (Width + 1) <= p.addr * (Width + 1)
    BY <1>1, <1>5, WidthType, NextMultiple
  <2>2. QED
    BY <1>1, <1>2, <1>5, <2>1, WidthType DEF Key, Before
<1>6. QED
  BY <1>1, <1>2, <1>3, <1>4, <1>5

LEMMA OrderTotal ==
    ASSUME NEW p \in Prefix, NEW q \in Prefix, p # q
    PROVE  Before(p, q) \/ Before(q, p)
<1>1. /\ p.addr \in Nat /\ p.bits \in Nat /\ q.addr \in Nat /\ q.bits \in Nat
      /\ p = [addr |-> p.addr, bits |-> p.bits] /\ q = [addr |-> q.addr, bits |-> q.bits]
  BY PrefixForm
<1>2. p.addr # q.addr \/ p.bits # q.bits
  BY <1>1
<1>3. QED
  BY <1>1, <1>2 DEF Before

\* Comparing each prefix with the next one only finds every overlap.
LEMMA NeighboursSuffice ==
    ASSUME NEW ps, ps \subseteq Prefix, Separate(ps)
    PROVE  Apart(ps)
<1>1. ASSUME NEW p \in ps, NEW q \in ps, Before(p, q), Span(p) \cap Span(q) # {}
      PROVE  FALSE
  <2> DEFINE S == {Key(r) : r \in {s \in ps : Before(p, s)}}
  <2>1. S \in SUBSET Nat /\ S # {}
    BY <1>1, KeyOrder
  <2>2. PICK m \in S : \A k \in S : m <= k
    <3> HIDE DEF S
    <3> QED BY <2>1, LeastNumber
  <2>3. PICK s \in ps : Before(p, s) /\ m = Key(s)
    BY <2>2
  <2>4. \A r \in ps : Before(p, r) => Key(s) <= Key(r)
    BY <2>2, <2>3
  <2> HIDE DEF S
  <2>5. Adjacent(p, s, ps)
    <3>1. \A r \in ps : Before(p, r) => ~Before(r, s)
      BY <2>4, KeyOrder
    <3>2. QED
      BY <2>3, <3>1 DEF Adjacent
  <2>6. /\ p.addr \in Nat /\ p.bits \in Nat /\ q.addr \in Nat /\ q.bits \in Nat /\ s.addr \in Nat /\ s.bits \in Nat
        /\ Size(p) \in Nat \ {0} /\ Size(q) \in Nat \ {0}
    BY PrefixForm
  <2>7. p.addr <= s.addr /\ s.addr <= q.addr
    <3>1. ~Before(q, s)
      BY <1>1, <2>4, KeyOrder
    <3>2. QED
      BY <2>3, <2>6, <3>1 DEF Before
  <2>8. q.addr \in Span(p)
    BY <1>1, <2>6 DEF Before, Span
  <2>9. s.addr \in Span(p)
    BY <2>6, <2>7, <2>8 DEF Span
  <2>10. QED
    BY <2>5, <2>9 DEF Separate, Overlaps
<1>2. QED
  BY <1>1, OrderTotal DEF Apart
-----------------------------------------------------------------------------
(* Cidr: collapsePrefixes.                                                 *)

LEMMA LongestForm ==
    ASSUME NEW C, NEW r \in Longest(C)
    PROVE  /\ r \in Extent /\ r.start \in Nat /\ r.count \in Nat \ {0}
           /\ r = [start |-> r.start, count |-> r.count]
           /\ \A x \in Int : r.start <= x /\ x < r.start + r.count => x \in C
           /\ r.start - 1 \notin C /\ r.start + r.count \notin C
<1>1. r \in Extent /\ r.count > 0
  BY DEF Longest, Allocation
<1>2. r.start \in Nat /\ r.count \in Nat
  BY <1>1, ExtentForm
<1>3. r = [start |-> r.start, count |-> r.count]
  BY <1>1 DEF Extent
<1>4. QED
  BY <1>1, <1>2, <1>3 DEF Longest, Interval

\* Two longest ranges with a common address are the same.
LEMMA LongestApart ==
    ASSUME NEW C, NEW r \in Longest(C), NEW s \in Longest(C), Interval(r) \cap Interval(s) # {}
    PROVE  r = s
<1>1. /\ r.start \in Nat /\ r.count \in Nat \ {0} /\ s.start \in Nat /\ s.count \in Nat \ {0}
      /\ r = [start |-> r.start, count |-> r.count] /\ s = [start |-> s.start, count |-> s.count]
  BY LongestForm
<1>2. PICK x \in Int : r.start <= x /\ x < r.start + r.count /\ s.start <= x /\ x < s.start + s.count
  BY <1>1 DEF Interval
<1>3. ~(r.start < s.start)
  <2>1. r.start < s.start => r.start <= s.start - 1 /\ s.start - 1 < r.start + r.count
    BY <1>1, <1>2
  <2>2. QED
    BY <1>1, <2>1, LongestForm
<1>4. ~(s.start < r.start)
  <2>1. s.start < r.start => s.start <= r.start - 1 /\ r.start - 1 < s.start + s.count
    BY <1>1, <1>2
  <2>2. QED
    BY <1>1, <2>1, LongestForm
<1>5. ~(r.count < s.count)
  <2>1. r.count < s.count => s.start <= r.start + r.count /\ r.start + r.count < s.start + s.count
    BY <1>1, <1>3, <1>4
  <2>2. QED
    BY <1>1, <2>1, LongestForm
<1>6. ~(s.count < r.count)
  <2>1. s.count < r.count => r.start <= s.start + s.count /\ s.start + s.count < r.start + r.count
    BY <1>1, <1>3, <1>4
  <2>2. QED
    BY <1>1, <2>1, LongestForm
<1>7. r.start = s.start /\ r.count = s.count
  BY <1>1, <1>3, <1>4, <1>5, <1>6
<1>8. QED
  BY <1>1, <1>7

\* The first address after a that is not in C, and the last run of C up to a.
LEMMA RunEnd ==
    ASSUME NEW C, C \subseteq Address, NEW a \in C
    PROVE  \E b \in Nat : /\ a < b /\ b <= Pow[Width] /\ b \notin C
                          /\ \A x \in Int : a <= x /\ x < b => x \in C
<1> DEFINE S == {b \in Nat : a < b /\ b \notin C}
<1>1. a \in Nat /\ a < Pow[Width] /\ Pow[Width] \in Nat /\ Pow[Width] \notin C
  BY WidthType, PowStep DEF Address
<1>2. Pow[Width] \in S
  BY <1>1
<1>3. PICK b \in S : \A k \in S : b <= k
  <2>1. S \in SUBSET Nat /\ S # {}
    BY <1>2
  <2> HIDE DEF S
  <2>2. QED
    BY <2>1, LeastNumber
<1>4. \A x \in Int : a <= x /\ x < b => x \in C
  BY <1>1, <1>3
<1>5. QED
  BY <1>2, <1>3, <1>4

LEMMA RunStart ==
    ASSUME NEW C, C \subseteq Address, NEW c \in C
    PROVE  \E a \in C : /\ a <= c /\ a - 1 \notin C
                        /\ \A x \in Int : a <= x /\ x <= c => x \in C
<1> DEFINE S == {a \in Nat : a <= c /\ \A x \in Int : a <= x /\ x <= c => x \in C}
<1>1. c \in Nat /\ \A x \in C : x \in Nat
  BY WidthType, PowStep DEF Address
<1>2. c \in S
  <2>1. \A x \in Int : c <= x /\ x <= c => x = c
    BY <1>1
  <2>2. QED
    BY <1>1, <2>1
<1>3. PICK a \in S : \A k \in S : a <= k
  <2>1. S \in SUBSET Nat /\ S # {}
    BY <1>2
  <2> HIDE DEF S
  <2>2. QED
    BY <2>1, LeastNumber
<1>4. a \in C
  BY <1>1, <1>3
<1>5. a - 1 \notin C
  <2> SUFFICES ASSUME a - 1 \in C
               PROVE  a - 1 \in S
    BY <1>1, <1>3
  <2>1. a - 1 \in Nat /\ a - 1 <= c
    BY <1>1, <1>3
  <2>2. \A x \in Int : a - 1 <= x /\ x <= c => x \in C
    BY <1>1, <1>3
  <2>3. QED
    BY <2>1, <2>2
<1>6. QED
  BY <1>3, <1>4, <1>5

Starts(ps) == {p.addr : p \in ps}
Ends(ps) == {p.addr + Size(p) : p \in ps}

LEMMA RunsIs == \A ps : Runs(ps) = {[start |-> a, count |-> Min({e \in Ends(ps) \ Starts(ps) : e > a}) - a] :
                                       a \in Starts(ps) \ Ends(ps)}
  BY DEF Runs, Starts, Ends

LEMMA CoveredType == ASSUME NEW ps, ps \subseteq Prefix PROVE Covered(ps) \subseteq Address
  BY SpanIs DEF Covered

\* A range begins where a prefix begins and none ends.
LEMMA RunStarts ==
    ASSUME NEW ps, ps \subseteq Prefix, Apart(ps), NEW a
    PROVE  a \in Starts(ps) \ Ends(ps) <=> a \in Covered(ps) /\ a - 1 \notin Covered(ps)
<1>1. ASSUME a \in Starts(ps), a \notin Ends(ps)
      PROVE  a \in Covered(ps) /\ a - 1 \notin Covered(ps)
  <2>1. PICK p \in ps : a = p.addr
    BY <1>1 DEF Starts
  <2>2. a \in Span(p) /\ a \in Nat
    BY <2>1, SpanIs, PrefixForm
  <2>3. ASSUME NEW q \in ps, a - 1 \in Span(q)
        PROVE  FALSE
    <3>1. q.addr \in Nat /\ Size(q) \in Nat /\ q.addr <= a - 1 /\ a - 1 < q.addr + Size(q)
      BY <2>3, SpanIs, PrefixForm
    <3>2. a # q.addr + Size(q)
      BY <1>1 DEF Ends
    <3>3. a \in Span(q)
      BY <2>2, <3>1, <3>2, SpanIs
    <3>4. p = q
      BY <2>2, <3>3 DEF Apart
    <3>5. QED
      BY <2>1, <2>2, <3>1, <3>4
  <2>4. QED
    BY <2>2, <2>3, CoveredIs
<1>2. ASSUME a \in Covered(ps), a - 1 \notin Covered(ps)
      PROVE  a \in Starts(ps) /\ a \notin Ends(ps)
  <2>1. PICK p \in ps : a \in Span(p)
    BY <1>2, CoveredIs
  <2>2. a \in Int /\ p.addr \in Nat /\ Size(p) \in Nat /\ p.addr <= a /\ a < p.addr + Size(p)
    BY <2>1, SpanIs, PrefixForm
  <2>3. a = p.addr
    <3>1. p.addr < a => a - 1 \in Span(p)
      BY <2>2, SpanIs
    <3>2. QED
      BY <1>2, <2>2, <3>1, CoveredIs
  <2>4. ASSUME NEW q \in ps, a = q.addr + Size(q)
        PROVE  FALSE
    <3>1. q.addr \in Nat /\ Size(q) \in Nat \ {0}
      BY PrefixForm
    <3>2. a - 1 \in Span(q)
      BY <2>4, <3>1, SpanIs
    <3>3. QED
      BY <1>2, <3>2, CoveredIs
  <2>5. QED
    BY <2>3, <2>4 DEF Starts, Ends
<1>3. QED
  BY <1>1, <1>2

\* It ends where the next address is not covered.
LEMMA RunEnds ==
    ASSUME NEW ps, ps \subseteq Prefix, Apart(ps), NEW a \in Covered(ps), NEW b \in Nat, a < b,
           b \notin Covered(ps), \A x \in Int : a <= x /\ x < b => x \in Covered(ps)
    PROVE  Min({e \in Ends(ps) \ Starts(ps) : e > a}) = b
<1> DEFINE E == {e \in Ends(ps) \ Starts(ps) : e > a}
<1>0. a \in Nat
  <2>1. a \in Address
    BY CoveredType
  <2>2. QED
    BY <2>1, WidthType, PowStep DEF Address
<1>1. b \in E
  <2>1. b - 1 \in Covered(ps)
    BY <1>0
  <2>2. PICK p \in ps : b - 1 \in Span(p)
    BY <2>1, CoveredIs
  <2>3. p.addr \in Nat /\ Size(p) \in Nat /\ p.addr <= b - 1 /\ b - 1 < p.addr + Size(p) /\ b \notin Span(p)
    BY <2>2, SpanIs, PrefixForm, CoveredIs
  <2>4. b = p.addr + Size(p)
    BY <2>3, SpanIs
  <2>5. \A q \in ps : q.addr # b
    BY SpanIs, CoveredIs
  <2>6. QED
    BY <2>4, <2>5 DEF Starts, Ends
<1>2. ASSUME NEW e \in E
      PROVE  b <= e /\ e \in Nat
  <2>1. PICK p \in ps : e = p.addr + Size(p)
    BY DEF Ends
  <2>2. p.addr \in Nat /\ Size(p) \in Nat \ {0} /\ e \in Nat /\ e > a
    BY <2>1, PrefixForm
  <2> SUFFICES ASSUME e < b PROVE FALSE
    BY <2>2
  <2>3. e \in Covered(ps)
    BY <1>0, <2>2
  <2>4. PICK q \in ps : e \in Span(q)
    BY <2>3, CoveredIs
  <2>5. q.addr \in Nat /\ Size(q) \in Nat /\ q.addr <= e /\ e < q.addr + Size(q) /\ q.addr # e
    BY <2>4, SpanIs, PrefixForm DEF Starts
  <2>6. e - 1 \in Span(q)
    BY <2>2, <2>5, SpanIs
  <2>7. e - 1 \in Span(p)
    BY <2>1, <2>2, SpanIs
  <2>8. p = q
    BY <2>6, <2>7 DEF Apart
  <2>9. QED
    BY <2>1, <2>5, <2>8
<1> HIDE DEF E
<1>3. \A x \in E : (\A y \in E : x =< y) => x = b
  BY <1>1, <1>2
<1>4. \A y \in E : b =< y
  BY <1>2
<1>5. Min(E) = b
  BY <1>1, <1>3, <1>4 DEF Min
<1>6. QED
  BY <1>5 DEF E

\* The ranges the code finds are the longest ones.
LEMMA RunsAreLongest ==
    ASSUME NEW ps, ps \subseteq Prefix, Apart(ps)
    PROVE  Runs(ps) = Longest(Covered(ps))
<1> DEFINE C == Covered(ps)
           Count(a) == Min({e \in Ends(ps) \ Starts(ps) : e > a}) - a
<1>1. C \subseteq Address /\ \A x \in C : x \in Nat
  <2>1. C \subseteq Address
    BY CoveredType
  <2>2. QED
    BY <2>1, WidthType, PowStep DEF Address
<1>2. ASSUME NEW a \in Starts(ps) \ Ends(ps)
      PROVE  [start |-> a, count |-> Count(a)] \in Longest(C)
  <2>1. a \in C /\ a - 1 \notin C
    BY RunStarts
  <2>2. PICK b \in Nat : a < b /\ b <= Pow[Width] /\ b \notin C /\ \A x \in Int : a <= x /\ x < b => x \in C
    BY <1>1, <2>1, RunEnd
  <2>3. Count(a) = b - a
    BY <2>1, <2>2, RunEnds
  <2> HIDE DEF Count, C
  <2>4. a \in Nat /\ b - a \in Nat \ {0} /\ a + (b - a) = b /\ Pow[Width] \in Nat
    BY <1>1, <2>1, <2>2, WidthType, PowStep
  <2>5. [start |-> a, count |-> b - a] \in Allocation
    BY <2>2, <2>4 DEF Allocation, Extent
  <2>6. Interval([start |-> a, count |-> b - a]) \subseteq C
    BY <2>2, <2>4 DEF Interval
  <2>7. QED
    BY <2>1, <2>2, <2>3, <2>4, <2>5, <2>6 DEF Longest
<1>3. ASSUME NEW r \in Longest(C)
      PROVE  r.start \in Starts(ps) \ Ends(ps) /\ r = [start |-> r.start, count |-> Count(r.start)]
  <2>1. /\ r.start \in Nat /\ r.count \in Nat \ {0} /\ r = [start |-> r.start, count |-> r.count]
        /\ \A x \in Int : r.start <= x /\ x < r.start + r.count => x \in C
        /\ r.start - 1 \notin C /\ r.start + r.count \notin C
    BY LongestForm
  <2>2. r.start \in C /\ r.start + r.count \in Nat /\ r.start < r.start + r.count
    BY <2>1
  <2>3. r.start \in Starts(ps) \ Ends(ps)
    BY <2>1, <2>2, RunStarts
  <2>4. Min({e \in Ends(ps) \ Starts(ps) : e > r.start}) = r.start + r.count
    BY <2>1, <2>2, RunEnds
  <2>5. Count(r.start) = r.count
    BY <2>1, <2>4
  <2>6. QED
    BY <2>1, <2>3, <2>5
<1> HIDE DEF C, Count
<1>4. Runs(ps) = {[start |-> a, count |-> Count(a)] : a \in Starts(ps) \ Ends(ps)}
  BY RunsIs DEF Count
<1>5. QED
  BY <1>2, <1>3, <1>4 DEF C

\* The blocks of the longest ranges are disjoint and cover the same addresses.
LEMMA CollapsedCovers ==
    ASSUME NEW C, C \subseteq Address
    PROVE  Collapsed(C) \subseteq Prefix /\ Covered(Collapsed(C)) = C /\ Apart(Collapsed(C))
<1>1. \A r \in Longest(C) : /\ r \in Extent /\ Blocks[r] \subseteq Prefix
                            /\ Covered(Blocks[r]) = Interval(r) /\ Apart(Blocks[r])
  BY LongestForm, BlocksCover
<1>2. Collapsed(C) \subseteq Prefix
  BY <1>1 DEF Collapsed
<1>3. \A p \in Collapsed(C) : \E r \in Longest(C) : p \in Blocks[r] /\ Span(p) \subseteq Interval(r)
  BY <1>1, CoveredIs DEF Collapsed
<1>4. Covered(Collapsed(C)) \subseteq C
  <2>1. \A r \in Longest(C) : Interval(r) \subseteq C
    BY DEF Longest
  <2>2. QED
    BY <1>3, <2>1, CoveredIs
<1>5. ASSUME NEW c \in C
      PROVE  c \in Covered(Collapsed(C))
  <2>1. PICK a \in C : a <= c /\ a - 1 \notin C /\ \A x \in Int : a <= x /\ x <= c => x \in C
    BY RunStart
  <2>2. PICK b \in Nat : a < b /\ b <= Pow[Width] /\ b \notin C /\ \A x \in Int : a <= x /\ x < b => x \in C
    BY RunEnd
  <2>3. a \in Nat /\ c \in Nat /\ Pow[Width] \in Nat
    BY WidthType, PowStep DEF Address
  <2>4. c < b
    BY <2>1, <2>2, <2>3
  <2> DEFINE r == [start |-> a, count |-> b - a]
  <2>5. b - a \in Nat \ {0} /\ a + (b - a) = b
    BY <2>2, <2>3
  <2>6. r \in Allocation
    BY <2>2, <2>3, <2>5 DEF Allocation, Extent
  <2>7. Interval(r) = a .. b - 1
    <3>1. Interval(r) = a .. a + (b - a) - 1
      BY DEF Interval
    <3>2. a + (b - a) - 1 = b - 1
      BY <2>3
    <3>3. QED
      BY ONLY <3>1, <3>2, Zenon
  <2>8. r \in Longest(C)
    BY <2>1, <2>2, <2>3, <2>5, <2>6, <2>7 DEF Longest
  <2>9. c \in Interval(r)
    BY <2>1, <2>2, <2>3, <2>4, <2>7
  <2> HIDE DEF r
  <2>10. PICK p \in Blocks[r] : c \in Span(p)
    BY <1>1, <2>8, <2>9, CoveredIs
  <2>11. p \in Collapsed(C)
    BY <2>8 DEF Collapsed
  <2>12. QED
    BY <2>10, <2>11, CoveredIs
<1>6. Apart(Collapsed(C))
  <2> SUFFICES ASSUME NEW p \in Collapsed(C), NEW q \in Collapsed(C), p # q, Span(p) \cap Span(q) # {}
               PROVE  FALSE
    BY DEF Apart
  <2>1. PICK r \in Longest(C) : p \in Blocks[r] /\ Span(p) \subseteq Interval(r)
    BY <1>3
  <2>2. PICK s \in Longest(C) : q \in Blocks[s] /\ Span(q) \subseteq Interval(s)
    BY <1>3
  <2>3. r = s
    BY <2>1, <2>2, LongestApart
  <2>4. QED
    BY <1>1, <2>1, <2>2, <2>3 DEF Apart
<1>7. QED
  BY <1>2, <1>4, <1>5, <1>6

-----------------------------------------------------------------------------
(* Cidr: largestPrefixes.                                                  *)

LEMMA FinitePrefix == \A ps : ps \subseteq Prefix => IsFiniteSet(ps)
<1> DEFINE S == Address \X (0 .. Width)
           T == [addr : Address, bits : 0 .. Width]
           f == [x \in S |-> [addr |-> x[1], bits |-> x[2]]]
<1>1. IsFiniteSet(Address) /\ IsFiniteSet(0 .. Width)
  <2>1. 0 \in Int /\ Width \in Int /\ Pow[Width] - 1 \in Int
    BY WidthType, PowStep
  <2>2. QED
    BY <2>1, FS_Interval DEF Address
<1>2. IsFiniteSet(S)
  BY <1>1, FS_Product
<1>3. f \in Surjection(S, T)
  <2>1. f \in [S -> T]
    OBVIOUS
  <2>2. \A t \in T : <<t.addr, t.bits>> \in S /\ f[<<t.addr, t.bits>>] = t
    OBVIOUS
  <2> HIDE DEF f, S, T
  <2>3. \A t \in T : \E s \in S : f[s] = t
    BY <2>2
  <2>4. QED
    BY <2>1, <2>3 DEF Surjection
<1> HIDE DEF f, S
<1>4. IsFiniteSet(T)
  BY <1>2, <1>3, FS_Surjection
<1>5. Prefix \subseteq T
  BY DEF Prefix
<1>6. QED
  BY <1>4, <1>5, FS_Subset

Ahead(p, ps) == {q \in ps : Preferred(q, p)}

LEMMA PreferredOrder ==
    /\ \A p \in Prefix : ~Preferred(p, p)
    /\ \A p, q \in Prefix : p # q => Preferred(p, q) \/ Preferred(q, p)
    /\ \A p, q, r \in Prefix : Preferred(p, q) /\ Preferred(q, r) => Preferred(p, r)
<1>1. \A p \in Prefix : p.addr \in Nat /\ p.bits \in Nat /\ p = [addr |-> p.addr, bits |-> p.bits]
  BY PrefixForm
<1>2. QED
  BY <1>1 DEF Preferred

LEMMA AheadGrows ==
    ASSUME NEW ps, ps \subseteq Prefix, NEW p \in ps, NEW q \in ps, Preferred(q, p)
    PROVE  Cardinality(Ahead(q, ps)) < Cardinality(Ahead(p, ps))
<1>1. Ahead(q, ps) \subseteq Ahead(p, ps) /\ q \in Ahead(p, ps) /\ q \notin Ahead(q, ps)
  BY PreferredOrder DEF Ahead
<1>2. IsFiniteSet(Ahead(p, ps)) /\ IsFiniteSet(Ahead(q, ps))
  BY FinitePrefix DEF Ahead
<1>3. /\ Cardinality(Ahead(p, ps)) \in Nat /\ Cardinality(Ahead(q, ps)) \in Nat
      /\ Cardinality(Ahead(q, ps)) <= Cardinality(Ahead(p, ps))
      /\ Cardinality(Ahead(q, ps)) # Cardinality(Ahead(p, ps))
  BY <1>1, <1>2, FS_Subset, FS_CardinalityType
<1>4. QED
  BY <1>3

Chosen(ps) == {p \in ps : Cardinality(Ahead(p, ps)) < MaxRoutes}

\* As many as are allowed, all of them if they are, and none narrower than one left out.
LEMMA ChosenAreWidest ==
    ASSUME NEW ps, ps \subseteq Prefix
    PROVE  /\ Cardinality(Chosen(ps)) <= MaxRoutes
           /\ Cardinality(ps) <= MaxRoutes => Chosen(ps) = ps
           /\ \A p \in Chosen(ps), q \in ps \ Chosen(ps) : p.bits <= q.bits
<1>0. MaxRoutes \in Nat
  BY CidrAssumption
<1>1. \A p \in ps : IsFiniteSet(Ahead(p, ps)) /\ Cardinality(Ahead(p, ps)) \in Nat
  <2>1. \A p \in ps : IsFiniteSet(Ahead(p, ps))
    BY FinitePrefix DEF Ahead
  <2>2. QED
    BY <2>1, FS_CardinalityType
<1>2. IsFiniteSet(ps)
  BY FinitePrefix
<1>3. Cardinality(Chosen(ps)) <= MaxRoutes
  <2> DEFINE f == [p \in Chosen(ps) |-> Cardinality(Ahead(p, ps))]
             T == 0 .. MaxRoutes - 1
  <2>1. f \in [Chosen(ps) -> T]
    BY <1>0, <1>1 DEF Chosen
  <2>2. \A p, q \in Chosen(ps) : f[p] = f[q] => p = q
    <3> SUFFICES ASSUME NEW p \in Chosen(ps), NEW q \in Chosen(ps), f[p] = f[q], p # q
                 PROVE  FALSE
      OBVIOUS
    <3>1. p \in ps /\ q \in ps /\ (Preferred(p, q) \/ Preferred(q, p))
      BY PreferredOrder DEF Chosen
    <3>2. Cardinality(Ahead(p, ps)) < Cardinality(Ahead(q, ps)) \/ Cardinality(Ahead(q, ps)) < Cardinality(Ahead(p, ps))
      BY <3>1, AheadGrows
    <3>3. QED
      BY <1>1, <3>1, <3>2
  <2> HIDE DEF f
  <2>3. f \in Injection(Chosen(ps), T)
    BY <2>1, <2>2 DEF Injection, IsInjective
  <2>4. IsFiniteSet(T) /\ Cardinality(T) = MaxRoutes
    <3>1. 0 \in Int /\ MaxRoutes - 1 \in Int
      BY <1>0
    <3>2. IsFiniteSet(T) /\ Cardinality(T) = IF 0 > MaxRoutes - 1 THEN 0 ELSE (MaxRoutes - 1) - 0 + 1
      BY <3>1, FS_Interval
    <3>3. QED
      BY <1>0, <3>2
  <2> HIDE DEF T
  <2>5. Cardinality(Chosen(ps)) <= Cardinality(T)
    BY <2>3, <2>4, FS_Injection
  <2>6. QED
    BY <2>4, <2>5
<1>4. Cardinality(ps) <= MaxRoutes => Chosen(ps) = ps
  <2> SUFFICES ASSUME Cardinality(ps) <= MaxRoutes, NEW p \in ps
               PROVE  Cardinality(Ahead(p, ps)) < MaxRoutes
    BY DEF Chosen
  <2>1. Ahead(p, ps) \subseteq ps /\ p \notin Ahead(p, ps)
    BY PreferredOrder DEF Ahead
  <2>2. /\ Cardinality(Ahead(p, ps)) <= Cardinality(ps)
        /\ Cardinality(Ahead(p, ps)) # Cardinality(ps)
        /\ Cardinality(ps) \in Nat
    BY <1>2, <2>1, FS_Subset, FS_CardinalityType
  <2>3. QED
    BY <1>0, <1>1, <2>2
<1>5. ASSUME NEW p \in Chosen(ps), NEW q \in ps \ Chosen(ps)
      PROVE  p.bits <= q.bits
  <2>1. p \in ps /\ p.bits \in Nat /\ q.bits \in Nat
    BY PrefixForm DEF Chosen
  <2> SUFFICES ASSUME q.bits < p.bits
               PROVE  FALSE
    BY <2>1
  <2>2. Cardinality(Ahead(q, ps)) < Cardinality(Ahead(p, ps))
    BY <2>1, AheadGrows DEF Preferred
  <2>3. Cardinality(Ahead(p, ps)) < MaxRoutes /\ ~(Cardinality(Ahead(q, ps)) < MaxRoutes)
    BY DEF Chosen
  <2>4. QED
    BY <1>0, <1>1, <2>1, <2>2, <2>3
<1>6. QED
  BY <1>3, <1>4, <1>5
-----------------------------------------------------------------------------
(* Cidr: the stages.                                                       *)

Public == FromSource \ Reserved

CidrInv ==
    /\ CidrTypeOK
    /\ source.records \subseteq IF source.format = "cidr" THEN Prefix ELSE Allocation
    /\ stage = "exclude" => Covered(routes) = FromSource
    /\ stage \in {"check", "merge"} => Covered(routes) = Public
    /\ stage = "merge" => source.format = "apnic" /\ Apart(routes)
    /\ stage = "choose" => source.format = "apnic" /\ routes = Collapsed(Public)
    /\ RoutesExact

LEMMA CidrStart == CidrInit => CidrInv
<1> SUFFICES ASSUME CidrInit
             PROVE  CidrInv
  OBVIOUS
<1>1. \/ source.format = "apnic" /\ source.records \subseteq Allocation /\ source = [format |-> "apnic", records |-> source.records]
      \/ source.format = "cidr" /\ source.records \subseteq Prefix /\ source = [format |-> "cidr", records |-> source.records]
  <2>1. CASE \E rs \in [1 .. MaxRecords -> Allocation] : source = [format |-> "apnic", records |-> Range(rs)]
    BY <2>1 DEF Range
  <2>2. CASE \E ps \in [1 .. MaxRecords -> Prefix] : source = [format |-> "cidr", records |-> Range(ps)]
    BY <2>2 DEF Range
  <2>3. QED
    BY <2>1, <2>2 DEF CidrInit
<1>2. stage = "read" /\ routes = {}
  BY DEF CidrInit
<1>3. CidrTypeOK
  BY <1>1, <1>2 DEF CidrTypeOK
<1>4. QED
  BY <1>1, <1>2, <1>3 DEF CidrInv, RoutesExact

LEMMA FromSourceType == CidrInv => FromSource \subseteq Address
<1> SUFFICES ASSUME CidrInv
             PROVE  FromSource \subseteq Address
  OBVIOUS
<1>1. CASE source.format = "cidr"
  BY <1>1, CoveredType DEF FromSource, CidrInv
<1>2. CASE source.format # "cidr"
  <2>1. source.records \subseteq Extent
    BY <1>2 DEF CidrInv, Allocation
  <2>2. \A r \in Extent : Interval(r) \subseteq Address
    BY ExtentForm DEF Interval, Address
  <2>3. QED
    BY <1>2, <2>1, <2>2 DEF FromSource
<1>3. QED
  BY <1>1, <1>2

LEMMA SourceStays ==
    ASSUME CidrInv, source' = source
    PROVE  /\ FromSource' = FromSource /\ Public' = Public
           /\ source' \in [format : {"apnic", "cidr"}, records : SUBSET (Allocation \cup Prefix)]
           /\ source'.records \subseteq IF source'.format = "cidr" THEN Prefix ELSE Allocation
  BY DEF CidrInv, CidrTypeOK, FromSource, Public

\* A list that was refused, or is not finished, promises nothing.
LEMMA ToKeeps ==
    ASSUME CidrInv, NEW at \in {"exclude", "check", "merge", "choose", "refused"}, NEW ps, ps \subseteq Prefix,
           To(at, ps),
           at = "exclude" => Covered(ps) = FromSource,
           at \in {"check", "merge"} => Covered(ps) = Public,
           at = "merge" => source.format = "apnic" /\ Apart(ps),
           at = "choose" => source.format = "apnic" /\ ps = Collapsed(Public)
    PROVE  CidrInv'
<1>1. stage' = at /\ routes' = ps /\ source' = source
  BY DEF To
<1>2. FromSource' = FromSource /\ Public' = Public
  BY <1>1, SourceStays
<1>3. CidrTypeOK'
  BY <1>1, SourceStays DEF CidrTypeOK
<1>4. RoutesExact'
  BY <1>1 DEF RoutesExact
<1>5. source'.records \subseteq IF source'.format = "cidr" THEN Prefix ELSE Allocation
  BY <1>1, SourceStays
<1>6. /\ stage' = "exclude" => Covered(routes') = FromSource'
      /\ stage' \in {"check", "merge"} => Covered(routes') = Public'
      /\ stage' = "merge" => source'.format = "apnic" /\ Apart(routes')
      /\ stage' = "choose" => source'.format = "apnic" /\ routes' = Collapsed(Public')
  BY <1>1, <1>2
<1>7. QED
  BY <1>3, <1>4, <1>5, <1>6 DEF CidrInv

LEMMA ReadKeeps == CidrInv /\ Read => CidrInv'
<1> SUFFICES ASSUME CidrInv, Read
             PROVE  CidrInv'
  OBVIOUS
<1> DEFINE ps == IF source.format = "cidr" THEN source.records
                 ELSE UNION {Blocks[r] : r \in source.records}
<1>1. ps \subseteq Prefix /\ Covered(ps) = FromSource
  <2>1. CASE source.format = "cidr"
    BY <2>1 DEF CidrInv, FromSource
  <2>2. CASE source.format # "cidr"
    <3>1. \A r \in source.records : Blocks[r] \subseteq Prefix /\ Covered(Blocks[r]) = Interval(r)
      <4>1. source.records \subseteq Extent
        BY <2>2 DEF CidrInv, Allocation
      <4>2. QED
        BY <4>1, BlocksCover
    <3>2. Covered(UNION {Blocks[r] : r \in source.records}) = UNION {Interval(r) : r \in source.records}
      BY <3>1 DEF Covered
    <3>3. QED
      BY <2>2, <3>1, <3>2 DEF FromSource
  <2>3. QED
    BY <2>1, <2>2
<1> HIDE DEF ps
<1>2. To("exclude", ps) \/ To("refused", {})
  BY DEF Read, ps
<1>3. CASE To("exclude", ps)
  BY <1>1, <1>3, ToKeeps
<1>4. CASE To("refused", {})
  BY <1>4, ToKeeps
<1>5. QED
  BY <1>2, <1>3, <1>4

LEMMA ExcludeKeeps == CidrInv /\ Exclude => CidrInv'
<1> SUFFICES ASSUME CidrInv, Exclude
             PROVE  CidrInv'
  OBVIOUS
<1>1. routes \subseteq Prefix /\ Covered(routes) = FromSource
  BY DEF CidrInv, CidrTypeOK, Exclude
<1>2. Excluded(routes) \subseteq Prefix /\ Covered(Excluded(routes)) = Public
  BY <1>1, ExcludedCovers DEF Public
<1>3. To("check", Excluded(routes))
  BY DEF Exclude
<1>4. QED
  BY <1>2, <1>3, ToKeeps

LEMMA FitsApart == ASSUME NEW ps, ps \subseteq Prefix, Fits(ps) PROVE Apart(ps)
<1>1. Separate(ps)
  BY Zenon DEF Fits
<1>2. QED
  BY <1>1, NeighboursSuffice

LEMMA CheckListKeeps == CidrInv /\ CheckList => CidrInv'
<1> SUFFICES ASSUME CidrInv, CheckList
             PROVE  CidrInv'
  OBVIOUS
<1>1. stage = "check" /\ routes \subseteq Prefix /\ Covered(routes) = Public /\ source.format \in {"apnic", "cidr"}
  BY DEF CidrInv, CidrTypeOK, CheckList
<1>2. \/ To("refused", {})
      \/ Fits(routes) /\ source.format = "apnic" /\ To("merge", routes)
      \/ Fits(routes) /\ source.format = "cidr" /\ Cardinality(routes) <= MaxRoutes /\ To("done", routes)
  BY DEF CheckList
<1>3. CASE To("refused", {})
  BY <1>3, ToKeeps
<1>4. CASE Fits(routes) /\ source.format = "apnic" /\ To("merge", routes)
  BY <1>1, <1>4, FitsApart, ToKeeps
<1>5. CASE Fits(routes) /\ source.format = "cidr" /\ Cardinality(routes) <= MaxRoutes /\ To("done", routes)
  <2>1. stage' = "done" /\ routes' = routes /\ source' = source
    BY <1>5 DEF To
  <2>2. Apart(routes)
    BY <1>1, <1>5, FitsApart
  <2>3. CidrTypeOK'
    BY <2>1, SourceStays DEF CidrInv, CidrTypeOK
  <2>4. RoutesExact'
    <3>1. FromSource' = FromSource
      BY <2>1, SourceStays
    <3>2. Covered(routes) = FromSource \ Reserved
      BY <1>1 DEF Public
    <3>3. QED
      BY <1>5, <2>1, <2>2, <3>1, <3>2 DEF RoutesExact, Apart
  <2>5. QED
    BY <2>1, <2>3, <2>4, SourceStays DEF CidrInv
<1>6. QED
  BY <1>2, <1>3, <1>4, <1>5

LEMMA MergeKeeps == CidrInv /\ Merge => CidrInv'
<1> SUFFICES ASSUME CidrInv, Merge
             PROVE  CidrInv'
  OBVIOUS
<1>1. routes \subseteq Prefix /\ Apart(routes) /\ Covered(routes) = Public /\ source.format = "apnic"
  BY DEF CidrInv, CidrTypeOK, Merge
<1>2. UNION {Blocks[r] : r \in Runs(routes)} = Collapsed(Public)
  BY <1>1, RunsAreLongest DEF Collapsed
<1>3. Collapsed(Public) \subseteq Prefix
  BY <1>1, CoveredType, CollapsedCovers
<1>4. To("choose", Collapsed(Public))
  BY <1>2 DEF Merge
<1>5. QED
  BY <1>1, <1>3, <1>4, ToKeeps

LEMMA ChooseKeeps == CidrInv /\ Choose => CidrInv'
<1> SUFFICES ASSUME CidrInv, Choose
             PROVE  CidrInv'
  OBVIOUS
<1>1. source.format = "apnic" /\ routes = Collapsed(Public) /\ routes \subseteq Prefix
  BY DEF CidrInv, CidrTypeOK, Choose
<1>2. stage' = "done" /\ routes' = Chosen(routes) /\ source' = source
  BY DEF Choose, To, Chosen, Ahead
<1>3. Public \subseteq Address
  BY FromSourceType DEF Public
<1>4. Covered(routes) = Public /\ Apart(routes)
  BY <1>1, <1>3, CollapsedCovers
<1>5. /\ Chosen(routes) \subseteq routes
      /\ Cardinality(Chosen(routes)) <= MaxRoutes
      /\ Cardinality(routes) <= MaxRoutes => Chosen(routes) = routes
      /\ \A p \in Chosen(routes), q \in routes \ Chosen(routes) : p.bits <= q.bits
  <2>1. Chosen(routes) \subseteq routes
    BY DEF Chosen
  <2>2. QED
    BY <1>1, <2>1, ChosenAreWidest
<1>6. Covered(Chosen(routes)) \subseteq Public /\ Apart(Chosen(routes))
  BY <1>4, <1>5 DEF Covered, Apart
<1>7. CidrTypeOK'
  BY <1>1, <1>2, <1>5, SourceStays DEF CidrTypeOK
<1>8. FromSource' = FromSource
  BY <1>2, SourceStays
<1>9. RoutesExact'
  BY <1>1, <1>2, <1>4, <1>5, <1>6, <1>8 DEF RoutesExact, Apart, Public
<1>10. QED
  BY <1>2, <1>7, <1>9, SourceStays DEF CidrInv

LEMMA CidrStep == CidrInv /\ [CidrNext]_cidrVars => CidrInv'
<1>1. CidrInv /\ UNCHANGED cidrVars => CidrInv'
  <2> SUFFICES ASSUME CidrInv, UNCHANGED cidrVars
               PROVE  CidrInv'
    OBVIOUS
  <2>1. source' = source /\ stage' = stage /\ routes' = routes
    BY DEF cidrVars
  <2>2. FromSource' = FromSource /\ Public' = Public
    BY <2>1, SourceStays
  <2>3. RoutesExact'
    BY <2>1, <2>2 DEF CidrInv, RoutesExact
  <2>4. QED
    BY <2>1, <2>2, <2>3 DEF CidrInv, CidrTypeOK
<1>2. QED
  BY <1>1, ReadKeeps, ExcludeKeeps, CheckListKeeps, MergeKeeps, ChooseKeeps DEF CidrNext

\* Every stage works on prefixes of the address space, blocks of ranges and halves of
\* prefixes included.
THEOREM CidrTypeCorrect == CidrSpec => []CidrTypeOK
<1>1. CidrInv => CidrTypeOK
  BY DEF CidrInv
<1>2. QED
  BY <1>1, CidrStart, CidrStep, PTL DEF CidrSpec

\* For addresses of any width and any list of special-use prefixes, the routes are exact.
THEOREM RoutesAreExact == CidrSpec => []RoutesExact
<1>1. CidrInv => RoutesExact
  BY DEF CidrInv
<1>2. QED
  BY <1>1, CidrStart, CidrStep, PTL DEF CidrSpec
=============================================================================
