------------------------------- MODULE Backup -------------------------------
(***************************************************************************)
(* Backups of the database and the data directories                        *)
(* (internal/backup/backup.go), their hourly pruning and the restore       *)
(* request of internal/api/server.go.  Data is abstracted to the version   *)
(* it is of: database, config/ and anyconnect/ belong together when their  *)
(* versions are the same.  Each rename, each database transaction and each *)
(* archive is a step; any may fail, and the panel may die between two.     *)
(***************************************************************************)
EXTENDS Integers, FiniteSets

CONSTANTS
    Worker,       \* requests in progress
    KeepBackups,  \* backups that pruning keeps: 2 in the code
    MaxArchives,  \* bound on backups ever made
    MaxEdits,     \* bound on edits of the data
    MaxMishaps    \* bound on failed steps and deaths of the panel

ASSUME BackupAssumption ==
    /\ KeepBackups \in Nat \ {0} /\ MaxArchives \in Nat
    /\ MaxEdits \in Nat /\ MaxMishaps \in Nat

VARIABLES
    data,      \* the live database and directories
    aside,     \* config-before-restore and anyconnect-before-restore
    archive,   \* the backups, in the order of their registration
    pruning,   \* the backups that the pruning in progress has still to remove
    job,       \* what each request is in the middle of
    active,    \* the nodes run
    pre,       \* the backup taken first by the last restore that found the data whole
    disturbed, \* more happened to the data than edits and single restores of whole backups,
               \* or the backup pre was deleted
    edits, mishaps, deaths

backupVars == <<data, aside, archive, pruning, job, active, pre, disturbed, edits, mishaps, deaths>>

\* No directory, or an empty one.
Gone == -1
Version == -1 .. MaxEdits
Data == [db: Version, conf: Version, any: Version]
NoData == [db |-> Gone, conf |-> Gone, any |-> Gone]

\* A backup: its row in the table backups, its file and what the file holds.
Archive == [row: BOOLEAN, file: BOOLEAN, snap: Data]

Job == [pc: {"idle", "files", "register", "check", "clear", "moveConf", "putConf", "moveAny",
             "putAny", "load", "tidy"},
        restores: BOOLEAN, id: 0 .. MaxArchives, db: Version, snap: Data]

NoJob == [pc |-> "idle", restores |-> FALSE, id |-> 0, db |-> 0, snap |-> NoData]

BackupTypeOK ==
    /\ data \in Data
    /\ aside \in [conf: Version, any: Version]
    /\ \E n \in 0 .. MaxArchives : archive \in [1 .. n -> Archive]
    /\ pruning \in SUBSET (1 .. MaxArchives)
    /\ job \in [Worker -> Job]
    /\ active \in BOOLEAN /\ disturbed \in BOOLEAN
    /\ pre \in 0 .. MaxArchives
    /\ edits \in Nat /\ mishaps \in Nat /\ deaths \in Nat

BackupInit ==
    /\ data = [db |-> 0, conf |-> 0, any |-> 0]
    /\ aside = [conf |-> Gone, any |-> Gone]
    /\ archive = << >> /\ pruning = {}
    /\ job = [w \in Worker |-> NoJob]
    /\ active = TRUE /\ pre = 0 /\ disturbed = FALSE
    /\ edits = 0 /\ mishaps = 0 /\ deaths = 0

Made == DOMAIN archive
Listed == {n \in Made : archive[n].row}
Whole(d) == d.db = d.conf /\ d.conf = d.any /\ d.db # Gone
NoJobs == \A w \in Worker : job[w].pc = "idle"
Making == {w \in Worker : job[w].pc \in {"files", "register"}}
Restoring == \E w \in Worker : job[w].restores

-----------------------------------------------------------------------------
\* Somebody edits nodes, which writes the database and the files.
EditData ==
    /\ edits < MaxEdits /\ Whole(data) /\ edits' = edits + 1
    /\ data' = [db |-> edits + 1, conf |-> edits + 1, any |-> edits + 1]
    /\ disturbed' = (disturbed \/ ~NoJobs)
    /\ UNCHANGED <<aside, archive, pruning, job, active, pre, mishaps, deaths>>

\* VACUUM INTO; a restore stops every node first.  What disturbed restores leave is
\* not followed further.
StartJob(w) ==
    \E id \in {0} \cup Made :
        /\ job[w].pc = "idle" /\ ~disturbed /\ Cardinality(Made) + Cardinality(Making) < MaxArchives
        /\ job' = [job EXCEPT ![w] = [NoJob EXCEPT !.pc = "files", !.restores = id # 0,
                                                   !.id = id, !.db = data.db]]
        /\ active' = (active /\ id = 0)
        /\ disturbed' = (disturbed \/ (id # 0 /\ (Restoring \/ ~Whole(archive[id].snap))))
        /\ UNCHANGED <<data, aside, archive, pruning, pre, edits, mishaps, deaths>>

\* A step that succeeds goes on to pc.
On(w, from, pc) ==
    /\ job[w].pc = from
    /\ job' = [job EXCEPT ![w].pc = pc]
    /\ UNCHANGED <<archive, pruning, pre, active, disturbed, edits, mishaps, deaths>>

\* The directories are added to the snapshot of the database.
ArchiveFiles(w) ==
    /\ job[w].pc = "files"
    /\ job' = [job EXCEPT ![w].pc = "register", ![w].snap = [data EXCEPT !.db = job[w].db]]
    /\ UNCHANGED <<data, aside, archive, pruning, active, pre, disturbed, edits, mishaps, deaths>>

\* The backup is dated and its row inserted; before, nothing but its request knows the
\* file.
Register(w) ==
    /\ job[w].pc = "register"
    /\ LET n == Cardinality(Made) + 1 IN
       /\ n <= MaxArchives
       /\ archive' = [i \in 1 .. n |-> IF i < n THEN archive[i]
                                       ELSE [row |-> TRUE, file |-> TRUE, snap |-> job[w].snap]]
       /\ pre' = IF job[w].restores /\ Whole(data) THEN n ELSE pre
    /\ job' = [job EXCEPT ![w] = IF @.restores THEN [@ EXCEPT !.pc = "check", !.snap = NoData] ELSE NoJob]
    /\ UNCHANGED <<data, aside, pruning, active, disturbed, edits, mishaps, deaths>>

\* Leaves a restore: the error is reported and the nodes stay stopped.
Abandon(w) == job' = [job EXCEPT ![w] = NoJob]

\* The archive may have been pruned by the backup the restore itself has made.
CheckArchive(w) ==
    /\ job[w].pc = "check"
    /\ LET id == job[w].id IN
       IF archive[id].row /\ archive[id].file
       THEN job' = [job EXCEPT ![w].pc = "clear", ![w].snap = archive[id].snap]
       ELSE Abandon(w)
    /\ UNCHANGED <<data, aside, archive, pruning, active, pre, disturbed, edits, mishaps, deaths>>

ClearAside(w) ==
    /\ On(w, "clear", "moveConf")
    /\ aside' = [conf |-> Gone, any |-> Gone]
    /\ UNCHANGED data

MoveConfig(w) ==
    /\ On(w, "moveConf", "putConf")
    /\ aside' = [aside EXCEPT !.conf = data.conf] /\ data' = [data EXCEPT !.conf = Gone]

PutConfig(w) ==
    /\ On(w, "putConf", "moveAny")
    /\ data' = [data EXCEPT !.conf = job[w].snap.conf]
    /\ UNCHANGED aside

MoveAnyConnect(w) ==
    /\ On(w, "moveAny", "putAny")
    /\ aside' = [aside EXCEPT !.any = data.any] /\ data' = [data EXCEPT !.any = Gone]

PutAnyConnect(w) ==
    /\ On(w, "putAny", "load")
    /\ data' = [data EXCEPT !.any = job[w].snap.any]
    /\ UNCHANGED aside

\* restoreDatabase is one transaction; the table backups is not part of it.
LoadDatabase(w) ==
    /\ On(w, "load", "tidy")
    /\ data' = [data EXCEPT !.db = job[w].snap.db]
    /\ UNCHANGED aside

\* The handler then applies every node that is to run.
Tidy(w) ==
    /\ job[w].pc = "tidy"
    /\ aside' = [conf |-> Gone, any |-> Gone]
    /\ Abandon(w) /\ active' = TRUE
    /\ UNCHANGED <<data, archive, pruning, pre, disturbed, edits, mishaps, deaths>>

\* Mutant of Undo: of the directories only config/ is put back.
UndoConfig(pc) ==
    IF pc \in {"putConf", "moveAny", "putAny", "load"}
    THEN [data EXCEPT !.conf = aside.conf] ELSE data

\* What the error paths of Restore make of the directories: a rename of what is not
\* there fails, and its error is ignored.
Undo(pc) ==
    LET conf == IF pc \in {"putConf", "moveAny", "putAny", "load"} THEN aside.conf ELSE data.conf
        any == IF pc \in {"putAny", "load"} THEN aside.any ELSE data.any
    IN [data EXCEPT !.conf = conf, !.any = any]

\* A failed archive is removed; one that could not be registered stays behind as a file.
FailJob(w) ==
    /\ job[w].pc \notin {"idle", "tidy"} /\ mishaps < MaxMishaps
    /\ mishaps' = mishaps + 1
    /\ data' = Undo(job[w].pc)
    /\ Abandon(w)
    /\ UNCHANGED <<aside, archive, pruning, active, pre, disturbed, edits, deaths>>

\* The panel dies; what is aside is never looked at again, and the nodes are started
\* with what the directories hold.
DiePanel ==
    /\ (~NoJobs \/ pruning # {}) /\ mishaps < MaxMishaps
    /\ mishaps' = mishaps + 1 /\ deaths' = deaths + 1
    /\ job' = [w \in Worker |-> NoJob] /\ pruning' = {} /\ active' = TRUE
    /\ UNCHANGED <<data, aside, archive, pre, disturbed, edits>>

-----------------------------------------------------------------------------
Newer(n) == {m \in Listed : m > n}

\* Mutant of Prunable: the oldest are kept.
PrunableNewest(n) == Cardinality({m \in Listed : m < n}) >= KeepBackups

Prunable(n) == Cardinality(Newer(n)) >= KeepBackups

\* The hourly maintenance lists the backups once, and removes what it has listed.
PruneList ==
    /\ pruning = {} /\ ~disturbed
    /\ pruning' = {n \in Listed : Prunable(n)}
    /\ UNCHANGED <<data, aside, archive, job, active, pre, disturbed, edits, mishaps, deaths>>

RemoveArchive(n) ==
    /\ archive' = [archive EXCEPT ![n].row = FALSE, ![n].file = FALSE]
    /\ UNCHANGED <<data, aside, job, active, pre, edits, mishaps, deaths>>

\* The newest first; somebody may have deleted it meanwhile.
Prune ==
    /\ \E n \in pruning :
        /\ \A m \in pruning : m <= n
        /\ RemoveArchive(n) /\ pruning' = pruning \ {n}
    /\ UNCHANGED disturbed

\* A file or a row that cannot be removed ends the pruning.
FailPrune ==
    /\ pruning # {} /\ mishaps < MaxMishaps
    /\ mishaps' = mishaps + 1 /\ pruning' = {}
    /\ UNCHANGED <<data, aside, archive, job, active, pre, disturbed, edits, deaths>>

DeleteBackup ==
    \E n \in Listed :
        /\ RemoveArchive(n) /\ UNCHANGED pruning
        /\ disturbed' = (disturbed \/ n = pre)

BackupNext ==
    \/ EditData \/ PruneList \/ Prune \/ FailPrune \/ DeleteBackup \/ DiePanel
    \/ \E w \in Worker :
        \/ StartJob(w) \/ ArchiveFiles(w) \/ Register(w) \/ CheckArchive(w) \/ ClearAside(w)
        \/ MoveConfig(w) \/ PutConfig(w) \/ MoveAnyConnect(w) \/ PutAnyConnect(w)
        \/ LoadDatabase(w) \/ Tidy(w) \/ FailJob(w)

BackupSpec == BackupInit /\ [][BackupNext]_backupVars

-----------------------------------------------------------------------------
\* A restore replaces database and directories together or not at all, wherever its
\* one failing step is, unless the panel dies or other requests come between.
RestoreAtomic == ~Restoring /\ ~disturbed /\ deaths = 0 /\ mishaps <= 1 => Whole(data)

\* Whatever restores leave behind, also when the panel dies between two renames, the
\* backup taken first by the one that found the data whole is listed, complete and whole,
\* until KeepBackups newer ones have been made or somebody deletes it.
RestorePrepared ==
    ~disturbed /\ ~Whole(data) /\ Cardinality(Made) - pre < KeepBackups
    => pre # 0 /\ archive[pre].row /\ archive[pre].file /\ Whole(archive[pre].snap)
=============================================================================
