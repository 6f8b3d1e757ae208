------------------------------- MODULE Upgrade -------------------------------
(***************************************************************************)
(* Installing one version of one runtime (internal/runtime/install.go) and *)
(* moving the nodes to it (applyRuntimeToNodes of internal/api).  The      *)
(* agent runs each call in a goroutine of its own, and all installs of the *)
(* version write the same paths: a file is named here by the install that  *)
(* wrote it, whatever path it has meanwhile.                               *)
(***************************************************************************)
EXTENDS Integers, FiniteSets

CONSTANTS
    Install,       \* installs of the version; each runs once
    Existing,      \* a binary of the version that is there already
    Absent,        \* no file
    Member,        \* nodes of the runtime's type
    MaxNodeEdits,  \* bound on edits of nodes
    MaxSetbacks    \* bound on failed steps and deaths

ASSUME UpgradeAssumption ==
    /\ Existing \notin Install /\ Absent \notin Install /\ Existing # Absent
    /\ MaxNodeEdits \in Nat /\ MaxSetbacks \in Nat

VARIABLES
    path,      \* the files at candidate, target and target.previous
    complete,  \* files written to the end
    record,    \* the install the checksum record names
    step,      \* where each install is
    seen,      \* the rows its list of nodes has shown it
    todo,      \* nodes it has still to move
    changed,   \* nodes it has moved
    row,       \* the rows of the nodes: version and edits
    runs,      \* the version each node runs
    alone,     \* no two installs, and no edit and install, have overlapped
    nodeEdits, setbacks, halts

upgradeVars == <<path, complete, record, step, seen, todo, changed, row, runs, alone,
                 nodeEdits, setbacks, halts>>

File == Install \cup {Existing, Absent}
NodeRow == [new: BOOLEAN, edit: 0 .. MaxNodeEdits]

UpgradeTypeOK ==
    /\ path \in [candidate: File, target: File, previous: File]
    /\ complete \subseteq File /\ record \in File
    /\ step \in [Install -> {"idle", "clear", "create", "write", "save", "place", "record",
                             "list", "update", "apply", "undo", "done"}]
    /\ seen \in [Install -> [Member -> NodeRow]]
    /\ todo \in [Install -> SUBSET Member] /\ changed \in [Install -> SUBSET Member]
    /\ row \in [Member -> NodeRow]
    /\ runs \in [Member -> BOOLEAN]
    /\ alone \in BOOLEAN
    /\ nodeEdits \in Nat /\ setbacks \in Nat /\ halts \in Nat

UpgradeInit ==
    /\ \E f \in {Existing, Absent} : path = [candidate |-> Absent, target |-> f, previous |-> Absent]
    /\ complete = {Existing} /\ record = path.target
    /\ step = [i \in Install |-> "idle"]
    /\ row = [m \in Member |-> [new |-> FALSE, edit |-> 0]]
    /\ seen = [i \in Install |-> row]
    /\ todo = [i \in Install |-> {}] /\ changed = todo
    /\ runs = [m \in Member |-> FALSE]
    /\ alone = TRUE
    /\ nodeEdits = 0 /\ setbacks = 0 /\ halts = 0

Busy == {i \in Install : step[i] \notin {"idle", "done"}}

nodeVars == <<seen, todo, changed, row, runs>>
fileVars == <<path, complete, record>>

At(i, from, to) == step[i] = from /\ step' = [step EXCEPT ![i] = to]

Calm == UNCHANGED <<alone, nodeEdits, setbacks, halts>>

-----------------------------------------------------------------------------
\* The download or the upload has the expected checksum.
Accept(i) ==
    /\ At(i, "idle", "clear")
    /\ alone' = (alone /\ Busy = {})
    /\ UNCHANGED <<path, complete, record, nodeVars, nodeEdits, setbacks, halts>>

ClearCandidate(i) ==
    /\ At(i, "clear", "create")
    /\ path' = [path EXCEPT !.candidate = Absent]
    /\ UNCHANGED <<complete, record, nodeVars>> /\ Calm

\* When InstallUploaded returns it removes the candidate, whoever wrote it; Install does not.
Deferred == path' \in {path, [path EXCEPT !.candidate = Absent]}

Return(i) == step' = [step EXCEPT ![i] = "done"] /\ Deferred

\* The candidate must not exist.
CreateCandidate(i) ==
    /\ IF path.candidate = Absent
       THEN At(i, "create", "write") /\ path' = [path EXCEPT !.candidate = i]
       ELSE step[i] = "create" /\ Return(i)
    /\ UNCHANGED <<complete, record, nodeVars>> /\ Calm

\* The rest of the file is written, even when the path leads to another file by now.
WriteCandidate(i) ==
    /\ At(i, "write", "save")
    /\ complete' = complete \cup {i}
    /\ UNCHANGED <<path, record, nodeVars>> /\ Calm

\* Mutant of Saved: the old binary is removed.
SavedNot == [path EXCEPT !.target = Absent]

Saved == IF path.target = Absent THEN path ELSE [path EXCEPT !.previous = path.target, !.target = Absent]

\* Whether it succeeds is not looked at.
SavePrevious(i) ==
    /\ At(i, "save", "place")
    /\ \/ path' = Saved /\ UNCHANGED setbacks
       \/ setbacks < MaxSetbacks /\ setbacks' = setbacks + 1 /\ UNCHANGED path
    /\ UNCHANGED <<complete, record, nodeVars, alone, nodeEdits, halts>>

PlaceTarget(i) ==
    /\ IF path.candidate # Absent
       THEN /\ At(i, "place", "record")
            /\ path' = [path EXCEPT !.target = path.candidate, !.candidate = Absent]
       ELSE step[i] = "place" /\ Return(i)
    /\ UNCHANGED <<complete, record, nodeVars>> /\ Calm

WriteRecord(i) ==
    /\ At(i, "record", "list")
    /\ record' = i
    /\ Deferred
    /\ UNCHANGED <<complete, nodeVars>> /\ Calm

-----------------------------------------------------------------------------
ListNodes(i) ==
    /\ At(i, "list", "update")
    /\ seen' = [seen EXCEPT ![i] = row]
    /\ todo' = [todo EXCEPT ![i] = {m \in Member : ~row[m].new}]
    /\ UNCHANGED <<changed, row, runs, fileVars>> /\ Calm

\* Store.Update with everything as the list has shown it, and the new version.
UpdateNodeTo(i, m) ==
    /\ At(i, "update", "apply") /\ m \in todo[i]
    /\ changed' = [changed EXCEPT ![i] = @ \cup {m}]
    /\ row' = [row EXCEPT ![m] = [seen[i][m] EXCEPT !.new = TRUE]]
    /\ UNCHANGED <<seen, todo, runs, fileVars>> /\ Calm

\* Manager.Apply of the node just moved, which must find the binary.
ApplyNew(i, m) ==
    /\ At(i, "apply", "update") /\ m \in todo[i] \cap changed[i]
    /\ path.target # Absent
    /\ todo' = [todo EXCEPT ![i] = @ \ {m}]
    /\ runs' = [runs EXCEPT ![m] = row[m].new]
    /\ UNCHANGED <<seen, changed, row, fileVars>> /\ Calm

\* Mutant of Withdrawn: the node that failed keeps its row.
WithdrawnOthers(i, m) == IF m \in todo[i] THEN row[m] ELSE seen[i][m]

\* A rollback writes the row the list has shown.
Withdrawn(i, m) == seen[i][m]

UndoNode(i, m) ==
    /\ step[i] = "undo" /\ m \in changed[i]
    /\ changed' = [changed EXCEPT ![i] = @ \ {m}]
    /\ row' = [row EXCEPT ![m] = Withdrawn(i, m)]
    /\ runs' = [runs EXCEPT ![m] = Withdrawn(i, m).new]
    /\ UNCHANGED <<step, seen, todo, fileVars>> /\ Calm

EndUpgrade(i) ==
    /\ \/ step[i] = "update" /\ todo[i] = {}
       \/ step[i] = "undo" /\ changed[i] = {}
    /\ step' = [step EXCEPT ![i] = "done"]
    /\ UNCHANGED <<fileVars, nodeVars>> /\ Calm

-----------------------------------------------------------------------------
\* A step of an install fails.  A file that cannot be written or placed is given up;
\* what was saved before stays saved.
FailInstall(i) ==
    /\ step[i] \in {"clear", "create", "write", "place", "record"}
    /\ setbacks < MaxSetbacks /\ setbacks' = setbacks + 1
    /\ Return(i)
    /\ UNCHANGED <<complete, record, nodeVars, alone, nodeEdits, halts>>

\* The list, an update or an Apply fails, or the binary is missing: undo what was changed.
FailNode(i) ==
    /\ step[i] \in {"list", "update", "apply"}
    /\ setbacks < MaxSetbacks /\ setbacks' = setbacks + 1
    /\ step' = [step EXCEPT ![i] = "undo"]
    /\ UNCHANGED <<nodeVars, fileVars, alone, nodeEdits, halts>>

\* The container dies: nothing is undone, and the candidate stays where it is.
Halt ==
    /\ Busy # {} /\ setbacks < MaxSetbacks
    /\ setbacks' = setbacks + 1 /\ halts' = halts + 1
    /\ step' = [i \in Install |-> IF i \in Busy THEN "done" ELSE step[i]]
    /\ runs' = [m \in Member |-> row[m].new]
    /\ UNCHANGED <<seen, todo, changed, row, fileVars, alone, nodeEdits>>

EditNode(m) ==
    /\ nodeEdits < MaxNodeEdits /\ nodeEdits' = nodeEdits + 1
    /\ row' = [row EXCEPT ![m].edit = nodeEdits + 1]
    /\ alone' = (alone /\ \A i \in Busy : step[i] \notin {"update", "apply", "undo"})
    /\ UNCHANGED <<fileVars, step, seen, todo, changed, runs, setbacks, halts>>

UpgradeNext ==
    \/ \E i \in Install :
        \/ Accept(i) \/ ClearCandidate(i) \/ CreateCandidate(i) \/ WriteCandidate(i)
        \/ SavePrevious(i) \/ PlaceTarget(i) \/ WriteRecord(i) \/ ListNodes(i)
        \/ \E m \in Member : UpdateNodeTo(i, m) \/ ApplyNew(i, m) \/ UndoNode(i, m)
        \/ EndUpgrade(i) \/ FailInstall(i) \/ FailNode(i)
    \/ Halt
    \/ \E m \in Member : EditNode(m)

UpgradeSpec == UpgradeInit /\ [][UpgradeNext]_upgradeVars

-----------------------------------------------------------------------------
\* A binary that was there is never lost, wherever an install fails or the container
\* dies: target or target.previous is a complete file.  Not so for two installs of one
\* version at once, which move each other's files.
BinaryKept ==
    alone /\ record # Absent =>
        /\ path.target # Absent => path.target \in complete
        /\ path.target = Absent => path.previous \in complete \ {Absent}

\* Either every node of the type moves to the new version or none does, and what a node
\* runs is what its row says, wherever the one failing step is.
NodesMoveTogether ==
    alone /\ Busy = {} /\ halts = 0 /\ setbacks <= 1 =>
        /\ \A m, n \in Member : row[m].new = row[n].new
        /\ \A m \in Member : runs[m] = row[m].new
=============================================================================
