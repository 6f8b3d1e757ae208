------------------------------ MODULE Accounts ------------------------------
(***************************************************************************)
(* AnyConnect nodes with their accounts: the import of a file another      *)
(* panel exported (internal/api/sync.go), next to the requests that        *)
(* create, change and delete an account with their rollback                *)
(* (internal/api/server.go, internal/nodes/anyconnect.go) and the deletion *)
(* of a node.  Each change of the store is a step of its own; an account   *)
(* of a file and its quota are two statements, of which the second fails.  *)
(***************************************************************************)
EXTENDS Integers, Sequences, FiniteSets, SequencesExt

CONSTANTS
    Vpn,           \* ids of AnyConnect nodes, here or in files
    Title,         \* names of nodes; two nodes may have one name
    User,          \* names of accounts
    Nobody,        \* no node, no account
    MaxFiles,      \* bound on imports
    MaxMixed,      \* bound on the items of a file whose import overlaps a request
    MaxChanges,    \* bound on requests for accounts and nodes
    MaxRefusals    \* bound on statements and Applies that fail

VARIABLES
    title,      \* the nodes' rows
    buried,     \* ids of deleted nodes, of which revisions remain
    account,    \* per node and name: password, quota, and whether its traffic is known
    deployed,   \* the accounts and the row each node was last applied with
    import,     \* the import in progress
    change,     \* the request in progress
    mixed,      \* an import and a request have overlapped
    files, requested, refusals

accountVars == <<title, buried, account, deployed, import, change, mixed, files, requested, refusals>>

Account == [password : {"old", "new", "file"}, quota : {0, 1, 2}, history : BOOLEAN]
Users == [User -> Account \cup {Nobody}]
NoUsers == [u \in User |-> Nobody]

\* An item of a file; a user without a quota comes from an older panel.
FileUser == [quota : {0, 2}]
Item == [id : Vpn, title : Title, users : [User -> FileUser \cup {Nobody}]]

ASSUME AccountsAssumption == Nobody \notin Vpn \cup Title /\ Nobody \notin Account /\ Nobody \notin FileUser

NoImport == [at |-> "none", file |-> <<>>, replace |-> FALSE, next |-> 1, local |-> <<>>,
             listed |-> NoUsers, left |-> {}, before |-> [v \in Vpn |-> NoUsers]]
NoChange == [at |-> "none", op |-> "create", node |-> Nobody, user |-> Nobody, old |-> Nobody,
             before |-> NoUsers]

AccountsTypeOK ==
    /\ title \in [Vpn -> Title \cup {Nobody}] /\ buried \subseteq Vpn
    /\ account \in [Vpn -> Users]
    /\ deployed \in [Vpn -> [title : Title \cup {Nobody}, users : Users]]
    /\ import.at \in {"none", "node", "list", "user", "prune", "apply", "taken"}
    /\ import.file \in Seq(Item) /\ import.local \in Seq(Vpn) /\ import.left \subseteq User
    /\ change.at \in {"none", "write", "apply", "undo", "reapply", "undone"}
    /\ mixed \in BOOLEAN /\ {files, requested, refusals} \subseteq Nat

There == {v \in Vpn : title[v] # Nobody}

\* A running node whose accounts have been in use for a while.
AccountsInit ==
    /\ title \in [Vpn -> Title \cup {Nobody}]
    /\ buried \in SUBSET (Vpn \ There)
    /\ account \in [Vpn -> [User -> {Nobody, [password |-> "old", quota |-> 1, history |-> TRUE]}]]
    /\ \A v \in Vpn \ There : account[v] = NoUsers
    /\ deployed = [v \in Vpn |-> [title |-> title[v], users |-> account[v]]]
    /\ import = NoImport /\ change = NoChange
    /\ mixed = FALSE /\ files = 0 /\ requested = 0 /\ refusals = 0

nodeRows == <<title, buried>>
bounds == <<mixed, files, requested>>

\* A statement fails for a reason of its own.
Refuse == refusals < MaxRefusals /\ refusals' = refusals + 1

-----------------------------------------------------------------------------
\* validateSyncPayload and nodesync.Validate have accepted the file, no port is taken,
\* and the backup is made.
BeginImport ==
    /\ import.at \in {"none", "taken"} /\ files < MaxFiles /\ files' = files + 1
    /\ \E file \in UNION {[1 .. n -> Item] : n \in 1 .. 2}, replace \in BOOLEAN :
        /\ \A k, l \in DOMAIN file : k # l => file[k].id # file[l].id
        /\ import' = [NoImport EXCEPT !.at = "node", !.file = file, !.replace = replace,
                                      !.before = account]
    /\ change' = IF change.at = "undone" THEN NoChange ELSE change
    /\ mixed' = (mixed \/ change.at \notin {"none", "undone"})
    /\ mixed' => Len(import'.file) <= MaxMixed
    /\ UNCHANGED <<nodeRows, account, deployed, requested, refusals>>

GiveUp == import' = NoImport

\* findSyncTarget: the id, then the name (of several the oldest, here any).
Targets(item) == IF item.id \in There THEN {item.id} ELSE {v \in There : title[v] = item.title}

\* The node of an item is updated, or created with its id, which fails when the id was
\* in use before.  All nodes come before all accounts.
ImportNode ==
    /\ import.at = "node" /\ import.next <= Len(import.file)
    /\ LET item == import.file[import.next]
       IN IF Targets(item) = {} /\ item.id \in buried
          THEN GiveUp /\ UNCHANGED title
          ELSE \E v \in IF Targets(item) = {} THEN {item.id} ELSE Targets(item) :
                 /\ title' = [title EXCEPT ![v] = item.title]
                 /\ import' = [import EXCEPT !.next = @ + 1, !.local = Append(@, v)]
    /\ UNCHANGED <<buried, account, deployed, change, bounds, refusals>>

NodesImported ==
    /\ import.at = "node" /\ import.next = Len(import.file) + 1
    /\ import' = [import EXCEPT !.at = "list", !.next = 1]
    /\ UNCHANGED <<nodeRows, account, deployed, change, bounds, refusals>>

This == import.local[import.next]
Wanted == import.file[import.next].users

\* The accounts there are, by name.
ListUsers ==
    /\ import.at = "list"
    /\ IF import.next <= Len(import.file)
       THEN import' = [import EXCEPT !.at = "user", !.listed = account[This],
                                     !.left = {u \in User : Wanted[u] # Nobody}]
       ELSE import' = [import EXCEPT !.at = "apply", !.next = 1]
    /\ UNCHANGED <<nodeRows, account, deployed, change, bounds, refusals>>

\* Mutant of Given: a file without quotas resets them.
GivenAlways(quota, u) == Wanted[u].quota

Given(quota, u) == IF Wanted[u].quota = 0 THEN quota ELSE Wanted[u].quota

Imported(a, u) ==
    IF a = Nobody THEN [password |-> "file", quota |-> Given(0, u), history |-> FALSE]
    ELSE [a EXCEPT !.password = "file", !.quota = Given(a.quota, u)]

\* The first of two statements, when the second fails.
WithoutQuota(a, u) == [Imported(a, u) EXCEPT !.quota = IF a = Nobody THEN 0 ELSE a.quota]

\* An account is updated if the list has it, else created; then its quota, if the file
\* has one, is set.  It fails when another request has deleted or created it meanwhile.
ImportUser ==
    /\ import.at = "user"
    /\ \E u \in import.left :
        LET fits == (import.listed[u] = Nobody) = (account[This][u] = Nobody) /\ This \in There
        IN \/ ~fits /\ GiveUp /\ UNCHANGED <<account, refusals>>
           \/ /\ fits /\ UNCHANGED refusals
              /\ import' = [import EXCEPT !.left = @ \ {u}]
              /\ account' = [account EXCEPT ![This][u] = Imported(@, u)]
           \/ /\ fits /\ Wanted[u].quota # 0 /\ Refuse /\ GiveUp
              /\ account' = [account EXCEPT ![This][u] = WithoutQuota(@, u)]
    /\ UNCHANGED <<nodeRows, deployed, change, bounds>>

UsersImported ==
    /\ import.at = "user" /\ import.left = {}
    /\ import' = IF import.replace
                 THEN [import EXCEPT !.at = "prune",
                           !.left = {u \in User : import.listed[u] # Nobody /\ Wanted[u] = Nobody}]
                 ELSE [import EXCEPT !.at = "list", !.next = @ + 1]
    /\ UNCHANGED <<nodeRows, account, deployed, change, bounds, refusals>>

\* Accounts the list has and the file has not are deleted.
PruneUser ==
    /\ import.at = "prune"
    /\ IF import.left = {}
       THEN import' = [import EXCEPT !.at = "list", !.next = @ + 1] /\ UNCHANGED account
       ELSE \E u \in import.left :
              IF account[This][u] = Nobody THEN GiveUp /\ UNCHANGED account
              ELSE /\ import' = [import EXCEPT !.left = @ \ {u}]
                   /\ account' = [account EXCEPT ![This][u] = Nobody]
    /\ UNCHANGED <<nodeRows, deployed, change, bounds, refusals>>

Deploy(v) == deployed' = [deployed EXCEPT ![v] = [title |-> title[v], users |-> account[v]]]

ImportApply ==
    /\ import.at = "apply"
    /\ IF import.next > Len(import.file)
       THEN import' = [import EXCEPT !.at = "taken"] /\ UNCHANGED deployed
       ELSE IF This \in There
            THEN Deploy(This) /\ import' = [import EXCEPT !.next = @ + 1]
            ELSE GiveUp /\ UNCHANGED deployed
    /\ UNCHANGED <<nodeRows, account, change, bounds, refusals>>

\* Any statement of the import fails: what was changed before stays changed.
ImportFails ==
    /\ import.at \notin {"none", "taken"}
    /\ Refuse /\ GiveUp
    /\ UNCHANGED <<nodeRows, account, deployed, change, bounds>>

-----------------------------------------------------------------------------
\* A request for an account reads it first.
BeginChange ==
    /\ change.at \in {"none", "undone"} /\ requested < MaxChanges /\ requested' = requested + 1
    /\ \E op \in {"create", "update", "delete"}, v \in There, u \in User :
        /\ op # "create" => account[v][u] # Nobody
        /\ change' = [NoChange EXCEPT !.at = "write", !.op = op, !.node = v, !.user = u,
                                      !.old = account[v][u], !.before = account[v]]
    /\ import' = IF import.at = "taken" THEN NoImport ELSE import
    /\ mixed' = (mixed \/ import.at \notin {"none", "taken"})
    /\ mixed' => Len(import.file) <= MaxMixed
    /\ UNCHANGED <<nodeRows, account, deployed, files, refusals>>

Here == account[change.node][change.user]

Store(value) == account' = [account EXCEPT ![change.node][change.user] = value]

New(password) == [password |-> password, quota |-> 0, history |-> FALSE]

\* The account must still be there, or, to create one, not be there.
WriteChange ==
    /\ change.at = "write"
    /\ IF (Here = Nobody) = (change.op = "create") /\ change.node \in There
       THEN /\ change' = [change EXCEPT !.at = "apply"]
            /\ Store(CASE change.op = "create" -> New("new")
                       [] change.op = "update" -> [Here EXCEPT !.password = "new"]
                       [] change.op = "delete" -> Nobody)
       ELSE change' = NoChange /\ UNCHANGED account
    /\ UNCHANGED <<nodeRows, deployed, import, bounds, refusals>>

ApplyChange ==
    /\ change.at = "apply"
    /\ \/ change.node \in There /\ Deploy(change.node) /\ change' = NoChange /\ UNCHANGED refusals
       \/ /\ IF change.node \in There THEN Refuse ELSE UNCHANGED refusals
          /\ change' = [change EXCEPT !.at = "undo"] /\ UNCHANGED deployed
    /\ UNCHANGED <<nodeRows, account, import, bounds>>

\* Mutant of Undone: an update is not undone.
UndoneNot == IF change.op = "create" THEN Nobody ELSE Here

\* A deleted account is created again, without its quota and its traffic.
Undone ==
    CASE change.op = "create" -> Nobody
      [] change.op = "update" -> IF Here = Nobody THEN Nobody ELSE [Here EXCEPT !.password = change.old.password]
      [] change.op = "delete" -> IF Here = Nobody THEN New(change.old.password) ELSE Here

\* Its error is dropped; the request's context may have been cancelled.
UndoChange ==
    /\ change.at = "undo"
    /\ change' = [change EXCEPT !.at = "reapply"]
    /\ \/ change.node \in There /\ Store(Undone) /\ UNCHANGED refusals
       \/ (IF change.node \in There THEN Refuse ELSE UNCHANGED refusals) /\ UNCHANGED account
    /\ UNCHANGED <<nodeRows, deployed, import, bounds>>

\* The outcome of the second Apply is ignored.
Reapply ==
    /\ change.at = "reapply"
    /\ change' = [change EXCEPT !.at = "undone"]
    /\ \/ change.node \in There /\ Deploy(change.node) /\ UNCHANGED refusals
       \/ (IF change.node \in There THEN Refuse ELSE UNCHANGED refusals) /\ UNCHANGED deployed
    /\ UNCHANGED <<nodeRows, account, import, bounds>>

\* deleteNode: the files, then the row; accounts go with the row, revisions stay.
DeleteVpn ==
    /\ change.at \in {"none", "undone"} /\ requested < MaxChanges /\ requested' = requested + 1
    /\ \E v \in There :
        /\ title' = [title EXCEPT ![v] = Nobody]
        /\ buried' = buried \cup {v}
        /\ account' = [account EXCEPT ![v] = NoUsers]
        /\ deployed' = [deployed EXCEPT ![v] = [title |-> Nobody, users |-> NoUsers]]
    /\ change' = NoChange
    /\ import' = IF import.at = "taken" THEN NoImport ELSE import
    /\ mixed' = (mixed \/ import.at \notin {"none", "taken"})
    /\ mixed' => Len(import.file) <= MaxMixed
    /\ UNCHANGED <<files, refusals>>

AccountsNext ==
    \/ BeginImport \/ ImportNode \/ NodesImported \/ ListUsers \/ ImportUser \/ UsersImported
    \/ PruneUser \/ ImportApply \/ ImportFails
    \/ BeginChange \/ WriteChange \/ ApplyChange \/ UndoChange \/ Reapply \/ DeleteVpn

AccountsSpec == AccountsInit /\ [][AccountsNext]_accountVars

-----------------------------------------------------------------------------
InUse(v) == deployed[v] = [title |-> title[v], users |-> account[v]]

Merged(item, v) ==
    /\ title[v] = item.title /\ InUse(v)
    /\ \A u \in User :
        LET was == import.before[v][u]
            wanted == item.users[u]
        IN account[v][u] =
            IF wanted = Nobody THEN IF import.replace THEN Nobody ELSE was
            ELSE [password |-> "file", history |-> was # Nobody /\ was.history,
                  quota |-> IF wanted.quota # 0 THEN wanted.quota
                            ELSE IF was = Nobody THEN 0 ELSE was.quota]

\* An import that reports success has merged the file, whatever an import that failed
\* before has left: each node has the row and the accounts of its item, a quota the file
\* does not give and the traffic of an account that was there are kept, accounts the
\* file has not are deleted only on request, and other nodes are untouched.  Not so for
\* two items that lead to one node: the second by its name to the node of the first.
\* What is stored is also in use, although requests for accounts of the same node come
\* between its steps.
ImportTaken ==
    import.at = "taken" =>
        /\ change.at = "none" /\ refusals = 0 => \A v \in ToSet(import.local) \cap There : InUse(v)
        /\ ~mixed /\ IsInjective(import.local) =>
            /\ \A k \in DOMAIN import.file : Merged(import.file[k], import.local[k])
            /\ \A v \in Vpn \ ToSet(import.local) : account[v] = import.before[v]

\* A request whose Apply failed leaves every other account of the node as it was, and its
\* own with the password it had, or absent as it was; only an account that should have
\* been deleted comes back without its quota and its traffic.  What the request stored
\* stays only where the statement that undoes it failed as well, and while no second
\* failure comes the accounts are also in use.
ChangeUndone ==
    change.at = "undone" /\ ~mixed =>
        LET was == change.before[change.user]
            mine == account[change.node][change.user]
        IN /\ \A u \in User \ {change.user} : account[change.node][u] = change.before[u]
           /\ \/ mine = IF change.op = "delete" THEN New(was.password) ELSE was
              \/ /\ refusals >= 2
                 /\ mine = CASE change.op = "create" -> New("new")
                             [] change.op = "update" -> [was EXCEPT !.password = "new"]
                             [] change.op = "delete" -> Nobody
           /\ refusals <= 1 => deployed[change.node].users = account[change.node]
=============================================================================
