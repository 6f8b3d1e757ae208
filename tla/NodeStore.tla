------------------------------ MODULE NodeStore ------------------------------
(***************************************************************************)
(* The tables nodes, node_configs and config_revisions, and the reads and  *)
(* transactions of internal/nodes/store.go on them.  SQLite makes each     *)
(* statement and each transaction atomic and enforces the foreign key of   *)
(* backend_node_id, the unique listeners of one type and the unique        *)
(* revisions of one node; everything else is checked by statements of      *)
(* their own, which other requests may follow before the transaction.      *)
(***************************************************************************)
EXTENDS Integers, FiniteSets

CONSTANTS
    Id,            \* nodes that may exist
    Type,          \* the type of each; a uuid is not used for two types
    Endpoint,      \* where a node may listen: host, port, networks, addresses of its VPN pool
    Name,          \* the name of a node and, with it, the rest of its configuration
    None,          \* no node, no backend
    AnyHost,       \* 0.0.0.0 or ::
    KeepRevisions, \* revisions of a node that maintenance keeps: 20 in the code
    MaxRevision    \* bound on revisions

Front == {i \in Id : Type[i] = "shadowtls"}
Service == {i \in Id : Type[i] \in {"snell", "ss2022"}}

Row == [ep: Endpoint, backend: Id \cup {None}, name: Name, rev: Nat]

ASSUME NodeStoreAssumption ==
    /\ Type \in [Id -> {"snell", "ss2022", "shadowtls", "anyconnect"}]
    /\ None \notin Id /\ None \notin Row
    /\ \A e \in Endpoint : DOMAIN e = {"host", "port", "nets", "pool"} /\ e.port \in Nat
    /\ KeepRevisions \in Nat \ {0} /\ MaxRevision \in Nat

VARIABLES
    node,       \* nodes joined with node_configs
    revisions   \* config_revisions; rows outlive their node

storeVars == <<node, revisions>>

StoreTypeOK ==
    /\ node \in [Id -> Row \cup {None}]
    /\ revisions \in [Id -> SUBSET [rev: Nat, name: Name]]

Live == {i \in Id : node[i] # None}

\* Two listeners, or two VPN address pools, that cannot exist side by side.
Clash(e, f) ==
    \/ /\ e.port = f.port
       /\ e.host = f.host \/ AnyHost \in {e.host, f.host}
       /\ e.nets \cap f.nets # {}
    \/ e.pool \cap f.pool # {}

\* Mutant of Conflict: only the same host conflicts.
ConflictSameHost(i, ep) ==
    \E j \in Live \ {i} : node[j].ep.host = ep.host /\ Clash(node[j].ep, ep)

Conflict(i, ep) == \E j \in Live \ {i} : Clash(node[j].ep, ep)

BackendOK(i, backend) ==
    IF i \in Front THEN backend \in Live \cap Service ELSE backend = None

\* Mutant of Foreign: the constraint is off.
ForeignIgnored(backend) == TRUE

\* The constraints a transaction of SQLite meets.
Foreign(backend) == backend = None \/ backend \in Live

Unique(i, ep) ==
    \A j \in Live \ {i} : Type[j] = Type[i] => <<node[j].ep.host, node[j].ep.port>> # <<ep.host, ep.port>>

\* Mutant of NewRevision: a revision may be written twice.
NewRevisionAlways(i, rev) == TRUE

NewRevision(i, rev) == \A r \in revisions[i] : r.rev # rev

Inserts(i, ep, backend) ==
    node[i] = None /\ Unique(i, ep) /\ Foreign(backend) /\ NewRevision(i, 1)

Insert(i, ep, backend, name) ==
    /\ node' = [node EXCEPT ![i] = [ep |-> ep, backend |-> backend, name |-> name, rev |-> 1]]
    /\ revisions' = [revisions EXCEPT ![i] = @ \cup {[rev |-> 1, name |-> name]}]

Updates(i, ep, backend, rev) == Unique(i, ep) /\ Foreign(backend) /\ NewRevision(i, rev)

\* config_revisions names no node, so updating a deleted node leaves a revision behind.
Update(i, ep, backend, name, rev) ==
    /\ node' = [node EXCEPT ![i] =
                    IF @ = None THEN None
                    ELSE [ep |-> ep, backend |-> backend, name |-> name, rev |-> rev]]
    /\ revisions' = [revisions EXCEPT ![i] = @ \cup {[rev |-> rev, name |-> name]}]

Referenced(i) == \E j \in Live : node[j].backend = i

Remove(i) ==
    /\ node' = [node EXCEPT ![i] = None]
    /\ UNCHANGED revisions

\* Mutant of Kept: the oldest revisions are kept.
KeptOldest(i) ==
    {r \in revisions[i] : Cardinality({s \in revisions[i] : s.rev < r.rev}) < KeepRevisions}

\* Maintenance: the newest revisions of each node.
Kept(i) ==
    {r \in revisions[i] : Cardinality({s \in revisions[i] : s.rev > r.rev}) < KeepRevisions}

TrimRevisions ==
    /\ revisions' = [i \in Id |-> Kept(i)]
    /\ UNCHANGED node

-----------------------------------------------------------------------------
(* What the tables promise, whoever writes them.                            *)

\* Every ShadowTLS node has a backend that exists and speaks Snell or SS-2022,
\* although backends are deleted by other requests between the check of
\* Store.checkBackend and the transaction.
BackendServes == \A f \in Front \cap Live : node[f].backend \in Live \cap Service

\* The revision a node is at is in its history with the configuration it has,
\* once, and is the newest there: concurrent updates, rollbacks and maintenance
\* neither lose it, nor write one revision twice, nor get ahead of the node.
RevisionRecorded ==
    \A i \in Live :
        /\ [rev |-> node[i].rev, name |-> node[i].name] \in revisions[i]
        /\ \A r \in revisions[i] : r.rev = node[i].rev => r.name = node[i].name
        /\ \A r \in revisions[i] : r.rev <= node[i].rev
=============================================================================
