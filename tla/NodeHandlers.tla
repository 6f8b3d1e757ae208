----------------------------- MODULE NodeHandlers -----------------------------
(***************************************************************************)
(* The API requests that create, edit and delete nodes (createNode,        *)
(* updateNode with its automatic rollback, deleteNode of                   *)
(* internal/api/server.go) over NodeStore, next to the hourly maintenance  *)
(* and to restarts by the agent.  A request is a sequence of statements,   *)
(* transactions and calls of the agent; those of other requests come       *)
(* between any two.                                                        *)
(***************************************************************************)
EXTENDS NodeStore

CONSTANTS
    Caller,       \* concurrent requests
    MaxRequests,  \* bound on requests
    MaxFaults     \* bound on failed calls of the agent, lost secrets and processes that die

ASSUME HandlersAssumption == MaxRequests \in Nat /\ MaxFaults \in Nat

VARIABLES
    applied,    \* what the agent last applied for each node
    call,       \* what each request is in the middle of
    overlapped, \* two requests have been in progress at once
    requests, faults

vars == <<node, revisions, applied, call, overlapped, requests, faults>>

\* What a node runs with: its row, and for ShadowTLS the address of its backend.
Applied == [ep: Endpoint, name: Name, target: Endpoint \cup {None}]

Rendered(i) ==
    [ep |-> node[i].ep, name |-> node[i].name,
     target |-> IF node[i].backend \in Live THEN node[node[i].backend].ep ELSE None]

\* A request is at pc of op on node id with the wanted ep, backend and name; old is
\* the row it saw first and the one its rollback (undo) wants, rev the revision it
\* read, todo the ShadowTLS nodes left to apply and deps all of them; swept says
\* that maintenance deleted the secret it had stored for its transaction.
Call == [pc: {"idle", "check", "read", "commit", "apply", "dependents", "delete"},
         op: {"create", "update", "delete"}, id: Id \cup {None}, ep: Endpoint \cup {None},
         backend: Id \cup {None}, name: Name \cup {None}, old: Row \cup {None}, rev: Nat,
         deps: SUBSET Id, todo: SUBSET Id, undo: BOOLEAN, swept: BOOLEAN]

Idle == [pc |-> "idle", op |-> "create", id |-> None, ep |-> None, backend |-> None,
         name |-> None, old |-> None, rev |-> 0, deps |-> {}, todo |-> {},
         undo |-> FALSE, swept |-> FALSE]

Quiet == \A c \in Caller : call[c].pc = "idle"

TypeOK ==
    /\ StoreTypeOK
    /\ applied \in [Id -> Applied \cup {None}]
    /\ call \in [Caller -> Call]
    /\ overlapped \in BOOLEAN
    /\ requests \in Nat /\ faults \in Nat

\* Any nodes that requests of the past may have created, none of them edited since.
Init ==
    /\ \E name \in Name :
        node \in [Id -> [ep: Endpoint, backend: Id \cup {None}, name: {name}, rev: {1}] \cup {None}]
    /\ \A i \in Live : BackendOK(i, node[i].backend)
    /\ \A i, j \in Live : i # j => ~Clash(node[i].ep, node[j].ep)
    /\ \A i \in Live : Unique(i, node[i].ep)
    /\ revisions = [i \in Id |-> IF node[i] = None THEN {} ELSE {[rev |-> 1, name |-> node[i].name]}]
    /\ applied = [i \in Id |-> IF node[i] = None THEN None ELSE Rendered(i)]
    /\ call = [c \in Caller |-> Idle]
    /\ overlapped = FALSE /\ requests = 0 /\ faults = 0

-----------------------------------------------------------------------------
Arrive(c, r) ==
    /\ call[c].pc = "idle" /\ requests < MaxRequests
    /\ requests' = requests + 1
    /\ call' = [call EXCEPT ![c] = r]
    /\ overlapped' = (overlapped \/ ~Quiet)
    /\ UNCHANGED <<node, revisions, faults>>

Goto(c, pc) == call' = [call EXCEPT ![c].pc = pc]

Done(c) == call' = [call EXCEPT ![c] = Idle]

\* CheckPort found the port free; a request it refuses changes nothing.  The id is a
\* fresh uuid, which no row and no other request has.
CreateNode(c) ==
    \E i \in Id \ Live, ep \in Endpoint, backend \in Service \cup {None}, name \in Name :
        /\ revisions[i] = {} /\ \A d \in Caller : call[d].id # i
        /\ backend # None <=> i \in Front
        /\ Arrive(c, [Idle EXCEPT !.pc = "check", !.op = "create", !.id = i, !.ep = ep,
                                  !.backend = backend, !.name = name])
        /\ UNCHANGED applied

\* Mutant of Dependents: the backends are collected, not the nodes in front of them.
DependentsWrong(i, ep) ==
    IF ep # node[i].ep /\ i \notin Front THEN {node[j].backend : j \in Live} ELSE {}

Dependents(i, ep) ==
    IF ep # node[i].ep /\ i \notin Front THEN {j \in Live : node[j].backend = i} ELSE {}

UpdateNode(c) ==
    \E i \in Live, ep \in Endpoint, backend \in Service \cup {None}, name \in Name :
        /\ backend # None <=> i \in Front
        /\ Arrive(c, [Idle EXCEPT !.pc = "check", !.op = "update", !.id = i, !.ep = ep,
                                  !.backend = backend, !.name = name, !.old = node[i],
                                  !.deps = Dependents(i, ep)])
        /\ UNCHANGED applied

\* The agent is asked to stop the node before anything is checked; whether it answers
\* is ignored, and a delete that is refused leaves the node stopped.  The rules it has
\* removed as well are in the modules Traffic and Firewall.
DeleteNode(c) ==
    \E i \in Live :
        /\ Arrive(c, [Idle EXCEPT !.pc = "check", !.op = "delete", !.id = i])
        /\ applied' \in {applied, [applied EXCEPT ![i] = None]}

\* The store refused: the error ends the request, but not a rollback.
Refused(c) ==
    /\ IF call[c].undo THEN Goto(c, "apply") ELSE Done(c)
    /\ UNCHANGED storeVars

\* Store.Update and Store.Create: what they look at before they write.
Check(c) ==
    /\ call[c].pc = "check" /\ call[c].op # "delete"
    /\ LET r == call[c] IN
       IF \/ r.op = "update" /\ node[r.id] = None
          \/ Conflict(r.id, r.ep)
          \/ ~BackendOK(r.id, r.backend)
       THEN Refused(c)
       ELSE Goto(c, IF r.op = "create" THEN "commit" ELSE "read") /\ UNCHANGED storeVars
    /\ UNCHANGED <<applied, overlapped, requests, faults>>

\* The revision is read before the transaction that writes the next one.
ReadRevision(c) ==
    /\ call[c].pc = "read"
    /\ IF node[call[c].id] = None THEN Refused(c)
       ELSE /\ node[call[c].id].rev < MaxRevision
            /\ call' = [call EXCEPT ![c].pc = "commit", ![c].rev = node[call[c].id].rev]
            /\ UNCHANGED storeVars
    /\ UNCHANGED <<applied, overlapped, requests, faults>>

CommitCreate(c) ==
    LET r == call[c] IN
    /\ r.pc = "commit" /\ r.op = "create"
    /\ IF Inserts(r.id, r.ep, r.backend) /\ ~r.swept
       THEN Insert(r.id, r.ep, r.backend, r.name) /\ Goto(c, "apply")
       ELSE Refused(c)
    /\ UNCHANGED <<applied, overlapped, requests, faults>>

CommitUpdate(c) ==
    LET r == call[c] IN
    /\ r.pc = "commit" /\ r.op = "update"
    /\ IF Updates(r.id, r.ep, r.backend, r.rev + 1) /\ ~r.swept
       THEN /\ Update(r.id, r.ep, r.backend, r.name, r.rev + 1)
            /\ IF node[r.id] # None \/ r.undo THEN Goto(c, "apply") ELSE Done(c)
       ELSE Refused(c)
    /\ UNCHANGED <<applied, overlapped, requests, faults>>

\* Mutant of Undone: the rollback leaves the dependents alone.
UndoneAlone(r) ==
    [r EXCEPT !.pc = "check", !.undo = TRUE, !.ep = r.old.ep, !.backend = r.old.backend,
              !.name = r.old.name, !.todo = {}, !.swept = FALSE]

\* The rollback of updateNode: the old row again, then the same nodes.
Undone(r) ==
    [r EXCEPT !.pc = "check", !.undo = TRUE, !.ep = r.old.ep, !.backend = r.old.backend,
              !.name = r.old.name, !.todo = IF r.pc = "dependents" THEN r.deps ELSE {},
              !.swept = FALSE]

\* Manager.Apply of node i in the agent, which reads the rows itself.  It fails for
\* a node that is gone, or because something goes wrong.
ApplySucceeds(i) == i \in Live /\ applied' = [applied EXCEPT ![i] = Rendered(i)] /\ UNCHANGED faults

ApplyFails(i) ==
    /\ i \in Live => faults < MaxFaults
    /\ faults' = IF i \in Live THEN faults + 1 ELSE faults
    /\ UNCHANGED applied

\* createNode ignores the error; updateNode rolls back once.  When the certificate of an
\* AnyConnect node was edited it is fetched before the Apply (module VpnFiles); a failure
\* of that is a failure of the Apply here.
ApplyNode(c) ==
    LET r == call[c] IN
    /\ r.pc = "apply"
    /\ \/ /\ ApplySucceeds(r.id)
          /\ call' = [call EXCEPT ![c].pc = "dependents", ![c].todo = IF r.undo THEN @ ELSE r.deps]
       \/ /\ ApplyFails(r.id)
          /\ call' = [call EXCEPT ![c] =
                        IF r.op = "create" THEN Idle
                        ELSE IF r.undo THEN [r EXCEPT !.pc = "dependents"] ELSE Undone(r)]
    /\ UNCHANGED <<node, revisions, overlapped, requests>>

ApplyDependent(c) ==
    LET r == call[c] IN
    /\ r.pc = "dependents"
    /\ \E i \in r.todo :
        \/ ApplySucceeds(i) /\ call' = [call EXCEPT ![c].todo = @ \ {i}]
        \/ /\ ApplyFails(i)
           /\ call' = [call EXCEPT ![c] = IF r.undo THEN [r EXCEPT !.todo = @ \ {i}] ELSE Undone(r)]
    /\ UNCHANGED <<node, revisions, overlapped, requests>>

Answer(c) ==
    /\ call[c].pc = "dependents" /\ call[c].todo = {}
    /\ Done(c)
    /\ UNCHANGED <<node, revisions, applied, overlapped, requests, faults>>

\* Store.Delete counts the dependents, and the foreign key counts them again.
CheckDelete(c) ==
    /\ call[c].pc = "check" /\ call[c].op = "delete"
    /\ IF Referenced(call[c].id) THEN Done(c) ELSE Goto(c, "delete")
    /\ UNCHANGED <<node, revisions, applied, overlapped, requests, faults>>

DeleteRow(c) ==
    LET i == call[c].id IN
    /\ call[c].pc = "delete"
    /\ IF Referenced(i) THEN UNCHANGED <<node, revisions, applied>>
       ELSE Remove(i) /\ applied' = [applied EXCEPT ![i] = None]
    /\ Done(c)
    /\ UNCHANGED <<overlapped, requests, faults>>

\* Database.Maintain: old revisions, and secrets that no row names yet.
Maintain ==
    /\ TrimRevisions
    /\ \/ UNCHANGED <<call, faults>>
       \/ /\ faults < MaxFaults /\ faults' = faults + 1
          /\ \E c \in Caller : call[c].pc = "commit" /\ ~call[c].swept
          /\ call' = [c \in Caller |-> [call[c] EXCEPT !.swept = call[c].pc = "commit"]]
    /\ UNCHANGED <<applied, overlapped, requests>>

\* A ShadowTLS process that dies is restarted, and asks for its backend's address
\* whenever it starts.
RestartFront(i) ==
    /\ i \in Front \cap Live /\ faults < MaxFaults
    /\ faults' = faults + 1
    /\ applied' = [applied EXCEPT ![i] = Rendered(i)]
    /\ UNCHANGED <<node, revisions, call, overlapped, requests>>

Step(c) ==
    \/ Check(c) \/ ReadRevision(c) \/ CommitCreate(c) \/ CommitUpdate(c) \/ ApplyNode(c)
    \/ ApplyDependent(c) \/ Answer(c) \/ CheckDelete(c) \/ DeleteRow(c)

Next ==
    \/ \E c \in Caller : CreateNode(c) \/ UpdateNode(c) \/ DeleteNode(c) \/ Step(c)
    \/ Maintain
    \/ \E i \in Id : RestartFront(i)

Spec == Init /\ [][Next]_vars

-----------------------------------------------------------------------------
(* Properties.                                                              *)

\* As long as requests do not overlap, no two nodes ever claim one port or one VPN
\* pool, whatever is created, edited, rolled back and deleted.
PortsExclusive == ~overlapped => \A i, j \in Live : i # j => ~Clash(node[i].ep, node[j].ep)

\* One failing call is made good: when no request is in progress and requests have
\* not overlapped, every node runs with its row and every ShadowTLS node with its
\* backend's present address, although updateNode applies them one by one; or a
\* request that failed has left the node without a process.
AppliedIsStored ==
    Quiet /\ ~overlapped /\ faults <= 1
        => \A i \in Live : applied[i] \in {Rendered(i), None}

\* An edit moves a node to the next revision, never over a revision another
\* request has written meanwhile: of two concurrent edits that read the same
\* revision one fails.
RevisionsAdvance ==
    [][\A i \in Id : node[i] # None /\ node'[i] # None /\ node'[i] # node[i]
            => node'[i].rev = node[i].rev + 1]_vars
=============================================================================
