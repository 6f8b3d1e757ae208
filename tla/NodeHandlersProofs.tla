-------------------------- MODULE NodeHandlersProofs --------------------------
(***************************************************************************)
(* Theorems about NodeHandlers, for any nodes, endpoints and requests and  *)
(* any number of them at once: the types, that every ShadowTLS node has a  *)
(* backend that exists, that requests which do not overlap leave no two    *)
(* nodes with one port, that edits which overlap number their revisions    *)
(* one by one, and that one failure leaves every node running as stored.   *)
(***************************************************************************)
EXTENDS NodeHandlers, FiniteSetTheorems, TLAPS

-----------------------------------------------------------------------------
(* The inductive invariant.                                                 *)

\* A request in progress knows its node and, to write it, what it writes: for a
\* ShadowTLS node a backend of the right type, if perhaps one that is gone by now.  The
\* same holds of the row its rollback would write, and a creation has no dependents.
Known(r) ==
    r.pc # "idle" =>
        /\ r.id \in Id
        /\ r.pc \in {"read", "commit", "apply", "dependents"} => r.op # "delete"
        /\ r.op # "delete" =>
            r.ep \in Endpoint /\ r.name \in Name /\ (r.id \in Front => r.backend \in Service)
        /\ r.op = "create" => r.deps = {} /\ r.todo = {}
        /\ r.op = "update" => r.old \in Row /\ (r.id \in Front => r.old.backend \in Service)

KnownCall == {r \in Call : Known(r)}

HandlersInv == TypeOK /\ BackendServes /\ call \in [Caller -> KnownCall]

LEMMA IdleKnown == Idle \in KnownCall
  BY DEF Idle, KnownCall, Known, Call

\* A request goes on to another part.
LEMMA GotoKnown ==
    ASSUME NEW r \in KnownCall, r.pc # "idle",
           NEW pc \in {"check", "read", "commit", "apply", "dependents", "delete"},
           pc \in {"read", "commit", "apply", "dependents"} => r.op # "delete",
           NEW v \in Nat
    PROVE  /\ [r EXCEPT !.pc = pc] \in KnownCall
           /\ [r EXCEPT !.pc = pc, !.rev = v] \in KnownCall
<1>1. [r EXCEPT !.pc = pc] \in Call /\ [r EXCEPT !.pc = pc, !.rev = v] \in Call
  BY DEF KnownCall, Call
<1>2. Known([r EXCEPT !.pc = pc])
  BY DEF KnownCall, Known, Call
<1>3. Known([r EXCEPT !.pc = pc, !.rev = v])
  BY DEF KnownCall, Known, Call
<1>4. QED
  BY <1>1, <1>2, <1>3 DEF KnownCall

LEMMA TodoKnown ==
    ASSUME NEW r \in KnownCall, r.pc # "idle", r.op # "delete",
           NEW pc \in {"apply", "dependents"}, NEW s \in SUBSET Id, r.op = "create" => s = {}
    PROVE  /\ [r EXCEPT !.pc = pc, !.todo = s] \in KnownCall
           /\ [r EXCEPT !.todo = s] \in KnownCall
<1>1. [r EXCEPT !.pc = pc, !.todo = s] \in Call /\ [r EXCEPT !.todo = s] \in Call
  BY DEF KnownCall, Call
<1>2. Known([r EXCEPT !.pc = pc, !.todo = s]) /\ Known([r EXCEPT !.todo = s])
  BY DEF KnownCall, Known, Call
<1>3. QED
  BY <1>1, <1>2 DEF KnownCall

LEMMA UndoneKnown ==
    ASSUME NEW r \in KnownCall, r.pc # "idle", r.op = "update"
    PROVE  Undone(r) \in KnownCall
<1>1. r.old \in Row /\ (r.id \in Front => r.old.backend \in Service) /\ r \in Call
  BY DEF KnownCall, Known
<1>2. r.old.ep \in Endpoint /\ r.old.backend \in Id \cup {None} /\ r.old.name \in Name
  BY <1>1 DEF Row
<1>3. Undone(r) \in Call
  BY <1>1, <1>2 DEF Undone, Call
<1>4. Known(Undone(r))
  BY <1>1, <1>2 DEF Undone, Known, KnownCall, Call
<1>5. QED
  BY <1>3, <1>4 DEF KnownCall

LEMMA RenderedType ==
    ASSUME TypeOK, NEW i \in Live
    PROVE  Rendered(i) \in Applied
<1>1. \A j \in Live : node[j] \in Row
  BY DEF TypeOK, StoreTypeOK, Live
<1>2. QED
  BY <1>1 DEF Rendered, Applied, Row, Live

LEMMA InitInv == Init => HandlersInv
<1> SUFFICES ASSUME Init PROVE HandlersInv
  OBVIOUS
<1> USE NodeStoreAssumption
<1>1. node \in [Id -> Row \cup {None}]
  BY DEF Init, Row
<1>2. \A i \in Live : node[i] \in Row
  BY <1>1 DEF Live
<1>3. revisions \in [Id -> SUBSET [rev: Nat, name: Name]]
  <2>1. \A i \in Id : node[i] # None => node[i].name \in Name
    BY <1>2 DEF Live, Row
  <2>2. QED
    BY <2>1 DEF Init
<1>4. call \in [Caller -> KnownCall]
  BY IdleKnown DEF Init
<1>5. applied \in [Id -> Applied \cup {None}]
  <2>1. \A i \in Live : Rendered(i) \in Applied
    BY <1>2 DEF Rendered, Applied, Row, Live
  <2>2. QED
    BY <2>1 DEF Init, Live
<1>6. TypeOK
  BY <1>1, <1>3, <1>4, <1>5 DEF Init, TypeOK, StoreTypeOK, KnownCall
<1>7. BackendServes
  BY DEF Init, BackendServes, BackendOK
<1>8. QED
  BY <1>4, <1>6, <1>7 DEF HandlersInv

-----------------------------------------------------------------------------
(* What the transactions preserve.                                          *)

LEMMA InsertSafe ==
    ASSUME StoreTypeOK, BackendServes, NEW i \in Id, NEW ep \in Endpoint,
           NEW backend \in Id \cup {None}, NEW name \in Name, i \in Front => backend \in Service,
           Inserts(i, ep, backend), Insert(i, ep, backend, name)
    PROVE  StoreTypeOK' /\ BackendServes'
<1> USE NodeStoreAssumption
<1>1. /\ [ep |-> ep, backend |-> backend, name |-> name, rev |-> 1] \in Row
      /\ [rev |-> 1, name |-> name] \in [rev: Nat, name: Name]
  BY DEF Row
<1>2. StoreTypeOK'
  BY <1>1 DEF StoreTypeOK, Insert
<1>3. /\ \A j \in Id \ {i} : node'[j] = node[j]
      /\ node'[i] = [ep |-> ep, backend |-> backend, name |-> name, rev |-> 1]
  BY DEF StoreTypeOK, Insert
<1>4. Live' = Live \cup {i} /\ (i \in Front => backend \in Live)
  BY <1>1, <1>3 DEF Live, Inserts, Foreign, Service
<1>5. QED
  BY <1>1, <1>2, <1>3, <1>4 DEF BackendServes, Live

LEMMA UpdateSafe ==
    ASSUME StoreTypeOK, BackendServes, NEW i \in Id, NEW ep \in Endpoint,
           NEW backend \in Id \cup {None}, NEW name \in Name, NEW rev \in Nat,
           i \in Front => backend \in Service,
           Updates(i, ep, backend, rev), Update(i, ep, backend, name, rev)
    PROVE  StoreTypeOK' /\ BackendServes'
<1> USE NodeStoreAssumption
<1>1. /\ [ep |-> ep, backend |-> backend, name |-> name, rev |-> rev] \in Row
      /\ [rev |-> rev, name |-> name] \in [rev: Nat, name: Name]
  BY DEF Row
<1>2. StoreTypeOK'
  <2>1. node' \in [Id -> Row \cup {None}]
    BY <1>1 DEF StoreTypeOK, Update
  <2>2. revisions' \in [Id -> SUBSET [rev: Nat, name: Name]]
    BY <1>1 DEF StoreTypeOK, Update
  <2>3. QED
    BY <2>1, <2>2 DEF StoreTypeOK
<1>3. /\ \A j \in Id \ {i} : node'[j] = node[j]
      /\ node'[i] = IF node[i] = None THEN None
                    ELSE [ep |-> ep, backend |-> backend, name |-> name, rev |-> rev]
  BY DEF StoreTypeOK, Update
<1>4. Live' = Live /\ (i \in Front => backend \in Live)
  BY <1>1, <1>3 DEF Live, Updates, Foreign, Service
<1>5. QED
  BY <1>2, <1>3, <1>4 DEF BackendServes, Live

LEMMA RemoveSafe ==
    ASSUME StoreTypeOK, BackendServes, NEW i \in Id, ~Referenced(i), Remove(i)
    PROVE  StoreTypeOK' /\ BackendServes'
<1>1. StoreTypeOK' /\ node' = [node EXCEPT ![i] = None]
  BY DEF StoreTypeOK, Remove
<1>2. (\A j \in Id \ {i} : node'[j] = node[j]) /\ Live' = Live \ {i}
  BY <1>1 DEF StoreTypeOK, Live
<1>3. QED
  BY <1>1, <1>2 DEF BackendServes, Referenced, Live

LEMMA StoreUnchanged ==
    ASSUME StoreTypeOK, BackendServes, UNCHANGED storeVars
    PROVE  StoreTypeOK' /\ BackendServes'
  BY DEF StoreTypeOK, BackendServes, Live, storeVars

LEMMA TrimSafe ==
    ASSUME StoreTypeOK, BackendServes, TrimRevisions
    PROVE  StoreTypeOK' /\ BackendServes'
<1>1. \A i \in Id : Kept(i) \in SUBSET [rev: Nat, name: Name]
  BY DEF Kept, StoreTypeOK
<1>2. QED
  BY <1>1 DEF TrimRevisions, StoreTypeOK, BackendServes, Live

-----------------------------------------------------------------------------
(* The steps of the requests.                                               *)

LEMMA CallType ==
    ASSUME HandlersInv, NEW c \in Caller
    PROVE  /\ call[c] \in KnownCall /\ call[c] \in Call
           /\ call[c].pc # "idle" => call[c].id \in Id
           /\ call[c].pc \in {"read", "commit", "apply", "dependents"} => call[c].op # "delete"
           /\ call[c].pc # "idle" /\ call[c].op # "delete"
              => /\ call[c].ep \in Endpoint /\ call[c].name \in Name
                 /\ call[c].backend \in Id \cup {None}
                 /\ call[c].id \in Front => call[c].backend \in Service
  BY DEF HandlersInv, KnownCall, Known, Call

LEMMA RefusedKnown ==
    ASSUME HandlersInv, NEW c \in Caller, Refused(c), call[c].pc # "idle", call[c].op # "delete"
    PROVE  call' \in [Caller -> KnownCall] /\ UNCHANGED storeVars
<1>1. call[c] \in KnownCall
  BY CallType
<1>2. [call[c] EXCEPT !.pc = "apply"] \in KnownCall
  BY <1>1, GotoKnown
<1>3. QED
  BY <1>2, IdleKnown DEF Refused, Goto, Done, HandlersInv

\* The step of a request keeps the invariant when it keeps the parts it changes.
LEMMA Frame ==
    ASSUME HandlersInv, StoreTypeOK', BackendServes', call' \in [Caller -> KnownCall],
           applied' \in [Id -> Applied \cup {None}], overlapped' \in BOOLEAN,
           requests' \in Nat, faults' \in Nat
    PROVE  HandlersInv'
<1>1. call' \in [Caller -> Call]
  BY DEF KnownCall
<1>2. QED
  BY <1>1 DEF HandlersInv, TypeOK

LEMMA RequestStep ==
    ASSUME HandlersInv, NEW c \in Caller, CreateNode(c) \/ UpdateNode(c) \/ DeleteNode(c)
    PROVE  HandlersInv'
<1> USE NodeStoreAssumption
<1>1. PICK r \in Call : Arrive(c, r) /\ Known(r)
  <2>1. CASE CreateNode(c)
    <3>1. PICK i \in Id \ Live, ep \in Endpoint, backend \in Service \cup {None}, name \in Name :
            /\ backend # None <=> i \in Front
            /\ Arrive(c, [Idle EXCEPT !.pc = "check", !.op = "create", !.id = i, !.ep = ep,
                                      !.backend = backend, !.name = name])
      BY <2>1 DEF CreateNode
    <3> DEFINE r == [Idle EXCEPT !.pc = "check", !.op = "create", !.id = i, !.ep = ep,
                                 !.backend = backend, !.name = name]
    <3>2. r \in Call
      BY DEF Idle, Call, Service
    <3>3. Known(r)
      BY <3>1 DEF Idle, Known
    <3> HIDE DEF r
    <3>4. QED
      BY <3>1, <3>2, <3>3 DEF r
  <2>2. CASE UpdateNode(c)
    <3>1. PICK i \in Live, ep \in Endpoint, backend \in Service \cup {None}, name \in Name :
            /\ backend # None <=> i \in Front
            /\ Arrive(c, [Idle EXCEPT !.pc = "check", !.op = "update", !.id = i, !.ep = ep,
                                      !.backend = backend, !.name = name, !.old = node[i],
                                      !.deps = Dependents(i, ep)])
      BY <2>2 DEF UpdateNode
    <3> DEFINE r == [Idle EXCEPT !.pc = "check", !.op = "update", !.id = i, !.ep = ep,
                                 !.backend = backend, !.name = name, !.old = node[i],
                                 !.deps = Dependents(i, ep)]
    <3>2. /\ node[i] \in Row /\ (i \in Front => node[i].backend \in Service)
          /\ Dependents(i, ep) \in SUBSET Id /\ i \in Id
      BY DEF HandlersInv, TypeOK, StoreTypeOK, BackendServes, Live, Dependents
    <3>3. r \in Call
      BY <3>2 DEF Idle, Call, Service
    <3>4. Known(r)
      BY <3>1, <3>2 DEF Idle, Known
    <3> HIDE DEF r
    <3>5. QED
      BY <3>1, <3>3, <3>4 DEF r
  <2>3. CASE DeleteNode(c)
    <3>1. PICK i \in Live : Arrive(c, [Idle EXCEPT !.pc = "check", !.op = "delete", !.id = i])
      BY <2>3 DEF DeleteNode
    <3> DEFINE r == [Idle EXCEPT !.pc = "check", !.op = "delete", !.id = i]
    <3>2. r \in Call
      BY DEF Idle, Call, Live
    <3>3. Known(r)
      BY DEF Idle, Known, Live
    <3> HIDE DEF r
    <3>4. QED
      BY <3>1, <3>2, <3>3 DEF r
  <2>4. QED
    BY <2>1, <2>2, <2>3
<1>2. call' \in [Caller -> KnownCall]
  BY <1>1 DEF Arrive, HandlersInv, KnownCall
<1>3. StoreTypeOK' /\ BackendServes'
  BY <1>1, StoreUnchanged DEF Arrive, HandlersInv, TypeOK, storeVars
<1>4. applied' \in [Id -> Applied \cup {None}]
  BY DEF CreateNode, UpdateNode, DeleteNode, HandlersInv, TypeOK
<1>5. QED
  BY <1>1, <1>2, <1>3, <1>4, Frame DEF Arrive, HandlersInv, TypeOK
LEMMA CheckStep ==
    ASSUME HandlersInv, NEW c \in Caller, Check(c) \/ ReadRevision(c) \/ Answer(c) \/ CheckDelete(c)
    PROVE  HandlersInv'
<1>1. call' \in [Caller -> KnownCall] /\ UNCHANGED storeVars
  <2> DEFINE r == call[c]
  <2>0. r \in KnownCall /\ call \in [Caller -> KnownCall]
    BY CallType DEF HandlersInv
  <2>1. CASE Check(c)
    <3>1. CASE Refused(c)
      BY <2>1, <3>1, RefusedKnown DEF Check
    <3>2. CASE ~Refused(c)
      <4>1. PICK pc \in {"commit", "read"} : Goto(c, pc) /\ UNCHANGED storeVars
        BY <2>1, <3>2 DEF Check
      <4>2. [r EXCEPT !.pc = pc] \in KnownCall
        BY <2>0, <2>1, GotoKnown DEF Check
      <4>3. QED
        BY <2>0, <4>1, <4>2 DEF Goto
    <3>3. QED
      BY <3>1, <3>2
  <2>2. CASE ReadRevision(c)
    <3>1. r.pc = "read" /\ r.op # "delete" /\ r.id \in Id
      BY <2>2, CallType DEF ReadRevision
    <3>2. CASE node[r.id] = None
      BY <2>2, <3>1, <3>2, RefusedKnown DEF ReadRevision
    <3>3. CASE node[r.id] # None
      <4>1. node[r.id].rev \in Nat
        BY <3>1, <3>3 DEF HandlersInv, TypeOK, StoreTypeOK, Row
      <4>2. [r EXCEPT !.pc = "commit", !.rev = node[r.id].rev] \in KnownCall
        BY <2>0, <3>1, <4>1, GotoKnown
      <4>3. QED
        BY <2>0, <2>2, <3>3, <4>2 DEF ReadRevision
    <3>4. QED
      BY <3>2, <3>3
  <2>3. CASE Answer(c)
    BY <2>0, <2>3, IdleKnown DEF Answer, Done, storeVars
  <2>4. CASE CheckDelete(c)
    <3>1. [r EXCEPT !.pc = "delete"] \in KnownCall
      BY <2>0, <2>4, GotoKnown DEF CheckDelete
    <3>2. QED
      BY <2>0, <2>4, <3>1, IdleKnown DEF CheckDelete, Done, Goto, storeVars
  <2>5. QED
    BY <2>1, <2>2, <2>3, <2>4
<1>2. UNCHANGED <<applied, overlapped, requests, faults>>
  BY DEF Check, ReadRevision, Answer, CheckDelete
<1>3. QED
  BY <1>1, <1>2, StoreUnchanged, Frame DEF HandlersInv, TypeOK

LEMMA CommitStep ==
    ASSUME HandlersInv, NEW c \in Caller, CommitCreate(c) \/ CommitUpdate(c) \/ DeleteRow(c)
    PROVE  HandlersInv'
<1> DEFINE r == call[c]
<1>0. /\ r \in KnownCall /\ r \in Call /\ call \in [Caller -> KnownCall]
      /\ StoreTypeOK /\ BackendServes /\ r.pc # "idle" /\ r.id \in Id
  BY CallType DEF HandlersInv, TypeOK, CommitCreate, CommitUpdate, DeleteRow
<1>1. /\ [r EXCEPT !.pc = "apply"] \in KnownCall \/ r.op = "delete"
  BY <1>0, GotoKnown
<1>2. CASE CommitCreate(c)
  <2>1. /\ r.ep \in Endpoint /\ r.name \in Name /\ r.backend \in Id \cup {None}
        /\ (r.id \in Front => r.backend \in Service) /\ r.op # "delete"
    BY <1>0, <1>2, CallType DEF CommitCreate
  <2>2. CASE Inserts(r.id, r.ep, r.backend) /\ ~r.swept
    <3>1. Insert(r.id, r.ep, r.backend, r.name) /\ Goto(c, "apply")
      BY <1>2, <2>2 DEF CommitCreate
    <3>2. StoreTypeOK' /\ BackendServes'
      BY <1>0, <2>1, <2>2, <3>1, InsertSafe
    <3>3. call' \in [Caller -> KnownCall]
      BY <1>0, <1>1, <2>1, <3>1 DEF Goto
    <3>4. QED
      BY <1>2, <3>2, <3>3, Frame DEF CommitCreate, HandlersInv, TypeOK
  <2>3. CASE Refused(c)
    <3>1. call' \in [Caller -> KnownCall] /\ UNCHANGED storeVars
      BY <1>0, <2>1, <2>3, RefusedKnown
    <3>2. QED
      BY <1>0, <1>2, <3>1, StoreUnchanged, Frame DEF CommitCreate, HandlersInv, TypeOK
  <2>4. QED
    BY <1>2, <2>2, <2>3 DEF CommitCreate
<1>3. CASE CommitUpdate(c)
  <2>1. /\ r.ep \in Endpoint /\ r.name \in Name /\ r.backend \in Id \cup {None}
        /\ (r.id \in Front => r.backend \in Service) /\ r.op # "delete" /\ r.rev + 1 \in Nat
    BY <1>0, <1>3, CallType DEF CommitUpdate, Call
  <2>2. CASE Updates(r.id, r.ep, r.backend, r.rev + 1) /\ ~r.swept
    <3>1. /\ Update(r.id, r.ep, r.backend, r.name, r.rev + 1)
          /\ Goto(c, "apply") \/ Done(c)
      BY <1>3, <2>2 DEF CommitUpdate
    <3>2. StoreTypeOK' /\ BackendServes'
      BY <1>0, <2>1, <2>2, <3>1, UpdateSafe
    <3>3. call' \in [Caller -> KnownCall]
      BY <1>0, <1>1, <2>1, <3>1, IdleKnown DEF Goto, Done
    <3>4. QED
      BY <1>3, <3>2, <3>3, Frame DEF CommitUpdate, HandlersInv, TypeOK
  <2>3. CASE Refused(c)
    <3>1. call' \in [Caller -> KnownCall] /\ UNCHANGED storeVars
      BY <1>0, <2>1, <2>3, RefusedKnown
    <3>2. QED
      BY <1>0, <1>3, <3>1, StoreUnchanged, Frame DEF CommitUpdate, HandlersInv, TypeOK
  <2>4. QED
    BY <1>3, <2>2, <2>3 DEF CommitUpdate
<1>4. CASE DeleteRow(c)
  <2>1. StoreTypeOK' /\ BackendServes' /\ applied' \in [Id -> Applied \cup {None}]
    <3>1. CASE Referenced(r.id)
      BY <1>0, <1>4, <3>1, StoreUnchanged DEF DeleteRow, storeVars, HandlersInv, TypeOK
    <3>2. CASE ~Referenced(r.id)
      <4>1. Remove(r.id) /\ applied' = [applied EXCEPT ![r.id] = None]
        BY <1>4, <3>2 DEF DeleteRow
      <4>2. QED
        BY <1>0, <3>2, <4>1, RemoveSafe DEF HandlersInv, TypeOK
    <3>3. QED
      BY <3>1, <3>2
  <2>2. call' \in [Caller -> KnownCall]
    BY <1>0, <1>4, IdleKnown DEF DeleteRow, Done
  <2>3. QED
    BY <1>4, <2>1, <2>2, Frame DEF DeleteRow, HandlersInv, TypeOK
<1>5. QED
  BY <1>2, <1>3, <1>4

LEMMA ApplyTypes ==
    ASSUME TypeOK, NEW i \in Id
    PROVE  /\ ApplySucceeds(i) => applied' \in [Id -> Applied \cup {None}] /\ faults' = faults
           /\ ApplyFails(i) => applied' = applied /\ faults' \in Nat
<1>1. ApplySucceeds(i) => applied' \in [Id -> Applied \cup {None}]
  BY RenderedType DEF ApplySucceeds, TypeOK
<1>2. QED
  BY <1>1 DEF ApplySucceeds, ApplyFails, TypeOK

LEMMA ApplyStep ==
    ASSUME HandlersInv, NEW c \in Caller, ApplyNode(c) \/ ApplyDependent(c)
    PROVE  HandlersInv'
<1> DEFINE r == call[c]
<1>0. /\ r \in KnownCall /\ r \in Call /\ call \in [Caller -> KnownCall]
      /\ StoreTypeOK /\ BackendServes /\ TypeOK /\ applied \in [Id -> Applied \cup {None}]
      /\ r.pc # "idle" /\ r.op # "delete" /\ r.id \in Id /\ faults \in Nat
      /\ r.deps \in SUBSET Id /\ r.todo \in SUBSET Id
      /\ r.op = "create" => r.deps = {} /\ r.todo = {}
  BY CallType DEF HandlersInv, TypeOK, ApplyNode, ApplyDependent, KnownCall, Known, Call
<1>1. CASE ApplyNode(c)
  <2>1. CASE /\ ApplySucceeds(r.id)
             /\ call' = [call EXCEPT ![c].pc = "dependents", ![c].todo = IF r.undo THEN @ ELSE r.deps]
    <3> DEFINE s == IF r.undo THEN r.todo ELSE r.deps
    <3>1. [r EXCEPT !.pc = "dependents", !.todo = s] \in KnownCall
      BY <1>0, TodoKnown
    <3>2. call' \in [Caller -> KnownCall]
      BY <1>0, <2>1, <3>1
    <3>3. QED
      BY <1>0, <1>1, <2>1, <3>2, ApplyTypes, StoreUnchanged, Frame
      DEF ApplyNode, storeVars, HandlersInv, TypeOK
  <2>2. CASE /\ ApplyFails(r.id)
             /\ call' = [call EXCEPT ![c] =
                          IF r.op = "create" THEN Idle
                          ELSE IF r.undo THEN [r EXCEPT !.pc = "dependents"] ELSE Undone(r)]
    <3>1. r.op # "create" => r.op = "update"
      BY <1>0 DEF Call
    <3>2. [r EXCEPT !.pc = "dependents"] \in KnownCall /\ (r.op = "update" => Undone(r) \in KnownCall)
      BY <1>0, GotoKnown, UndoneKnown
    <3>3. call' \in [Caller -> KnownCall]
      BY <1>0, <2>2, <3>1, <3>2, IdleKnown
    <3>4. QED
      BY <1>0, <1>1, <2>2, <3>3, ApplyTypes, StoreUnchanged, Frame
      DEF ApplyNode, storeVars, HandlersInv, TypeOK
  <2>3. QED
    BY <1>1, <2>1, <2>2 DEF ApplyNode
<1>2. CASE ApplyDependent(c)
  <2>1. PICK i \in r.todo :
            \/ ApplySucceeds(i) /\ call' = [call EXCEPT ![c].todo = @ \ {i}]
            \/ /\ ApplyFails(i)
               /\ call' = [call EXCEPT ![c] = IF r.undo THEN [r EXCEPT !.todo = @ \ {i}] ELSE Undone(r)]
    BY <1>2 DEF ApplyDependent
  <2>2. r.op = "update" /\ i \in Id
    BY <1>0, <2>1 DEF Call
  <2>3. [r EXCEPT !.todo = r.todo \ {i}] \in KnownCall /\ Undone(r) \in KnownCall
    BY <1>0, <2>2, TodoKnown, UndoneKnown
  <2>4. call' \in [Caller -> KnownCall]
    BY <1>0, <2>1, <2>3
  <2>5. QED
    BY <1>0, <1>2, <2>1, <2>2, <2>4, ApplyTypes, StoreUnchanged, Frame
    DEF ApplyDependent, storeVars, HandlersInv, TypeOK
<1>3. QED
  BY <1>1, <1>2

LEMMA OtherStep ==
    ASSUME HandlersInv, Maintain \/ \E i \in Id : RestartFront(i)
    PROVE  HandlersInv'
<1>1. CASE Maintain
  <2>1. StoreTypeOK' /\ BackendServes'
    BY <1>1, TrimSafe DEF Maintain, HandlersInv, TypeOK
  <2>2. call' \in [Caller -> KnownCall] /\ faults' \in Nat
    <3>1. CASE UNCHANGED <<call, faults>>
      BY <3>1 DEF HandlersInv, TypeOK
    <3>2. CASE /\ faults' = faults + 1
               /\ call' = [c \in Caller |-> [call[c] EXCEPT !.swept = call[c].pc = "commit"]]
      <4>1. ASSUME NEW c \in Caller PROVE [call[c] EXCEPT !.swept = call[c].pc = "commit"] \in KnownCall
        <5>1. call[c] \in KnownCall
          BY CallType
        <5> DEFINE b == call[c].pc = "commit"
        <5>2. b \in BOOLEAN
          OBVIOUS
        <5> HIDE DEF b
        <5>3. [call[c] EXCEPT !.swept = b] \in Call
          BY <5>1, <5>2 DEF KnownCall, Call
        <5>4. Known([call[c] EXCEPT !.swept = b])
          BY <5>1 DEF KnownCall, Known, Call
        <5>5. QED
          BY <5>3, <5>4 DEF KnownCall, b
      <4>2. QED
        BY <3>2, <4>1 DEF HandlersInv, TypeOK
    <3>3. QED
      BY <1>1, <3>1, <3>2 DEF Maintain
  <2>3. QED
    BY <1>1, <2>1, <2>2, Frame DEF Maintain, HandlersInv, TypeOK
<1>2. ASSUME NEW i \in Id, RestartFront(i) PROVE HandlersInv'
  <2>1. applied' \in [Id -> Applied \cup {None}]
    BY <1>2, RenderedType DEF RestartFront, HandlersInv, TypeOK
  <2>2. QED
    BY <1>2, <2>1, StoreUnchanged, Frame DEF RestartFront, storeVars, HandlersInv, TypeOK
<1>3. QED
  BY <1>1, <1>2

LEMMA HandlersStep ==
    ASSUME HandlersInv, [Next]_vars
    PROVE  HandlersInv'
<1>1. CASE UNCHANGED vars
  BY <1>1, StoreUnchanged, Frame DEF vars, storeVars, HandlersInv, TypeOK
<1>2. CASE Next
  BY <1>2, RequestStep, CheckStep, CommitStep, ApplyStep, OtherStep DEF Next, Step
<1>3. QED
  BY <1>1, <1>2

-----------------------------------------------------------------------------
(* Ports: as long as requests do not overlap, the one in progress decides on *)
(* what is still there when it writes.                                      *)

\* No two nodes claim one endpoint.
Apart == \A i, j \in Live : i # j => ~Clash(node[i].ep, node[j].ep)

\* PortsExclusive made inductive: while no two requests have overlapped, at most one is
\* in progress, and what it is about to write clashes with no other node.
Exclusive ==
    ~overlapped =>
        /\ \A c, d \in Caller : call[c].pc # "idle" /\ call[d].pc # "idle" => c = d
        /\ Apart
        /\ \A c \in Caller : call[c].pc \in {"read", "commit"} => ~Conflict(call[c].id, call[c].ep)

ExclusiveInv == HandlersInv /\ Exclusive

\* No request is in progress yet, and the nodes that are there do not clash.
LEMMA InitExclusive == Init => Exclusive
  BY DEF Init, Exclusive, Apart, Idle

\* Two endpoints clash in either order.
LEMMA ClashSymmetric ==
    ASSUME NEW e, NEW f, Clash(e, f)
    PROVE  Clash(f, e)
  BY DEF Clash

\* The requests of the other callers stay as they are.
Others(c) == \A d \in Caller \ {c} : call'[d] = call[d]

\* A step of one request that writes no node.
LEMMA RequestExclusive ==
    ASSUME Exclusive, NEW c \in Caller, Others(c), UNCHANGED node, ~overlapped' => ~overlapped,
           ~overlapped' => call[c].pc # "idle" \/ Quiet,
           ~overlapped' /\ call'[c].pc \in {"read", "commit"} => ~Conflict(call'[c].id, call'[c].ep)
    PROVE  Exclusive'
<1> SUFFICES ASSUME ~overlapped' PROVE Exclusive'
  BY DEF Exclusive
<1>1. \A d \in Caller \ {c} : call'[d] = call[d]
  BY DEF Others
<1>2. Live' = Live
  BY DEF Live
<1>3. Apart'
  BY <1>2 DEF Apart, Exclusive
<1>4. ASSUME NEW d \in Caller, NEW e \in Caller, call'[d].pc # "idle", call'[e].pc # "idle"
      PROVE  d = e
  BY <1>1, <1>4 DEF Exclusive, Quiet
<1>5. ASSUME NEW d \in Caller, call'[d].pc \in {"read", "commit"}
      PROVE  ~Conflict(call[d].id, call[d].ep)'
  <2>1. ~Conflict(call'[d].id, call'[d].ep)
    BY <1>1, <1>5 DEF Exclusive
  <2>2. QED
    BY <1>2, <2>1 DEF Conflict
<1>6. QED
  BY <1>3, <1>4, <1>5 DEF Exclusive

\* The step of a request that writes node i.
LEMMA WriteExclusive ==
    ASSUME Exclusive, NEW c \in Caller, Others(c),
           call[c].pc # "idle", call'[c].pc \notin {"read", "commit"},
           UNCHANGED overlapped, NEW i \in Id,
           \A j \in Id \ {i} : node'[j] = node[j],
           node'[i] = None \/ (\A j \in Live \ {i} : ~Clash(node[j].ep, node'[i].ep)) \/ overlapped
    PROVE  Exclusive'
<1> SUFFICES ASSUME ~overlapped' PROVE Exclusive'
  BY DEF Exclusive
<1>1. \A d \in Caller \ {c} : call'[d] = call[d] /\ call[d].pc = "idle"
  BY DEF Others, Exclusive
<1>2. Live' \subseteq Live \cup {i} /\ (node'[i] = None => i \notin Live')
  BY DEF Live
<1>3. ASSUME NEW j \in Live', NEW k \in Live', j # k PROVE ~Clash(node'[j].ep, node'[k].ep)
  <2>1. CASE j # i /\ k # i
    BY <1>2, <1>3, <2>1 DEF Exclusive, Apart, Live
  <2>2. CASE j = i
    <3>1. k \in Live \ {i} /\ node'[k] = node[k] /\ ~Clash(node[k].ep, node'[i].ep)
      BY <1>2, <1>3, <2>2 DEF Live
    <3>2. QED
      BY <2>2, <3>1, ClashSymmetric
  <2>3. CASE k = i
    BY <1>2, <1>3, <2>3 DEF Live
  <2>4. QED
    BY <2>1, <2>2, <2>3
<1>4. QED
  BY <1>1, <1>3 DEF Exclusive, Apart

\* What the arrival of a request comes to: one in progress, unless two overlap now.
Arrived(c) ==
    /\ Others(c) /\ UNCHANGED node /\ call'[c].pc = "check"
    /\ ~overlapped' => ~overlapped /\ Quiet

\* An arrival is one.
LEMMA ArriveEffect ==
    ASSUME HandlersInv, NEW c \in Caller, NEW r, Arrive(c, r), r.pc = "check"
    PROVE  Arrived(c)
  BY DEF Arrive, Arrived, Others, HandlersInv

\* A rollback starts with the checks again.
LEMMA UndoneCheck ==
    ASSUME NEW r \in Call
    PROVE  Undone(r).pc = "check"
  BY DEF Undone, Call

\* Every step preserves it.
LEMMA StepExclusive ==
    ASSUME HandlersInv, Exclusive, [Next]_vars
    PROVE  Exclusive'
<1>1. CASE UNCHANGED vars
  BY <1>1 DEF vars, Exclusive, Apart, Live, Conflict
<1>2. ASSUME NEW c \in Caller, CreateNode(c) \/ UpdateNode(c) \/ DeleteNode(c) PROVE Exclusive'
  <2>1. Arrived(c)
    <3>1. CASE CreateNode(c)
      <4>1. PICK i \in Id \ Live, ep \in Endpoint, backend \in Service \cup {None}, name \in Name :
              Arrive(c, [Idle EXCEPT !.pc = "check", !.op = "create", !.id = i, !.ep = ep,
                                     !.backend = backend, !.name = name])
        BY <3>1 DEF CreateNode
      <4>2. QED
        BY <4>1, ArriveEffect DEF Idle
    <3>2. CASE UpdateNode(c)
      <4>1. PICK i \in Live, ep \in Endpoint, backend \in Service \cup {None}, name \in Name :
              Arrive(c, [Idle EXCEPT !.pc = "check", !.op = "update", !.id = i, !.ep = ep,
                                     !.backend = backend, !.name = name, !.old = node[i],
                                     !.deps = Dependents(i, ep)])
        BY <3>2 DEF UpdateNode
      <4>2. QED
        BY <4>1, ArriveEffect DEF Idle
    <3>3. CASE DeleteNode(c)
      <4>1. PICK i \in Live : Arrive(c, [Idle EXCEPT !.pc = "check", !.op = "delete", !.id = i])
        BY <3>3 DEF DeleteNode
      <4>2. QED
        BY <4>1, ArriveEffect DEF Idle
    <3>4. QED
      BY <1>2, <3>1, <3>2, <3>3
  <2>2. QED
    BY <2>1, RequestExclusive DEF Arrived
<1>3. ASSUME NEW c \in Caller, Check(c) \/ ReadRevision(c) \/ Answer(c) \/ CheckDelete(c)
      PROVE  Exclusive'
  <2>0. call[c].pc # "idle" /\ UNCHANGED <<node, overlapped>>
    BY <1>3 DEF Check, ReadRevision, Answer, CheckDelete, Refused, storeVars
  <2>1. /\ Others(c)
        /\ call'[c].pc \in {"read", "commit"} =>
              /\ call'[c].id = call[c].id /\ call'[c].ep = call[c].ep
              /\ call[c].pc = "read" \/ ~Conflict(call[c].id, call[c].ep)
    <3>0. call \in [Caller -> Call]
      BY DEF HandlersInv, TypeOK
    <3>1. CASE Check(c)
      BY <3>0, <3>1 DEF Check, Refused, Done, Goto, Idle, Call, Others
    <3>2. CASE ReadRevision(c)
      BY <3>0, <3>2 DEF ReadRevision, Refused, Done, Goto, Idle, Call, Others
    <3>3. CASE Answer(c) \/ CheckDelete(c)
      BY <3>0, <3>3 DEF Answer, CheckDelete, Done, Goto, Idle, Call, Others
    <3>4. QED
      BY <1>3, <3>1, <3>2, <3>3
  <2>2. ~overlapped /\ call'[c].pc \in {"read", "commit"} => ~Conflict(call'[c].id, call'[c].ep)
    BY <2>1 DEF Exclusive
  <2>3. QED
    BY <2>0, <2>1, <2>2, RequestExclusive
<1>4. ASSUME NEW c \in Caller, CommitCreate(c) \/ CommitUpdate(c) \/ DeleteRow(c) PROVE Exclusive'
  <2> DEFINE i == call[c].id
  <2>0. i \in Id /\ call[c].pc # "idle" /\ UNCHANGED overlapped /\ node \in [Id -> Row \cup {None}]
    BY <1>4, CallType DEF CommitCreate, CommitUpdate, DeleteRow, HandlersInv, TypeOK, StoreTypeOK
  <2>1. Others(c) /\ call'[c].pc \notin {"read", "commit"}
    <3>0. call \in [Caller -> Call]
      BY DEF HandlersInv, TypeOK
    <3>1. \/ call' = [call EXCEPT ![c].pc = "apply"]
          \/ call' = [call EXCEPT ![c] = Idle]
      BY <1>4 DEF CommitCreate, CommitUpdate, DeleteRow, Refused, Done, Goto
    <3>2. QED
      BY <3>0, <3>1 DEF Idle, Call, Others
  <2>2. \/ UNCHANGED node
        \/ \E v \in Row \cup {None} :
              /\ node' = [node EXCEPT ![i] = v]
              /\ v = None \/ v.ep = call[c].ep
              /\ call[c].pc = "commit" \/ v = None
    <3>1. CASE CommitCreate(c)
      <4>1. CASE UNCHANGED node
        BY <4>1
      <4>2. CASE Insert(i, call[c].ep, call[c].backend, call[c].name)
        <5> DEFINE v == [ep |-> call[c].ep, backend |-> call[c].backend,
                         name |-> call[c].name, rev |-> 1]
        <5>1. v \in Row /\ v.ep = call[c].ep
          BY <3>1, CallType DEF CommitCreate, Row, Call
        <5>2. node' = [node EXCEPT ![i] = v] /\ call[c].pc = "commit"
          BY <3>1, <4>2 DEF CommitCreate, Insert
        <5>3. QED
          BY <5>1, <5>2
      <4>3. QED
        BY <3>1, <4>1, <4>2 DEF CommitCreate, Refused, storeVars
    <3>2. CASE CommitUpdate(c)
      <4>1. CASE UNCHANGED node
        BY <4>1
      <4>2. CASE Update(i, call[c].ep, call[c].backend, call[c].name, call[c].rev + 1)
        <5> DEFINE v == [ep |-> call[c].ep, backend |-> call[c].backend,
                         name |-> call[c].name, rev |-> call[c].rev + 1]
        <5>1. v \in Row /\ v.ep = call[c].ep
          BY <3>2, CallType DEF CommitUpdate, Row, Call
        <5>2. node' = [node EXCEPT ![i] = IF node[i] = None THEN None ELSE v] /\ call[c].pc = "commit"
          BY <2>0, <3>2, <4>2 DEF CommitUpdate, Update
        <5>3. QED
          BY <5>1, <5>2
      <4>3. QED
        BY <3>2, <4>1, <4>2 DEF CommitUpdate, Refused, storeVars
    <3>3. CASE DeleteRow(c)
      BY <3>3 DEF DeleteRow, Remove
    <3>4. QED
      BY <1>4, <3>1, <3>2, <3>3
  <2>3. CASE UNCHANGED node
    BY <2>0, <2>1, <2>3, RequestExclusive
  <2>4. ASSUME NEW v \in Row \cup {None}, node' = [node EXCEPT ![i] = v], v = None \/ v.ep = call[c].ep,
               call[c].pc = "commit" \/ v = None
        PROVE  Exclusive'
    <3>1. node'[i] = v /\ \A j \in Id \ {i} : node'[j] = node[j]
      BY <2>0, <2>4
    <3>2. v = None \/ overlapped \/ \A j \in Live \ {i} : ~Clash(node[j].ep, v.ep)
      BY <2>4 DEF Exclusive, Conflict
    <3>3. QED
      BY <2>0, <2>1, <3>1, <3>2, WriteExclusive
  <2>5. QED
    BY <2>2, <2>3, <2>4
<1>5. ASSUME NEW c \in Caller, ApplyNode(c) \/ ApplyDependent(c) PROVE Exclusive'
  <2>1. call[c].pc # "idle" /\ UNCHANGED <<node, overlapped>>
    BY <1>5 DEF ApplyNode, ApplyDependent
  <2>2. Others(c) /\ call'[c].pc \notin {"read", "commit"}
    <3>0. call \in [Caller -> Call]
      BY DEF HandlersInv, TypeOK
    <3>1. CASE ApplyNode(c)
      <4>1. \/ call' = [call EXCEPT ![c].pc = "dependents",
                                   ![c].todo = IF call[c].undo THEN @ ELSE call[c].deps]
            \/ call' = [call EXCEPT ![c] =
                          IF call[c].op = "create" THEN Idle
                          ELSE IF call[c].undo THEN [call[c] EXCEPT !.pc = "dependents"]
                          ELSE Undone(call[c])]
        BY <3>1, Zenon DEF ApplyNode
      <4>2. QED
        BY <3>0, <4>1, UndoneCheck DEF Idle, Call, Others
    <3>2. CASE ApplyDependent(c)
      <4>1. PICK i \in call[c].todo :
              \/ call' = [call EXCEPT ![c].todo = @ \ {i}]
              \/ call' = [call EXCEPT ![c] = [call[c] EXCEPT !.todo = @ \ {i}]]
              \/ call' = [call EXCEPT ![c] = Undone(call[c])]
        BY <3>2, Zenon DEF ApplyDependent
      <4>2. call[c].pc = "dependents"
        BY <3>2 DEF ApplyDependent
      <4>3. QED
        BY <3>0, <4>1, <4>2, UndoneCheck DEF Call, Others
    <3>3. QED
      BY <1>5, <3>1, <3>2
  <2>3. QED
    BY <2>1, <2>2, RequestExclusive
<1>6. CASE Maintain
  <2>1. UNCHANGED <<node, overlapped>>
    BY <1>6 DEF Maintain, TrimRevisions
  <2>2. \A d \in Caller : /\ call'[d].pc = call[d].pc /\ call'[d].id = call[d].id
                          /\ call'[d].ep = call[d].ep
    BY <1>6, CallType DEF Maintain, Call
  <2>3. QED
    BY <2>1, <2>2 DEF Exclusive, Apart, Live, Conflict
<1>7. ASSUME NEW i \in Id, RestartFront(i) PROVE Exclusive'
  BY <1>7 DEF RestartFront, Exclusive, Apart, Live, Conflict
<1>8. QED
  BY <1>1, <1>2, <1>3, <1>4, <1>5, <1>6, <1>7 DEF Next, Step

-----------------------------------------------------------------------------
\* Each variable has its type, and what a request carries suffices for its next step,
\* whichever of its parts was refused or rolled back.
THEOREM HandlersTypeCorrect == Spec => []TypeOK
<1>1. HandlersInv => TypeOK
  BY DEF HandlersInv
<1>2. QED
  BY <1>1, InitInv, HandlersStep, PTL DEF Spec

\* Every ShadowTLS node has a backend that exists and is of the right type, for any
\* number of requests that create, edit, roll back and delete nodes at once: the
\* checks of the requests alone do not see to it, the transactions' constraints do.
THEOREM BackendAlwaysServes == Spec => []BackendServes
<1>1. HandlersInv => BackendServes
  BY DEF HandlersInv
<1>2. QED
  BY <1>1, InitInv, HandlersStep, PTL DEF Spec

\* As long as requests do not overlap no two nodes claim one port or one VPN pool: what
\* Store.checkConflict has seen is still so when the request writes, also in a rollback.
THEOREM PortsStayExclusive == Spec => []PortsExclusive
<1>1. ExclusiveInv => PortsExclusive
  BY DEF ExclusiveInv, Exclusive, Apart, PortsExclusive
<1>2. Init => ExclusiveInv
  BY InitInv, InitExclusive DEF ExclusiveInv
<1>3. ExclusiveInv /\ [Next]_vars => ExclusiveInv'
  BY HandlersStep, StepExclusive DEF ExclusiveInv
<1>4. QED
  BY <1>1, <1>2, <1>3, PTL DEF Spec

-----------------------------------------------------------------------------
(* Revisions: what an edit writes is the next revision, unless maintenance   *)
(* has removed the one another request wrote meanwhile.                      *)

\* Since a request that is about to commit has read a node's revision, no more than
\* KeepRevisions others were committed.
HistoryLong ==
    \A c \in Caller : call[c].pc = "commit" /\ call[c].op = "update" =>
        \A r \in revisions[call[c].id] : r.rev - call[c].rev <= KeepRevisions

\* m revisions of node i have been written, and the newest are there, one row each.
Recorded(i, m) ==
    /\ \A r \in revisions[i] : r.rev \in 1 .. m
    /\ \A r, s \in revisions[i] : r.rev = s.rev => r = s
    /\ \A k \in 1 .. m : k > m - KeepRevisions => \E r \in revisions[i] : r.rev = k
    /\ node[i] # None => node[i].rev = m /\ [rev |-> m, name |-> node[i].name] \in revisions[i]

\* No request has read a revision that was not yet there.
Read(i, m) == \A c \in Caller : call[c].pc = "commit" /\ call[c].id = i => call[c].rev <= m

\* A node that is being created is known to no other request.
Fresh ==
    \A c \in Caller : call[c].op = "create" /\ call[c].pc \in {"check", "read", "commit"} =>
        /\ call[c].rev = 0 /\ revisions[call[c].id] = {}
        /\ \A d \in Caller \ {c} : call[d].id # call[c].id

\* RevisionRecorded made inductive.
History == Fresh /\ \A i \in Id : \E m \in Nat : Recorded(i, m) /\ Read(i, m)

LEMMA InitHistory == Init => History
<1> SUFFICES ASSUME Init PROVE History
  OBVIOUS
<1> USE NodeStoreAssumption
<1>1. Fresh
  BY DEF Init, Fresh, Idle
<1>2. ASSUME NEW i \in Id PROVE \E m \in Nat : Recorded(i, m) /\ Read(i, m)
  <2>1. \A m \in Nat : Read(i, m)
    BY DEF Init, Read, Idle
  <2>2. CASE node[i] = None
    <3>1. revisions[i] = {}
      BY <2>2 DEF Init
    <3>2. Recorded(i, 0)
      BY <2>2, <3>1 DEF Recorded
    <3>3. QED
      BY <2>1, <3>2
  <2>3. CASE node[i] # None
    <3>1. node[i].rev = 1 /\ revisions[i] = {[rev |-> 1, name |-> node[i].name]}
      BY <2>3 DEF Init
    <3>2. Recorded(i, 1)
      BY <2>3, <3>1 DEF Recorded
    <3>3. QED
      BY <2>1, <3>2
  <2>4. QED
    BY <2>2, <2>3
<1>3. QED
  BY <1>1, <1>2 DEF History

-----------------------------------------------------------------------------
(* One node.                                                                *)

\* Maintenance keeps the newest KeepRevisions.
LEMMA TrimRecorded ==
    ASSUME StoreTypeOK, NEW i \in Id, NEW m \in Nat, Recorded(i, m), TrimRevisions
    PROVE  Recorded(i, m)'
<1> USE NodeStoreAssumption
<1>1. node' = node /\ revisions'[i] = Kept(i) /\ Kept(i) \subseteq revisions[i]
  BY DEF TrimRevisions, Kept
<1>2. ASSUME NEW r \in revisions[i], r.rev > m - KeepRevisions PROVE r \in Kept(i)
  <2> DEFINE later == {s \in revisions[i] : s.rev > r.rev}
             f == [s \in later |-> s.rev]
  <2>1. r.rev \in 1 .. m /\ r.rev + 1 \in Int /\ m \in Int
    BY DEF Recorded
  <2>2. f \in Injection(later, r.rev + 1 .. m)
    <3>1. f \in [later -> r.rev + 1 .. m]
      BY <2>1 DEF Recorded
    <3>2. \A s, t \in later : f[s] = f[t] => s = t
      BY DEF Recorded
    <3>3. QED
      BY <3>1, <3>2 DEF Injection, IsInjective
  <2>3. /\ IsFiniteSet(r.rev + 1 .. m)
        /\ Cardinality(r.rev + 1 .. m) = IF r.rev + 1 > m THEN 0 ELSE m - (r.rev + 1) + 1
    BY <2>1, FS_Interval
  <2>4. IsFiniteSet(later) /\ Cardinality(later) <= Cardinality(r.rev + 1 .. m)
    <3> HIDE DEF later, f
    <3>1. QED
      BY <2>2, <2>3, FS_Injection
  <2>5. Cardinality(later) \in Nat
    BY <2>4, FS_CardinalityType
  <2>6. Cardinality(later) < KeepRevisions
    BY <1>2, <2>1, <2>3, <2>4, <2>5
  <2>7. QED
    BY <2>6 DEF Kept
<1>3. node[i] # None => m >= 1
  BY DEF Recorded
<1>4. QED
  BY <1>1, <1>2, <1>3 DEF Recorded

\* A first revision.
LEMMA InsertRecorded ==
    ASSUME StoreTypeOK, NEW i \in Id, revisions[i] = {}, NEW ep, NEW backend, NEW name,
           Insert(i, ep, backend, name)
    PROVE  Recorded(i, 1)'
<1>1. /\ node'[i] = [ep |-> ep, backend |-> backend, name |-> name, rev |-> 1]
      /\ revisions'[i] = {[rev |-> 1, name |-> name]}
  BY DEF Insert, StoreTypeOK
<1>2. QED
  BY <1>1 DEF Recorded

\* A commit that is not refused writes the next revision.
LEMMA UpdateNext ==
    ASSUME NEW i \in Id, NEW m \in Nat, Recorded(i, m), NEW v \in Nat, v <= m,
           \A r \in revisions[i] : r.rev - v <= KeepRevisions, NewRevision(i, v + 1)
    PROVE  v = m
<1> USE NodeStoreAssumption
<1> SUFFICES ASSUME v < m PROVE FALSE
  OBVIOUS
<1>1. \E r \in revisions[i] : r.rev = m
  BY DEF Recorded
<1>2. v + 1 \in 1 .. m /\ v + 1 > m - KeepRevisions
  BY <1>1
<1>3. QED
  BY <1>2 DEF Recorded, NewRevision

LEMMA UpdateRecorded ==
    ASSUME StoreTypeOK, NEW i \in Id, NEW m \in Nat, NEW n \in Nat, n = m + 1, Recorded(i, m),
           NEW ep, NEW backend, NEW name,
           Update(i, ep, backend, name, n)
    PROVE  Recorded(i, n)'
<1> DEFINE new == [rev |-> n, name |-> name]
<1>1. /\ node'[i] = IF node[i] = None THEN None
                    ELSE [ep |-> ep, backend |-> backend, name |-> name, rev |-> n]
      /\ revisions'[i] = revisions[i] \cup {new}
  BY DEF Update, StoreTypeOK
<1>2. \A r \in revisions[i] : r.rev \in 1 .. m
  BY DEF Recorded
<1>3. \A r, s \in revisions'[i] : r.rev = s.rev => r = s
  BY <1>1, <1>2 DEF Recorded
<1>4. ASSUME NEW k \in 1 .. n, k > n - KeepRevisions
      PROVE  \E r \in revisions'[i] : r.rev = k
  <2>1. CASE k = n
    <3>1. new \in revisions'[i] /\ new.rev = k
      BY <1>1, <2>1
    <3>2. QED
      BY <3>1
  <2>2. CASE k \in 1 .. m
    BY <1>1, <1>4, <2>2, NodeStoreAssumption DEF Recorded
  <2>3. QED
    BY <2>1, <2>2
<1>5. node'[i] # None => node'[i].rev = n /\ [rev |-> n, name |-> node'[i].name] \in revisions'[i]
  BY <1>1
<1>6. \A r \in revisions'[i] : r.rev \in 1 .. n
  BY <1>1, <1>2
<1>7. \A k \in 1 .. n : k > n - KeepRevisions => \E r \in revisions'[i] : r.rev = k
  BY <1>4
<1> HIDE DEF new
<1>8. QED
  BY <1>3, <1>5, <1>6, <1>7 DEF Recorded

-----------------------------------------------------------------------------
(* The requests.                                                            *)

\* Nothing a request reads or starts without touching the tables.
LEMMA ReadKept ==
    ASSUME History, UNCHANGED storeVars,
           \A d \in Caller : call'[d].pc = "commit" =>
               \/ call[d].pc = "commit" /\ call'[d].id = call[d].id /\ call'[d].rev = call[d].rev
               \/ call'[d].rev = 0
               \/ node[call'[d].id] # None /\ call'[d].rev = node[call'[d].id].rev
    PROVE  \A i \in Id : \E m \in Nat : Recorded(i, m)' /\ Read(i, m)'
<1> SUFFICES ASSUME NEW i \in Id PROVE \E m \in Nat : Recorded(i, m)' /\ Read(i, m)'
  OBVIOUS
<1>1. PICK m \in Nat : Recorded(i, m) /\ Read(i, m)
  BY DEF History
<1>2. Recorded(i, m)'
  BY <1>1 DEF Recorded, storeVars
<1>3. ASSUME NEW d \in Caller, call'[d].pc = "commit", call'[d].id = i PROVE call'[d].rev <= m
  BY <1>1, <1>3 DEF Recorded, Read
<1>4. Read(i, m)'
  BY <1>3 DEF Read
<1>5. QED
  BY <1>2, <1>4

LEMMA FreshKept ==
    ASSUME HandlersInv, Fresh,
           \A d \in Caller : call'[d].op = "create" /\ call'[d].pc \in {"check", "read", "commit"} =>
               /\ call[d].op = "create" /\ call[d].pc \in {"check", "read", "commit"}
               /\ call'[d].id = call[d].id /\ call'[d].rev = call[d].rev
               /\ revisions'[call[d].id] = revisions[call[d].id],
           \A d \in Caller : call'[d].id \in {call[d].id, None}
    PROVE  Fresh'
<1> SUFFICES ASSUME NEW d \in Caller, call'[d].op = "create", call'[d].pc \in {"check", "read", "commit"}
             PROVE  /\ call'[d].rev = 0 /\ revisions'[call'[d].id] = {}
                    /\ \A e \in Caller \ {d} : call'[e].id # call'[d].id
  BY DEF Fresh
<1>1. /\ call[d].op = "create" /\ call[d].pc \in {"check", "read", "commit"}
      /\ call'[d].id = call[d].id /\ call'[d].rev = call[d].rev
      /\ revisions'[call[d].id] = revisions[call[d].id]
  OBVIOUS
<1>2. call[d].id # None
  BY <1>1, CallType, NodeStoreAssumption
<1>3. QED
  BY <1>1, <1>2 DEF Fresh

\* A node that is there has a history.
LEMMA LiveRecorded ==
    ASSUME History, NEW i \in Live
    PROVE  i \in Id /\ revisions[i] # {}
  BY DEF History, Live, Recorded

\* What arrives: an edit of a node that is there, or a creation under a fresh id.
LEMMA ArriveCheck ==
    ASSUME NEW c \in Caller, CreateNode(c) \/ UpdateNode(c) \/ DeleteNode(c)
    PROVE  \E r : /\ Arrive(c, r) /\ r.pc = "check" /\ r.rev = 0
                  /\ \/ r.op # "create" /\ r.id \in Live
                     \/ revisions[r.id] = {} /\ \A d \in Caller : call[d].id # r.id
<1>1. CASE CreateNode(c)
  <2>1. PICK i \in Id \ Live, ep \in Endpoint, backend \in Service \cup {None}, name \in Name :
          /\ revisions[i] = {} /\ \A d \in Caller : call[d].id # i
          /\ Arrive(c, [Idle EXCEPT !.pc = "check", !.op = "create", !.id = i, !.ep = ep,
                                    !.backend = backend, !.name = name])
    BY <1>1 DEF CreateNode
  <2> DEFINE r == [Idle EXCEPT !.pc = "check", !.op = "create", !.id = i, !.ep = ep,
                               !.backend = backend, !.name = name]
  <2>2. r.pc = "check" /\ r.rev = 0 /\ r.id = i
    BY DEF Idle
  <2> HIDE DEF r
  <2>3. QED
    BY <2>1, <2>2 DEF r
<1>2. CASE UpdateNode(c)
  <2>1. PICK i \in Live, ep \in Endpoint, backend \in Service \cup {None}, name \in Name :
          Arrive(c, [Idle EXCEPT !.pc = "check", !.op = "update", !.id = i, !.ep = ep,
                                 !.backend = backend, !.name = name, !.old = node[i],
                                 !.deps = Dependents(i, ep)])
    BY <1>2 DEF UpdateNode
  <2> DEFINE r == [Idle EXCEPT !.pc = "check", !.op = "update", !.id = i, !.ep = ep,
                               !.backend = backend, !.name = name, !.old = node[i],
                               !.deps = Dependents(i, ep)]
  <2>2. r.pc = "check" /\ r.rev = 0 /\ r.id = i /\ r.op = "update"
    BY DEF Idle
  <2> HIDE DEF r
  <2>3. QED
    BY <2>1, <2>2 DEF r
<1>3. CASE DeleteNode(c)
  <2>1. PICK i \in Live : Arrive(c, [Idle EXCEPT !.pc = "check", !.op = "delete", !.id = i])
    BY <1>3 DEF DeleteNode
  <2> DEFINE r == [Idle EXCEPT !.pc = "check", !.op = "delete", !.id = i]
  <2>2. r.pc = "check" /\ r.rev = 0 /\ r.id = i /\ r.op = "delete"
    BY DEF Idle
  <2> HIDE DEF r
  <2>3. QED
    BY <2>1, <2>2 DEF r
<1>4. QED
  BY <1>1, <1>2, <1>3

LEMMA ArriveHistory ==
    ASSUME HandlersInv, History, NEW c \in Caller, CreateNode(c) \/ UpdateNode(c) \/ DeleteNode(c)
    PROVE  History'
<1> USE NodeStoreAssumption
<1>0. call \in [Caller -> Call]
  BY DEF HandlersInv, TypeOK
<1>1. PICK r : /\ Arrive(c, r) /\ r.pc = "check" /\ r.rev = 0
               /\ \/ r.op # "create" /\ r.id \in Live
                  \/ revisions[r.id] = {} /\ \A d \in Caller : call[d].id # r.id
  BY ArriveCheck
<1>2. /\ call'[c] = r /\ (\A d \in Caller \ {c} : call'[d] = call[d])
      /\ UNCHANGED storeVars
  BY <1>0, <1>1 DEF Arrive, storeVars
<1>3. \A i \in Id : \E m \in Nat : Recorded(i, m)' /\ Read(i, m)'
  BY <1>1, <1>2, ReadKept
<1>4. Fresh'
  <2> SUFFICES ASSUME NEW d \in Caller, call'[d].op = "create", call'[d].pc \in {"check", "read", "commit"}
               PROVE  /\ call'[d].rev = 0 /\ revisions[call'[d].id] = {}
                      /\ \A e \in Caller \ {d} : call'[e].id # call'[d].id
    BY <1>2 DEF Fresh, storeVars
  <2>1. CASE d = c
    BY <1>1, <1>2, <2>1
  <2>2. CASE d # c
    <3>1. /\ call[d].rev = 0 /\ revisions[call[d].id] = {} /\ call'[d] = call[d]
          /\ \A e \in Caller \ {d} : call[e].id # call[d].id
      BY <1>2, <2>2 DEF History, Fresh
    <3>2. r.id # call[d].id
      BY <1>1, <3>1, LiveRecorded
    <3>3. QED
      BY <1>2, <3>1, <3>2
  <2>3. QED
    BY <2>1, <2>2
<1>5. QED
  BY <1>3, <1>4 DEF History

LEMMA RefusedCall ==
    ASSUME HandlersInv, NEW c \in Caller, Refused(c)
    PROVE  /\ UNCHANGED storeVars /\ call'[c].pc \in {"idle", "apply"}
           /\ call'[c].id \in {call[c].id, None}
           /\ \A d \in Caller \ {c} : call'[d] = call[d]
<1>1. call \in [Caller -> Call]
  BY DEF HandlersInv, TypeOK
<1>2. QED
  BY <1>1 DEF Refused, Goto, Done, Idle, Call

\* A request that takes no part in a commit.
LEMMA QuietHistory ==
    ASSUME HandlersInv, History, NEW c \in Caller, UNCHANGED storeVars,
           \A d \in Caller \ {c} : call'[d] = call[d],
           call'[c].pc # "commit", call'[c].op = "create" => call'[c].pc \notin {"check", "read"},
           call'[c].id \in {call[c].id, None}
    PROVE  History'
<1>1. \A i \in Id : \E m \in Nat : Recorded(i, m)' /\ Read(i, m)'
  BY ReadKept
<1>2. Fresh'
  BY FreshKept DEF History, storeVars
<1>3. QED
  BY <1>1, <1>2 DEF History

LEMMA RefusedHistory ==
    ASSUME HandlersInv, History, NEW c \in Caller, Refused(c)
    PROVE  History'
<1>1. /\ UNCHANGED storeVars /\ call'[c].pc \in {"idle", "apply"}
      /\ call'[c].id \in {call[c].id, None}
      /\ \A d \in Caller \ {c} : call'[d] = call[d]
  BY RefusedCall
<1>2. call'[c].pc # "commit" /\ call'[c].pc \notin {"check", "read"}
  BY <1>1
<1>3. QED
  BY <1>1, <1>2, QuietHistory

LEMMA RequestHistory ==
    ASSUME HandlersInv, History, NEW c \in Caller,
           Check(c) \/ ReadRevision(c) \/ Answer(c) \/ CheckDelete(c) \/ ApplyNode(c) \/ ApplyDependent(c)
    PROVE  History'
<1> DEFINE r == call[c]
<1>0. call \in [Caller -> Call] /\ r \in Call
  BY DEF HandlersInv, TypeOK
<1>1. CASE Check(c)
  <2>1. CASE Refused(c)
    BY <2>1, RefusedHistory
  <2>2. CASE ~Refused(c) /\ r.op = "create"
    <3>1. /\ r.pc = "check" /\ UNCHANGED storeVars /\ call'[c] = [r EXCEPT !.pc = "commit"]
          /\ \A d \in Caller \ {c} : call'[d] = call[d]
      BY <1>0, <1>1, <2>2 DEF Check, Goto
    <3>2. call'[c].id = r.id /\ call'[c].rev = r.rev /\ r.rev = 0
      BY <1>0, <2>2, <3>1 DEF Call, History, Fresh
    <3>3. \A i \in Id : \E m \in Nat : Recorded(i, m)' /\ Read(i, m)'
      BY <3>1, <3>2, ReadKept
    <3>4. Fresh'
      BY <2>2, <3>1, <3>2, FreshKept DEF History, storeVars
    <3>5. QED
      BY <3>3, <3>4 DEF History
  <2>3. CASE ~Refused(c) /\ r.op # "create"
    <3>1. /\ UNCHANGED storeVars /\ call'[c] = [r EXCEPT !.pc = "read"]
          /\ \A d \in Caller \ {c} : call'[d] = call[d]
      BY <1>0, <1>1, <2>3 DEF Check, Goto
    <3>2. call'[c].id = r.id /\ call'[c].pc = "read" /\ call'[c].op # "create"
      BY <1>0, <2>3, <3>1 DEF Call
    <3>3. QED
      BY <3>1, <3>2, QuietHistory
  <2>4. QED
    BY <2>1, <2>2, <2>3
<1>2. CASE ReadRevision(c)
  <2>1. CASE Refused(c)
    BY <2>1, RefusedHistory
  <2>2. CASE node[r.id] # None
    <3>1. /\ r.pc = "read" /\ UNCHANGED storeVars
          /\ call'[c] = [r EXCEPT !.pc = "commit", !.rev = node[r.id].rev]
          /\ \A d \in Caller \ {c} : call'[d] = call[d]
      BY <1>0, <1>2, <2>2 DEF ReadRevision
    <3>2. call'[c].id = r.id /\ call'[c].rev = node[r.id].rev /\ call'[c].op = r.op
      BY <1>0, <3>1 DEF Call
    <3>3. r.op # "create"
      BY <2>2, <3>1, CallType, LiveRecorded DEF History, Fresh, Live
    <3>4. \A i \in Id : \E m \in Nat : Recorded(i, m)' /\ Read(i, m)'
      BY <2>2, <3>1, <3>2, ReadKept
    <3>5. Fresh'
      BY <3>1, <3>2, <3>3, FreshKept DEF History, storeVars
    <3>6. QED
      BY <3>4, <3>5 DEF History
  <2>3. QED
    BY <1>2, <2>1, <2>2 DEF ReadRevision
<1>3. CASE Answer(c) \/ CheckDelete(c)
  <2>1. /\ UNCHANGED storeVars /\ \A d \in Caller \ {c} : call'[d] = call[d]
        /\ call'[c] \in {Idle, [r EXCEPT !.pc = "delete"]}
    BY <1>0, <1>3 DEF Answer, CheckDelete, Done, Goto, storeVars
  <2>2. call'[c].pc # "commit" /\ call'[c].pc \notin {"check", "read"} /\ call'[c].id \in {r.id, None}
    BY <1>0, <2>1 DEF Idle, Call
  <2>3. QED
    BY <2>1, <2>2, QuietHistory
<1>4. CASE ApplyNode(c) \/ ApplyDependent(c)
  <2>1. /\ UNCHANGED storeVars /\ \A d \in Caller \ {c} : call'[d] = call[d]
        /\ r.pc \in {"apply", "dependents"}
    BY <1>0, <1>4 DEF ApplyNode, ApplyDependent, storeVars
  <2>2. r.op # "delete"
    BY <2>1, CallType
  <2>3. \/ call'[c].pc \in {"dependents", "idle"} /\ call'[c].id \in {r.id, None}
        \/ r.op = "update" /\ call'[c] = Undone(r)
    <3>1. CASE ApplyNode(c)
      BY <1>0, <2>2, <3>1 DEF ApplyNode, Idle, Call
    <3>2. CASE ApplyDependent(c)
      <4>1. r.op = "create" => r.todo = {}
        BY <2>1, CallType DEF KnownCall, Known
      <4>2. PICK i \in r.todo : call'[c] \in {[r EXCEPT !.todo = @ \ {i}], Undone(r)}
        BY <1>0, <3>2 DEF ApplyDependent
      <4>3. r.pc = "dependents" /\ r.op = "update"
        BY <2>2, <3>2, <4>1, <4>2, <1>0 DEF ApplyDependent, Call
      <4>4. QED
        BY <1>0, <4>2, <4>3 DEF Call
    <3>3. QED
      BY <1>4, <3>1, <3>2
  <2>4. /\ call'[c].pc # "commit" /\ (call'[c].op = "create" => call'[c].pc \notin {"check", "read"})
        /\ call'[c].id \in {r.id, None}
    <3>1. ASSUME r.op = "update", call'[c] = Undone(r)
          PROVE  call'[c].pc = "check" /\ call'[c].op = "update" /\ call'[c].id = r.id
      BY <1>0, <3>1 DEF Undone, Call
    <3>2. QED
      BY <2>3, <3>1
  <2>5. QED
    BY <2>1, <2>4, QuietHistory
<1>5. QED
  BY <1>1, <1>2, <1>3, <1>4

\* A node that a transaction leaves alone.
LEMMA OtherRecorded ==
    ASSUME NEW i \in Id, NEW m \in Nat, Recorded(i, m), node'[i] = node[i], revisions'[i] = revisions[i]
    PROVE  Recorded(i, m)'
  BY DEF Recorded

LEMMA CommitHistory ==
    ASSUME HandlersInv, HistoryLong, History, NEW c \in Caller,
           CommitCreate(c) \/ CommitUpdate(c) \/ DeleteRow(c)
    PROVE  History'
<1> DEFINE r == call[c]
<1>0. /\ call \in [Caller -> Call] /\ r \in Call /\ StoreTypeOK /\ r.id \in Id
      /\ r.pc \in {"commit", "delete"}
  BY CallType DEF HandlersInv, TypeOK, CommitCreate, CommitUpdate, DeleteRow
<1>1. CASE Refused(c)
  BY <1>1, RefusedHistory
<1>2. CASE CommitCreate(c) /\ Insert(r.id, r.ep, r.backend, r.name) /\ Goto(c, "apply")
  <2>1. /\ call'[c] = [r EXCEPT !.pc = "apply"] /\ (\A d \in Caller \ {c} : call'[d] = call[d])
        /\ r.op = "create" /\ r.pc = "commit"
        /\ \A i \in Id \ {r.id} : node'[i] = node[i] /\ revisions'[i] = revisions[i]
    BY <1>0, <1>2 DEF Goto, CommitCreate, Insert, StoreTypeOK
  <2>2. call'[c].id = r.id /\ call'[c].pc = "apply"
    BY <1>0, <2>1 DEF Call
  <2>3. revisions[r.id] = {} /\ \A d \in Caller \ {c} : call[d].id # r.id
    BY <2>1 DEF History, Fresh
  <2>4. ASSUME NEW i \in Id PROVE \E m \in Nat : Recorded(i, m)' /\ Read(i, m)'
    <3>1. CASE i = r.id
      <4>1. Recorded(i, 1)'
        BY <1>0, <1>2, <2>3, <3>1, InsertRecorded
      <4>2. ASSUME NEW d \in Caller, call'[d].pc = "commit" PROVE call'[d].id # i
        <5>1. d # c /\ call'[d] = call[d]
          BY <2>1, <2>2, <4>2
        <5>2. QED
          BY <2>3, <3>1, <5>1
      <4>3. Read(i, 1)'
        BY <4>2 DEF Read
      <4>4. QED
        BY <4>1, <4>3
    <3>2. CASE i # r.id
      <4>1. PICK m \in Nat : Recorded(i, m) /\ Read(i, m)
        BY DEF History
      <4>2. Recorded(i, m)'
        BY <2>1, <3>2, <4>1, OtherRecorded
      <4>3. Read(i, m)'
        BY <2>1, <2>2, <4>1 DEF Read
      <4>4. QED
        BY <4>2, <4>3
    <3>3. QED
      BY <3>1, <3>2
  <2>5. ASSUME NEW d \in Caller, call'[d].op = "create", call'[d].pc \in {"check", "read", "commit"}
        PROVE  call'[d] = call[d] /\ call[d].id \in Id \ {r.id}
    BY <2>1, <2>2, <2>3, <2>5, CallType
  <2>6. Fresh'
    BY <2>1, <2>2, <2>5, FreshKept DEF History
  <2>7. QED
    BY <2>4, <2>6 DEF History
<1>3. CASE /\ CommitUpdate(c) /\ Updates(r.id, r.ep, r.backend, r.rev + 1)
           /\ Update(r.id, r.ep, r.backend, r.name, r.rev + 1)
           /\ Goto(c, "apply") \/ Done(c)
  <2>1. /\ call'[c] \in {[r EXCEPT !.pc = "apply"], Idle} /\ (\A d \in Caller \ {c} : call'[d] = call[d])
        /\ r.op = "update" /\ r.pc = "commit"
        /\ \A i \in Id \ {r.id} : node'[i] = node[i] /\ revisions'[i] = revisions[i]
    BY <1>0, <1>3 DEF Goto, Done, CommitUpdate, Update, StoreTypeOK
  <2>2. call'[c].id \in {r.id, None} /\ call'[c].pc \in {"apply", "idle"}
    BY <1>0, <2>1 DEF Call, Idle
  <2>3. \A d \in Caller : call[d].op = "create" /\ call[d].pc \in {"check", "read", "commit"} => call[d].id # r.id
    BY <2>1 DEF History, Fresh
  <2>4. ASSUME NEW i \in Id PROVE \E m \in Nat : Recorded(i, m)' /\ Read(i, m)'
    <3>1. PICK m \in Nat : Recorded(i, m) /\ Read(i, m)
      BY DEF History
    <3>2. CASE i = r.id
      <4>1. r.rev \in Nat /\ r.rev <= m /\ \A s \in revisions[i] : s.rev - r.rev <= KeepRevisions
        BY <1>0, <2>1, <3>1, <3>2 DEF Read, Call, HistoryLong
      <4>2. r.rev = m
        BY <1>3, <3>1, <3>2, <4>1, UpdateNext DEF Updates
      <4> DEFINE n == m + 1
      <4>3. n \in Nat /\ Update(i, r.ep, r.backend, r.name, n)
        BY <1>3, <3>2, <4>2
      <4>4. Recorded(i, n)'
        BY <1>0, <3>1, <4>3, UpdateRecorded
      <4>5. Read(i, n)'
        BY <2>1, <2>2, <3>1, <1>0 DEF Read, Call
      <4> HIDE DEF n
      <4>6. QED
        BY <4>3, <4>4, <4>5
    <3>3. CASE i # r.id
      <4>1. Recorded(i, m)'
        BY <2>1, <3>1, <3>3, OtherRecorded
      <4>2. Read(i, m)'
        BY <2>1, <2>2, <3>1 DEF Read
      <4>3. QED
        BY <4>1, <4>2
    <3>4. QED
      BY <3>2, <3>3
  <2>5. ASSUME NEW d \in Caller, call'[d].op = "create", call'[d].pc \in {"check", "read", "commit"}
        PROVE  call'[d] = call[d] /\ call[d].id \in Id \ {r.id}
    BY <2>1, <2>2, <2>3, <2>5, CallType
  <2>6. Fresh'
    BY <2>1, <2>2, <2>5, FreshKept DEF History
  <2>7. QED
    BY <2>4, <2>6 DEF History
<1>4. CASE DeleteRow(c)
  <2>1. /\ revisions' = revisions /\ (\A i \in Id : node'[i] \in {node[i], None})
        /\ call'[c] = Idle /\ \A d \in Caller \ {c} : call'[d] = call[d]
    BY <1>0, <1>4 DEF DeleteRow, Remove, Done, StoreTypeOK
  <2>2. call'[c].id = None /\ call'[c].pc = "idle"
    BY <2>1 DEF Idle
  <2>3. ASSUME NEW i \in Id PROVE \E m \in Nat : Recorded(i, m)' /\ Read(i, m)'
    <3>1. PICK m \in Nat : Recorded(i, m) /\ Read(i, m)
      BY DEF History
    <3>2. Recorded(i, m)'
      BY <2>1, <3>1 DEF Recorded
    <3>3. Read(i, m)'
      BY <2>1, <2>2, <3>1 DEF Read
    <3>4. QED
      BY <3>2, <3>3
  <2>4. Fresh'
    BY <2>1, <2>2, FreshKept DEF History
  <2>5. QED
    BY <2>3, <2>4 DEF History
<1>5. QED
  BY <1>1, <1>2, <1>3, <1>4 DEF CommitCreate, CommitUpdate

LEMMA MaintainHistory ==
    ASSUME HandlersInv, History, Maintain
    PROVE  History'
<1>0. call \in [Caller -> Call] /\ StoreTypeOK /\ TrimRevisions
  BY DEF HandlersInv, TypeOK, Maintain
<1>1. \A d \in Caller : /\ call'[d].pc = call[d].pc /\ call'[d].op = call[d].op
                        /\ call'[d].id = call[d].id /\ call'[d].rev = call[d].rev
  BY <1>0 DEF Maintain, Call
<1>2. ASSUME NEW i \in Id PROVE \E m \in Nat : Recorded(i, m)' /\ Read(i, m)'
  <2>1. PICK m \in Nat : Recorded(i, m) /\ Read(i, m)
    BY DEF History
  <2>2. Recorded(i, m)'
    BY <1>0, <2>1, TrimRecorded
  <2>3. Read(i, m)'
    BY <1>1, <2>1 DEF Read
  <2>4. QED
    BY <2>2, <2>3
<1>3. \A i \in Id : revisions'[i] \subseteq revisions[i]
  BY <1>0 DEF TrimRevisions, Kept
<1>4. \A d \in Caller : call[d].op = "create" /\ call[d].pc \in {"check", "read", "commit"} =>
        revisions'[call[d].id] = revisions[call[d].id]
  BY <1>3, CallType DEF History, Fresh
<1>5. Fresh'
  BY <1>1, <1>4, FreshKept DEF History
<1>6. QED
  BY <1>2, <1>5 DEF History

LEMMA StepHistory == HandlersInv /\ HistoryLong /\ History /\ [Next]_vars => History'
<1> SUFFICES ASSUME HandlersInv, HistoryLong, History, [Next]_vars PROVE History'
  OBVIOUS
<1>1. ASSUME NEW c \in Caller, CreateNode(c) \/ UpdateNode(c) \/ DeleteNode(c) PROVE History'
  BY <1>1, ArriveHistory
<1>2. ASSUME NEW c \in Caller, Step(c) PROVE History'
  BY <1>2, RequestHistory, CommitHistory DEF Step
<1>3. CASE Maintain
  BY <1>3, MaintainHistory
<1>4. CASE UNCHANGED <<node, revisions, call>>
  BY <1>4 DEF History, Fresh, Recorded, Read
<1>5. QED
  BY <1>1, <1>2, <1>3, <1>4 DEF Next, vars, RestartFront

\* The revision a node is at is in its history, once and with the configuration it has,
\* as long as no edit is overtaken by more commits than maintenance keeps revisions:
\* updateNode reads the revision before the transaction that writes the next one, and
\* only the unique index of config_revisions tells it that another was faster.
THEOREM RevisionIsRecorded == Spec /\ []HistoryLong => []RevisionRecorded
<1>1. HandlersInv /\ [Next]_vars => HandlersInv'
  BY HandlersStep
<1>2. HistoryLong /\ HandlersInv /\ History /\ [Next]_vars => History'
  BY StepHistory
<1>3. History => RevisionRecorded
  <2> SUFFICES ASSUME History, NEW i \in Live PROVE
        /\ [rev |-> node[i].rev, name |-> node[i].name] \in revisions[i]
        /\ \A r \in revisions[i] : r.rev = node[i].rev => r.name = node[i].name
        /\ \A r \in revisions[i] : r.rev <= node[i].rev
    BY DEF RevisionRecorded
  <2>1. PICK m \in Nat : Recorded(i, m)
    BY DEF History, Live
  <2> DEFINE s == [rev |-> m, name |-> node[i].name]
  <2>2. node[i].rev = m /\ s \in revisions[i] /\ s.rev = m /\ s.name = node[i].name
    BY <2>1 DEF Recorded, Live
  <2>3. \A r \in revisions[i] : r.rev = s.rev => r = s
    BY <2>1, <2>2 DEF Recorded
  <2>4. \A r \in revisions[i] : r.rev <= m
    BY <2>1 DEF Recorded
  <2>5. QED
    BY <2>2, <2>3, <2>4
<1>4. QED
  BY InitInv, InitHistory, <1>1, <1>2, <1>3, PTL DEF Spec

-----------------------------------------------------------------------------
(* The next revision.                                                       *)

LEMMA CommitAdvances ==
    ASSUME HandlersInv, HistoryLong, History, NEW c \in Caller, CommitUpdate(c),
           NEW i \in Id, node[i] # None, node'[i] # node[i]
    PROVE  node'[i].rev = node[i].rev + 1
<1> DEFINE r == call[c]
<1>0. r \in Call /\ StoreTypeOK /\ r.pc = "commit" /\ r.op = "update"
  BY DEF HandlersInv, TypeOK, CommitUpdate
<1>1. /\ Updates(r.id, r.ep, r.backend, r.rev + 1)
      /\ Update(r.id, r.ep, r.backend, r.name, r.rev + 1)
  BY <1>0, RefusedCall DEF CommitUpdate, storeVars
<1>2. i = r.id /\ node'[i] = [ep |-> r.ep, backend |-> r.backend, name |-> r.name, rev |-> r.rev + 1]
  BY <1>0, <1>1 DEF Update, StoreTypeOK
<1>3. PICK m \in Nat : Recorded(i, m) /\ Read(i, m)
  BY DEF History
<1>4. r.rev \in Nat /\ r.rev <= m /\ \A s \in revisions[i] : s.rev - r.rev <= KeepRevisions
  BY <1>0, <1>2, <1>3 DEF Read, Call, HistoryLong
<1>5. r.rev = m
  BY <1>1, <1>2, <1>3, <1>4, UpdateNext DEF Updates
<1>6. node[i].rev = m
  BY <1>3 DEF Recorded
<1>7. QED
  BY <1>2, <1>5, <1>6

\* An edit moves a node to the next revision and never writes over the revision another
\* request has written since: of two edits that read the same revision one is refused.
\* For edits that are overtaken by no more commits than maintenance keeps revisions.
THEOREM EditsAdvance == Spec /\ []HistoryLong => RevisionsAdvance
<1> DEFINE Advance == \A i \in Id : node[i] # None /\ node'[i] # None /\ node'[i] # node[i]
                                   => node'[i].rev = node[i].rev + 1
<1>1. HandlersInv /\ [Next]_vars => HandlersInv'
  BY HandlersStep
<1>2. HistoryLong /\ HandlersInv /\ History /\ [Next]_vars => History'
  BY StepHistory
<1>3. HistoryLong /\ HandlersInv /\ History /\ [Next]_vars => [Advance]_vars
  <2> SUFFICES ASSUME HistoryLong, HandlersInv, History, Next,
                      NEW i \in Id, node[i] # None, node'[i] # None, node'[i] # node[i]
               PROVE  node'[i].rev = node[i].rev + 1
    BY DEF Advance
  <2>0. StoreTypeOK
    BY DEF HandlersInv, TypeOK
  <2>1. ASSUME NEW c \in Caller, CommitCreate(c) PROVE FALSE
    <3> DEFINE r == call[c]
    <3>1. CASE Refused(c)
      BY <3>1, RefusedCall DEF storeVars
    <3>2. CASE Insert(r.id, r.ep, r.backend, r.name) /\ Inserts(r.id, r.ep, r.backend)
      <4>1. node[r.id] = None
        BY <3>2 DEF Inserts
      <4>2. QED
        BY <2>0, <3>2, <4>1 DEF Insert, StoreTypeOK
    <3>3. QED
      BY <2>1, <3>1, <3>2 DEF CommitCreate
  <2>2. ASSUME NEW c \in Caller, CommitUpdate(c) PROVE node'[i].rev = node[i].rev + 1
    BY <2>2, CommitAdvances
  <2>3. ASSUME NEW c \in Caller, DeleteRow(c) PROVE FALSE
    BY <2>0, <2>3 DEF DeleteRow, Remove, StoreTypeOK
  <2>4. ASSUME NEW c \in Caller,
               \/ CreateNode(c) \/ UpdateNode(c) \/ DeleteNode(c)
               \/ Check(c) \/ ReadRevision(c) \/ ApplyNode(c)
               \/ ApplyDependent(c) \/ Answer(c) \/ CheckDelete(c)
        PROVE  FALSE
    BY <2>4, RefusedCall DEF CreateNode, UpdateNode, DeleteNode, Arrive, Check, ReadRevision,
        ApplyNode, ApplyDependent, Answer, CheckDelete, storeVars
  <2>5. ASSUME Maintain \/ \E j \in Id : RestartFront(j) PROVE FALSE
    BY <2>5 DEF Maintain, TrimRevisions, RestartFront
  <2>6. QED
    BY <2>1, <2>2, <2>3, <2>4, <2>5 DEF Next, Step
<1>4. QED
  BY InitInv, InitHistory, <1>1, <1>2, <1>3, PTL DEF Spec, RevisionsAdvance

-----------------------------------------------------------------------------
(* The condition holds at least while there are few revisions.              *)

FewRevisions ==
    /\ \A i \in Id : \A r \in revisions[i] : r.rev = 1 \/ r.rev <= MaxRevision
    /\ \A i \in Live : node[i].rev >= 1
    /\ \A c \in Caller : call[c].pc = "commit" /\ call[c].op = "update" => call[c].rev \in 1 .. MaxRevision - 1

\* A step that writes no revision, and reads none that is not there.
LEMMA FewKept ==
    ASSUME FewRevisions, node' = node \/ \E i \in Id : node' = [node EXCEPT ![i] = None],
           \A i \in Id : revisions'[i] \subseteq revisions[i], StoreTypeOK,
           \A d \in Caller : call'[d].pc = "commit" /\ call'[d].op = "update" =>
               \/ call[d].pc = "commit" /\ call[d].op = "update" /\ call'[d].rev = call[d].rev
               \/ call'[d].rev \in 1 .. MaxRevision - 1
    PROVE  FewRevisions'
<1>1. \A i \in Id : node'[i] \in {node[i], None}
  BY DEF StoreTypeOK
<1>2. QED
  BY <1>1 DEF FewRevisions, Live

LEMMA FewCommit ==
    ASSUME HandlersInv, FewRevisions, NEW c \in Caller, CommitCreate(c) \/ CommitUpdate(c), ~Refused(c)
    PROVE  FewRevisions'
<1> DEFINE r == call[c]
<1>0. /\ call \in [Caller -> Call] /\ r \in Call /\ StoreTypeOK /\ r.pc = "commit" /\ r.id \in Id
  BY CallType DEF HandlersInv, TypeOK, CommitCreate, CommitUpdate
<1>1. PICK v \in Nat : /\ v = 1 \/ v \in 1 .. MaxRevision
                       /\ \A i \in Live' : (i \in Live /\ node'[i] = node[i]) \/ node'[i].rev = v
                       /\ \A i \in Id : revisions'[i] \subseteq revisions[i] \cup {[rev |-> v, name |-> r.name]}
  <2>1. CASE CommitCreate(c)
    <3>1. Insert(r.id, r.ep, r.backend, r.name)
      BY <2>1 DEF CommitCreate
    <3>2. /\ \A i \in Live' : (i \in Live /\ node'[i] = node[i]) \/ node'[i].rev = 1
          /\ \A i \in Id : revisions'[i] \subseteq revisions[i] \cup {[rev |-> 1, name |-> r.name]}
      BY <1>0, <3>1 DEF Insert, StoreTypeOK, Live
    <3>3. QED
      BY <3>2
  <2>2. CASE CommitUpdate(c)
    <3> DEFINE v == r.rev + 1
    <3>1. Update(r.id, r.ep, r.backend, r.name, v)
      BY <2>2 DEF CommitUpdate
    <3>2. v \in Nat /\ v \in 1 .. MaxRevision
      BY <1>0, <2>2, NodeStoreAssumption DEF FewRevisions, CommitUpdate
    <3> HIDE DEF v
    <3>3. /\ \A i \in Live' : (i \in Live /\ node'[i] = node[i]) \/ node'[i].rev = v
          /\ \A i \in Id : revisions'[i] \subseteq revisions[i] \cup {[rev |-> v, name |-> r.name]}
      BY <1>0, <3>1 DEF Update, StoreTypeOK, Live
    <3>4. QED
      BY <3>2, <3>3
  <2>3. QED
    BY <2>1, <2>2
<1>2. (\A d \in Caller \ {c} : call'[d] = call[d]) /\ call'[c].pc \in {"apply", "idle"}
  BY <1>0 DEF CommitCreate, CommitUpdate, Goto, Done, Idle, Call
<1>3. \A i \in Id : \A s \in revisions'[i] : s.rev = 1 \/ s.rev <= MaxRevision
  BY <1>1, NodeStoreAssumption DEF FewRevisions
<1>4. \A i \in Live' : node'[i].rev >= 1
  BY <1>1 DEF FewRevisions
<1>5. QED
  BY <1>2, <1>3, <1>4 DEF FewRevisions

LEMMA FewStep == HandlersInv /\ FewRevisions /\ [Next]_vars => FewRevisions'
<1> SUFFICES ASSUME HandlersInv, FewRevisions, [Next]_vars PROVE FewRevisions'
  OBVIOUS
<1>0. call \in [Caller -> Call] /\ StoreTypeOK
  BY DEF HandlersInv, TypeOK
<1>1. ASSUME NEW c \in Caller, Refused(c) PROVE FewRevisions'
  <2>1. /\ UNCHANGED storeVars /\ call'[c].pc \in {"idle", "apply"}
        /\ \A d \in Caller \ {c} : call'[d] = call[d]
    BY <1>1, RefusedCall
  <2>2. QED
    BY <1>0, <2>1, FewKept DEF storeVars
<1>2. ASSUME NEW c \in Caller, CreateNode(c) \/ UpdateNode(c) \/ DeleteNode(c) PROVE FewRevisions'
  <2>1. /\ UNCHANGED storeVars /\ call'[c].pc = "check"
        /\ \A d \in Caller \ {c} : call'[d] = call[d]
    <3>1. PICK r : Arrive(c, r) /\ r.pc = "check"
      BY <1>2, ArriveCheck
    <3>2. QED
      BY <1>0, <3>1 DEF Arrive, storeVars
  <2>2. QED
    BY <1>0, <2>1, FewKept DEF storeVars
<1>3. ASSUME NEW c \in Caller, Check(c) \/ ReadRevision(c), ~Refused(c) PROVE FewRevisions'
  <2> DEFINE r == call[c]
  <2>1. /\ UNCHANGED storeVars /\ r.id \in Id /\ r.pc \in {"check", "read"}
        /\ \A d \in Caller \ {c} : call'[d] = call[d]
    BY <1>0, <1>3, CallType DEF Check, ReadRevision, Goto, storeVars
  <2>2. CASE Check(c)
    <3>1. call'[c].pc # "commit" \/ call'[c].op # "update"
      BY <1>0, <1>3, <2>2 DEF Check, Goto, Call
    <3>2. QED
      BY <1>0, <2>1, <3>1, FewKept DEF storeVars
  <2>3. CASE ReadRevision(c)
    <3>1. r.id \in Live /\ node[r.id].rev < MaxRevision /\ call'[c].rev = node[r.id].rev
      BY <1>0, <1>3, <2>1, <2>3 DEF ReadRevision, Live, Call
    <3>2. node[r.id].rev \in Nat /\ node[r.id].rev >= 1
      BY <1>0, <3>1 DEF FewRevisions, StoreTypeOK, Row, Live
    <3>3. call'[c].rev \in 1 .. MaxRevision - 1
      BY <3>1, <3>2, NodeStoreAssumption
    <3>4. QED
      BY <1>0, <2>1, <3>3, FewKept DEF storeVars
  <2>4. QED
    BY <1>3, <2>2, <2>3
<1>4. ASSUME NEW c \in Caller, Answer(c) \/ CheckDelete(c) \/ ApplyNode(c) \/ ApplyDependent(c)
      PROVE  FewRevisions'
  <2>1. /\ UNCHANGED storeVars /\ \A d \in Caller \ {c} : call'[d] = call[d]
    BY <1>0, <1>4 DEF Answer, CheckDelete, ApplyNode, ApplyDependent, Goto, Done, storeVars
  <2>2. call'[c].pc # "commit"
    <3>1. CASE Answer(c) \/ CheckDelete(c)
      BY <1>0, <3>1 DEF Answer, CheckDelete, Goto, Done, Idle, Call
    <3>2. CASE ApplyNode(c)
      <4>1. call'[c].pc \in {"dependents", "idle"} \/ call'[c] = Undone(call[c])
        BY <1>0, <3>2 DEF ApplyNode, Idle, Call
      <4>2. QED
        BY <1>0, <4>1 DEF Undone, Call
    <3>3. CASE ApplyDependent(c)
      <4>1. PICK i \in call[c].todo : call'[c] \in {[call[c] EXCEPT !.todo = @ \ {i}], Undone(call[c])}
        BY <1>0, <3>3 DEF ApplyDependent
      <4>2. call[c].pc = "dependents"
        BY <3>3 DEF ApplyDependent
      <4>3. QED
        BY <1>0, <4>1, <4>2 DEF Undone, Call
    <3>4. QED
      BY <1>4, <3>1, <3>2, <3>3
  <2>3. QED
    BY <1>0, <2>1, <2>2, FewKept DEF storeVars
<1>5. ASSUME NEW c \in Caller, DeleteRow(c) PROVE FewRevisions'
  <2>1. /\ revisions' = revisions /\ call[c].id \in Id
        /\ node' = node \/ node' = [node EXCEPT ![call[c].id] = None]
        /\ call'[c].pc = "idle" /\ \A d \in Caller \ {c} : call'[d] = call[d]
    BY <1>0, <1>5, CallType DEF DeleteRow, Remove, Done, Idle
  <2>2. QED
    BY <1>0, <2>1, FewKept
<1>6. CASE Maintain
  <2>1. /\ node' = node /\ \A i \in Id : revisions'[i] \subseteq revisions[i]
    BY <1>6 DEF Maintain, TrimRevisions, Kept
  <2>2. \A d \in Caller : /\ call'[d].pc = call[d].pc /\ call'[d].op = call[d].op
                          /\ call'[d].rev = call[d].rev
    BY <1>0, <1>6 DEF Maintain, Call
  <2>3. QED
    BY <1>0, <2>1, <2>2, FewKept
<1>7. CASE UNCHANGED <<node, revisions, call>>
  BY <1>7 DEF FewRevisions, Live
<1>8. QED
  BY <1>1, <1>2, <1>3, <1>4, <1>5, <1>6, <1>7, FewCommit DEF Next, Step, vars, RestartFront,
     Check, ReadRevision, CommitCreate, CommitUpdate

\* In every behaviour with at most KeepRevisions + 1 revisions of each node no edit is
\* overtaken by too many others, so that the theorems about revisions hold of it.
THEOREM FewRevisionsSuffice ==
    ASSUME MaxRevision <= KeepRevisions + 1
    PROVE  Spec => []HistoryLong
<1>1. Init => FewRevisions
  BY DEF Init, Idle, FewRevisions, Live
<1>2. FewRevisions /\ HandlersInv => HistoryLong
  <2> SUFFICES ASSUME FewRevisions, HandlersInv, NEW c \in Caller,
                      call[c].pc = "commit", call[c].op = "update", NEW r \in revisions[call[c].id]
               PROVE  r.rev - call[c].rev <= KeepRevisions
    BY DEF HistoryLong
  <2>1. call[c].id \in Id
    BY CallType
  <2>2. /\ r.rev \in Nat /\ (r.rev = 1 \/ r.rev <= MaxRevision)
        /\ call[c].rev \in 1 .. MaxRevision - 1
    BY <2>1 DEF FewRevisions, HandlersInv, TypeOK, StoreTypeOK
  <2>3. QED
    BY <2>2, NodeStoreAssumption
<1>3. HandlersInv /\ [Next]_vars => HandlersInv'
  BY HandlersStep
<1>4. HandlersInv /\ FewRevisions /\ [Next]_vars => FewRevisions'
  BY FewStep
<1>5. QED
  BY InitInv, <1>1, <1>2, <1>3, <1>4, PTL DEF Spec

-----------------------------------------------------------------------------
(* What runs: a request that is alone, and one call of the agent that fails.  *)

Settled(j) == applied[j] \in {Rendered(j), None}

\* What node j ran with before edit r of another node.
Before(r, j) ==
    [ep |-> node[j].ep, name |-> node[j].name,
     target |-> IF node[j].backend = r.id THEN r.old.ep
                ELSE IF node[j].backend \in Live THEN node[node[j].backend].ep ELSE None]

Unspoilt(r, j) == applied[j] \in {Before(r, j), None}

\* An edit in progress could write the row it saw first once more, the nodes that are
\* affected are those in deps, and what it has not yet applied is what may be stale.
Edit(r) ==
    /\ r.id \in Live /\ r.deps \subseteq Live \ {r.id} /\ r.todo \subseteq r.deps
    /\ ~Conflict(r.id, r.old.ep) /\ Unique(r.id, r.old.ep) /\ BackendOK(r.id, r.old.backend)
    /\ r.pc = "commit" => r.rev = node[r.id].rev
    /\ r.undo => r.ep = r.old.ep /\ r.backend = r.old.backend /\ ~r.swept /\ faults >= 1
    /\ \A j \in Live \ (r.deps \cup {r.id}) :
            node[j].backend = r.id => r.old.ep = r.ep /\ node[r.id].ep = r.ep
    /\ r.pc \in {"check", "read", "commit"} /\ ~r.undo =>
            node[r.id].ep = r.old.ep /\ \A j \in Live : Settled(j)
    /\ r.pc = "apply" /\ ~r.undo =>
            /\ \A j \in Live \ (r.deps \cup {r.id}) : Settled(j)
            /\ faults = 0 => \A j \in Live \ {r.id} : Unspoilt(r, j)
    /\ r.pc \in {"check", "read", "commit"} /\ r.undo =>
            \A j \in Live \ (r.todo \cup {r.id}) : Unspoilt(r, j)
    /\ r.pc = "apply" /\ r.undo => \A j \in Live \ (r.todo \cup {r.id}) : Settled(j)
    /\ r.pc = "dependents" => \A j \in Live \ r.todo : Settled(j)

Request(r) ==
    /\ r.pc \in {"read", "commit"} /\ r.op # "delete" => BackendOK(r.id, r.backend)
    /\ r.op # "update" \/ r.pc = "delete" => \A j \in Live : Settled(j)
    /\ r.op = "create" /\ r.pc \in {"check", "read", "commit"} => r.id \notin Live /\ revisions[r.id] = {}
    /\ r.op = "update" => Edit(r)

Tables ==
    /\ \A i \in Live : /\ BackendOK(i, node[i].backend) /\ Unique(i, node[i].ep)
                       /\ \A v \in revisions[i] : v.rev <= node[i].rev
    /\ \A i \in Id \ Live : applied[i] = None

\* AppliedIsStored made inductive.
Orderly ==
    ~overlapped /\ faults <= 1 =>
        /\ Tables
        /\ Quiet => \A j \in Live : Settled(j)
        /\ \A c \in Caller : call[c].pc # "idle" => Request(call[c])

LEMMA InitOrderly == Init => Orderly
<1> SUFFICES ASSUME Init PROVE Orderly
  OBVIOUS
<1>1. \A j \in Live : Settled(j)
  BY DEF Init, Settled, Live
<1>2. Tables
  BY DEF Init, Tables, Live
<1>3. \A c \in Caller : call[c].pc = "idle"
  BY DEF Init, Idle
<1>4. QED
  BY <1>1, <1>2, <1>3 DEF Orderly

\* The request in progress is alone.
LEMMA Alone ==
    ASSUME HandlersInv, Exclusive, Orderly, ~overlapped, faults <= 1, NEW c \in Caller, call[c].pc # "idle"
    PROVE  /\ Tables /\ Request(call[c]) /\ Apart /\ faults \in {0, 1}
           /\ call[c] \in Call /\ call[c].id \in Id /\ StoreTypeOK /\ BackendServes
           /\ call \in [Caller -> Call] /\ applied \in [Id -> Applied \cup {None}]
           /\ \A d \in Caller \ {c} : call[d].pc = "idle"
  BY CallType DEF HandlersInv, TypeOK, Exclusive, Orderly

\* And so is the next state of it.
LEMMA StillAlone ==
    ASSUME NEW c \in Caller, \A d \in Caller \ {c} : call'[d].pc = "idle",
           Tables', NEW r, call'[c] = r,
           r.pc = "idle" => (\A j \in Live : Settled(j))', r.pc # "idle" => Request(r)'
    PROVE  Orderly'
<1>1. Quiet' => r.pc = "idle"
  BY DEF Quiet
<1>2. ASSUME NEW d \in Caller, call'[d].pc # "idle" PROVE Request(call[d])'
  <2>1. d = c /\ r.pc # "idle" /\ call'[d] = r
    BY <1>2
  <2>2. QED
    BY <2>1 DEF Request, Edit, Before, Unspoilt
<1>3. QED
  BY <1>1, <1>2 DEF Orderly

-----------------------------------------------------------------------------
(* What a node would run with.                                              *)

LEMMA SameNodes ==
    ASSUME node' = node
    PROVE  /\ Live' = Live
           /\ \A j : Rendered(j)' = Rendered(j)
           /\ \A r, j : Before(r, j)' = Before(r, j)
           /\ \A i, b : BackendOK(i, b)' <=> BackendOK(i, b)
           /\ \A i, e : (Unique(i, e)' <=> Unique(i, e)) /\ (Conflict(i, e)' <=> Conflict(i, e))
<1>1. Live' = Live
  BY DEF Live
<1>2. QED
  BY <1>1 DEF Rendered, Before, BackendOK, Unique, Conflict

\* A request that gets on without writing or applying anything.
LEMMA SameTables ==
    ASSUME node' = node, applied' = applied, \A i \in Id : revisions'[i] \subseteq revisions[i]
    PROVE  /\ Tables => Tables'
           /\ \A j : Settled(j)' <=> Settled(j)
           /\ \A r, j : Unspoilt(r, j)' <=> Unspoilt(r, j)
<1>1. \A j : Settled(j)' <=> Settled(j)
  BY SameNodes DEF Settled
<1>2. \A r, j : Unspoilt(r, j)' <=> Unspoilt(r, j)
  BY SameNodes DEF Unspoilt
<1>3. Tables => Tables'
  BY SameNodes DEF Tables, Live
<1>4. QED
  BY <1>1, <1>2, <1>3

LEMMA WriteRendered ==
    ASSUME StoreTypeOK, NEW i \in Live, NEW row \in Row, node' = [node EXCEPT ![i] = row],
           NEW j \in Live \ {i}, NEW r, r.id = i
    PROVE  /\ Before(r, j)' = Before(r, j)
           /\ node[i].ep = r.old.ep => Before(r, j) = Rendered(j)
           /\ row.ep = r.old.ep => Rendered(j)' = Before(r, j)
           /\ node[j].backend # i => Rendered(j)' = Rendered(j)
<1>1. Live' = Live /\ i \in Id /\ j \in Id /\ node'[i] = row /\ \A k \in Id \ {i} : node'[k] = node[k]
  BY NodeStoreAssumption DEF StoreTypeOK, Live
<1>2. QED
  BY <1>1 DEF Before, Rendered, Live

LEMMA RequestSame ==
    ASSUME node' = node, applied' = applied, \A i \in Id : revisions'[i] \subseteq revisions[i],
           faults \in Nat, faults' \in Nat, faults' >= faults,
           NEW r, r.id \in Id, Request(r)
    PROVE  Request(r)'
<1>1. /\ Live' = Live /\ \A j : Settled(j)' <=> Settled(j)
      /\ \A j : Unspoilt(r, j)' <=> Unspoilt(r, j)
      /\ \A i, b : BackendOK(i, b)' <=> BackendOK(i, b)
      /\ \A i, e : (Unique(i, e)' <=> Unique(i, e)) /\ (Conflict(i, e)' <=> Conflict(i, e))
  BY SameNodes, SameTables
<1>2. Edit(r) => Edit(r)'
  <2> SUFFICES ASSUME Edit(r) PROVE Edit(r)'
    OBVIOUS
  <2>1. r.pc = "apply" /\ ~r.undo => (faults' = 0 => \A j \in Live \ {r.id} : Unspoilt(r, j))
    BY DEF Edit
  <2>2. QED
    BY <1>1, <2>1 DEF Edit
<1>3. QED
  BY <1>1, <1>2 DEF Request

-----------------------------------------------------------------------------
(* The parts of a request that neither write nor apply.                      *)

LEMMA DependentsOf ==
    ASSUME HandlersInv, Tables, NEW i \in Live, NEW ep
    PROVE  /\ Dependents(i, ep) \subseteq Live \ {i}
           /\ \A j \in Live \ (Dependents(i, ep) \cup {i}) : node[j].backend = i => node[i].ep = ep
<1>1. \A j \in Live : node[j].backend = i => j \in Front /\ i \in Service
  BY NodeStoreAssumption DEF Tables, BackendOK, Live
<1>2. i \in Service => i \notin Front
  BY DEF Service, Front
<1>3. QED
  BY <1>1, <1>2 DEF Dependents

LEMMA ArriveOrderly ==
    ASSUME HandlersInv, Exclusive, Orderly, NEW c \in Caller,
           CreateNode(c) \/ UpdateNode(c) \/ DeleteNode(c), ~overlapped', faults' <= 1
    PROVE  Orderly'
<1>1. /\ ~overlapped /\ Quiet /\ faults <= 1 /\ UNCHANGED <<node, revisions, faults>>
      /\ faults \in Nat /\ call \in [Caller -> Call]
  BY DEF CreateNode, UpdateNode, DeleteNode, Arrive, HandlersInv, TypeOK
<1>2. Tables /\ Apart /\ (\A j \in Live : Settled(j)) /\ \A d \in Caller : call[d].pc = "idle"
  BY <1>1 DEF Orderly, Exclusive, Quiet
<1>3. ASSUME applied' = applied PROVE Tables'
  BY <1>1, <1>2, <1>3, SameTables
<1>4. ASSUME NEW r, Arrive(c, r), r.pc = "check", r.id \in Id, Request(r), applied' = applied
      PROVE  Orderly'
  <2>1. call'[c] = r /\ \A d \in Caller \ {c} : call'[d].pc = "idle"
    BY <1>1, <1>2, <1>4 DEF Arrive
  <2>2. Request(r)'
    BY <1>1, <1>4, RequestSame
  <2>3. QED
    BY <1>3, <1>4, <2>1, <2>2, StillAlone
<1>5. CASE CreateNode(c)
  <2>1. PICK i \in Id \ Live, ep \in Endpoint, backend \in Service \cup {None}, name \in Name :
          /\ revisions[i] = {}
          /\ Arrive(c, [Idle EXCEPT !.pc = "check", !.op = "create", !.id = i, !.ep = ep,
                                    !.backend = backend, !.name = name])
          /\ applied' = applied
    BY <1>5 DEF CreateNode
  <2> DEFINE r == [Idle EXCEPT !.pc = "check", !.op = "create", !.id = i, !.ep = ep,
                               !.backend = backend, !.name = name]
  <2>2. r.pc = "check" /\ r.id = i /\ r.op = "create"
    BY DEF Idle
  <2>3. Arrive(c, r)
    BY <2>1
  <2> HIDE DEF r
  <2>4. Request(r)
    BY <1>2, <2>1, <2>2 DEF Request
  <2>5. QED
    BY <1>4, <2>1, <2>2, <2>3, <2>4
<1>6. CASE UpdateNode(c)
  <2>1. PICK i \in Live, ep \in Endpoint, backend \in Service \cup {None}, name \in Name :
          /\ Arrive(c, [Idle EXCEPT !.pc = "check", !.op = "update", !.id = i, !.ep = ep,
                                    !.backend = backend, !.name = name, !.old = node[i],
                                    !.deps = Dependents(i, ep)])
          /\ applied' = applied
    BY <1>6 DEF UpdateNode
  <2> DEFINE r == [Idle EXCEPT !.pc = "check", !.op = "update", !.id = i, !.ep = ep,
                               !.backend = backend, !.name = name, !.old = node[i],
                               !.deps = Dependents(i, ep)]
  <2>2. /\ r.pc = "check" /\ r.id = i /\ r.op = "update" /\ r.old = node[i] /\ r.ep = ep
        /\ r.deps = Dependents(i, ep) /\ r.todo = {} /\ r.undo = FALSE
    BY DEF Idle
  <2>3. Arrive(c, r)
    BY <2>1
  <2> HIDE DEF r
  <2>4. ~Conflict(i, node[i].ep)
    BY <1>2, ClashSymmetric DEF Conflict, Apart
  <2>5. Unique(i, node[i].ep) /\ BackendOK(i, node[i].backend)
    BY <1>2 DEF Tables
  <2>6. Edit(r)
    BY <1>2, <2>2, <2>4, <2>5, DependentsOf DEF Edit
  <2>7. i \in Id /\ Request(r)
    BY <2>2, <2>6 DEF Request, Live
  <2>8. QED
    BY <1>4, <2>1, <2>2, <2>3, <2>7
<1>7. CASE DeleteNode(c)
  <2>1. PICK i \in Live : /\ Arrive(c, [Idle EXCEPT !.pc = "check", !.op = "delete", !.id = i])
                          /\ applied' \in {applied, [applied EXCEPT ![i] = None]}
    BY <1>7 DEF DeleteNode
  <2> DEFINE r == [Idle EXCEPT !.pc = "check", !.op = "delete", !.id = i]
  <2>2. r.pc = "check" /\ r.id = i /\ r.op = "delete"
    BY DEF Idle
  <2>3. Arrive(c, r)
    BY <2>1
  <2> HIDE DEF r
  <2>4. call'[c] = r /\ \A d \in Caller \ {c} : call'[d].pc = "idle"
    BY <1>1, <1>2, <2>3 DEF Arrive
  <2>5. /\ Live' = Live /\ \A j \in Id : applied'[j] \in {applied[j], None}
        /\ \A j : Rendered(j)' = Rendered(j)
    BY <1>1, <2>1, SameNodes DEF HandlersInv, TypeOK
  <2>6. (\A j \in Live : Settled(j))'
    BY <1>2, <2>5 DEF Settled, Live
  <2>7. Tables'
    <3>1. /\ node' = node /\ revisions' = revisions
          /\ \A k, b : BackendOK(k, b)' <=> BackendOK(k, b)
          /\ \A k, e : Unique(k, e)' <=> Unique(k, e)
      BY <1>1, SameNodes
    <3>2. QED
      BY <1>2, <2>5, <3>1 DEF Tables
  <2>8. Request(r)'
    BY <2>2, <2>6 DEF Request
  <2>9. QED
    BY <2>2, <2>4, <2>7, <2>8, StillAlone
<1>8. QED
  BY <1>5, <1>6, <1>7

\* The step of the request in progress when it neither writes nor applies.
LEMMA QuietStep ==
    ASSUME HandlersInv, Exclusive, Orderly, ~overlapped, faults <= 1, NEW c \in Caller, call[c].pc # "idle",
           UNCHANGED <<node, revisions, applied, faults>>,
           NEW r, call' = [call EXCEPT ![c] = r],
           r.pc = "idle" => \A j \in Live : Settled(j), r.pc # "idle" => r.id \in Id /\ Request(r)
    PROVE  Orderly'
<1>1. call \in [Caller -> Call] /\ Tables /\ faults \in Nat /\ \A d \in Caller \ {c} : call[d].pc = "idle"
  BY Alone
<1>2. call'[c] = r /\ \A d \in Caller \ {c} : call'[d].pc = "idle"
  BY <1>1
<1>3. Tables' /\ (r.pc = "idle" => (\A j \in Live : Settled(j))') /\ Live' = Live
  BY <1>1, SameTables, SameNodes
<1>4. r.pc # "idle" => Request(r)'
  BY <1>1, RequestSame
<1>5. QED
  BY <1>2, <1>3, <1>4, StillAlone

\* A refused request ends, and all it has done is to look; only rollbacks go on.
LEMMA RefusedOrderly ==
    ASSUME HandlersInv, Exclusive, Orderly, ~overlapped, faults <= 1, NEW c \in Caller, Refused(c),
           UNCHANGED <<applied, faults>>,
           call[c].pc \in {"check", "read", "commit"}, call[c].op # "update" \/ ~call[c].undo
    PROVE  Orderly'
<1> DEFINE r == call[c]
           s == [r EXCEPT !.pc = "apply"]
<1>1. Request(r) /\ r \in Call /\ r.id \in Id /\ r.pc # "idle"
  BY Alone
<1>2. \A j \in Live : Settled(j)
  BY <1>1 DEF Request, Edit
<1>3. s.pc = "apply" /\ s.op = r.op /\ s.id = r.id
  BY <1>1 DEF Call
<1>4. r.op # "update" => Request(s)
  BY <1>2, <1>3 DEF Request
<1>5. CASE r.undo
  <2>1. call' = [call EXCEPT ![c] = s]
    BY <1>5 DEF Refused, Goto
  <2> HIDE DEF s
  <2>2. QED
    BY <1>1, <1>3, <1>4, <1>5, <2>1, QuietStep DEF Refused, storeVars
<1>6. CASE ~r.undo
  <2>1. call' = [call EXCEPT ![c] = Idle] /\ Idle.pc = "idle"
    BY <1>6 DEF Refused, Done, Idle
  <2>2. QED
    BY <1>1, <1>2, <2>1, QuietStep DEF Refused, storeVars
<1>7. QED
  BY <1>5, <1>6

\* A request goes on to the next part of its transaction.
LEMMA GotoRequest ==
    ASSUME NEW r \in Call, Request(r), r.op # "delete", r.pc \in {"check", "read"},
           NEW pc \in {"read", "commit"}, NEW v \in Nat, BackendOK(r.id, r.backend),
           pc = "commit" /\ r.op = "update" => v = node[r.id].rev
    PROVE  Request([r EXCEPT !.pc = pc, !.rev = v])
<1> DEFINE s == [r EXCEPT !.pc = pc, !.rev = v]
<1>1. /\ s.pc = pc /\ s.rev = v /\ s.op = r.op /\ s.id = r.id /\ s.backend = r.backend /\ s.ep = r.ep
      /\ s.old = r.old /\ s.deps = r.deps /\ s.todo = r.todo /\ s.undo = r.undo /\ s.swept = r.swept
  BY DEF Call
<1> HIDE DEF s
<1>2. \A j : Unspoilt(s, j) <=> Unspoilt(r, j)
  BY <1>1 DEF Unspoilt, Before
<1>3. r.op = "update" => Edit(s)
  BY <1>1, <1>2 DEF Request, Edit
<1>4. Request(s)
  BY <1>1, <1>3 DEF Request
<1>5. QED
  BY <1>4 DEF s

LEMMA CheckOrderly ==
    ASSUME HandlersInv, Exclusive, Orderly, ~overlapped, faults <= 1, NEW c \in Caller, Check(c)
    PROVE  Orderly'
<1> DEFINE r == call[c]
<1>1. Request(r) /\ r \in Call /\ r.id \in Id /\ r.pc = "check" /\ r.op # "delete"
  BY Alone DEF Check
<1>2. CASE Refused(c)
  <2>1. CASE r.op = "update" /\ r.undo
    <3>1. node[r.id] # None /\ ~Conflict(r.id, r.ep) /\ BackendOK(r.id, r.backend)
      BY <1>1, <2>1 DEF Request, Edit, Live
    <3>2. call' = [call EXCEPT ![c] = [r EXCEPT !.pc = "read", !.rev = r.rev]]
      BY <1>1, <2>1, <3>1 DEF Check, Goto, Call
    <3>3. r.rev \in Nat
      BY <1>1 DEF Call
    <3> DEFINE s == [r EXCEPT !.pc = "read", !.rev = r.rev]
    <3>4. Request(s) /\ s.pc = "read" /\ s.id = r.id
      BY <1>1, <3>1, <3>3, GotoRequest DEF Call
    <3> HIDE DEF s
    <3>5. call' = [call EXCEPT ![c] = s]
      BY <3>2 DEF s
    <3>6. QED
      BY <1>1, <1>2, <3>4, <3>5, QuietStep DEF Check, Refused, storeVars
  <2>2. CASE r.op # "update" \/ ~r.undo
    BY <1>1, <1>2, <2>2, RefusedOrderly DEF Check
  <2>3. QED
    BY <2>1, <2>2
<1>3. CASE ~Refused(c)
  <2> DEFINE pc == IF r.op = "create" THEN "commit" ELSE "read"
             s == [r EXCEPT !.pc = pc, !.rev = r.rev]
  <2>1. BackendOK(r.id, r.backend) /\ call' = [call EXCEPT ![c] = [r EXCEPT !.pc = pc]] /\ UNCHANGED storeVars
    BY <1>3 DEF Check, Goto
  <2>2. r.rev \in Nat /\ [r EXCEPT !.pc = pc] = s
    BY <1>1 DEF Call
  <2>3. pc \in {"read", "commit"} /\ (pc = "commit" => r.op # "update")
    OBVIOUS
  <2> HIDE DEF pc
  <2>4. Request(s) /\ s.pc = pc /\ s.id = r.id
    BY <1>1, <2>1, <2>2, <2>3, GotoRequest DEF Call
  <2>5. call' = [call EXCEPT ![c] = s]
    BY <2>1, <2>2
  <2> HIDE DEF s
  <2>6. QED
    BY <1>1, <2>1, <2>3, <2>4, <2>5, QuietStep DEF Check, storeVars
<1>4. QED
  BY <1>2, <1>3

LEMMA ReadOrderly ==
    ASSUME HandlersInv, Exclusive, Orderly, ~overlapped, faults <= 1, NEW c \in Caller, ReadRevision(c)
    PROVE  Orderly'
<1> DEFINE r == call[c]
           s == [r EXCEPT !.pc = "commit", !.rev = node[r.id].rev]
<1>1. /\ Request(r) /\ r \in Call /\ r.id \in Id /\ r.pc = "read" /\ r.op # "delete"
      /\ UNCHANGED <<applied, faults>> /\ StoreTypeOK
  BY Alone, CallType DEF ReadRevision
<1>2. CASE node[r.id] = None
  <2>1. Refused(c)
    BY <1>2 DEF ReadRevision
  <2>2. r.op # "update"
    BY <1>1, <1>2 DEF Request, Edit, Live
  <2>3. QED
    BY <1>1, <2>1, <2>2, RefusedOrderly
<1>3. CASE node[r.id] # None
  <2>1. call' = [call EXCEPT ![c] = s] /\ UNCHANGED storeVars
    BY <1>3 DEF ReadRevision
  <2>2. node[r.id].rev \in Nat /\ BackendOK(r.id, r.backend)
    BY <1>1, <1>3 DEF StoreTypeOK, Row, Request
  <2>3. Request(s) /\ s.pc = "commit" /\ s.id = r.id
    BY <1>1, <2>2, GotoRequest DEF Call
  <2> HIDE DEF s
  <2>4. QED
    BY <1>1, <2>1, <2>3, QuietStep DEF storeVars
<1>4. QED
  BY <1>2, <1>3

LEMMA AnswerOrderly ==
    ASSUME HandlersInv, Exclusive, Orderly, ~overlapped, faults <= 1, NEW c \in Caller,
           Answer(c) \/ CheckDelete(c)
    PROVE  Orderly'
<1> DEFINE r == call[c]
           s == [r EXCEPT !.pc = "delete"]
<1>1. /\ Request(r) /\ r \in Call /\ r.id \in Id /\ r.pc # "idle"
      /\ UNCHANGED <<node, revisions, applied, faults>>
  BY Alone DEF Answer, CheckDelete
<1>2. \A j \in Live : Settled(j)
  BY <1>1, Alone DEF Answer, CheckDelete, Request, Edit
<1>3. CASE call' = [call EXCEPT ![c] = Idle]
  <2>1. Idle.pc = "idle"
    BY DEF Idle
  <2>2. QED
    BY <1>1, <1>2, <1>3, <2>1, QuietStep
<1>4. CASE r.op = "delete" /\ call' = [call EXCEPT ![c] = s]
  <2>1. s.pc = "delete" /\ s.op = "delete" /\ s.id = r.id
    BY <1>1, <1>4 DEF Call
  <2>2. Request(s)
    BY <1>2, <2>1 DEF Request
  <2> HIDE DEF s
  <2>3. QED
    BY <1>1, <1>4, <2>1, <2>2, QuietStep
<1>5. QED
  BY <1>3, <1>4 DEF Answer, CheckDelete, Done, Goto

LEMMA MaintainOrderly ==
    ASSUME HandlersInv, Exclusive, Orderly, Maintain, ~overlapped', faults' <= 1
    PROVE  Orderly'
<1>1. /\ ~overlapped /\ faults \in Nat /\ faults' \in Nat /\ faults <= faults' /\ faults <= 1
      /\ node' = node /\ applied' = applied /\ call \in [Caller -> Call]
      /\ \A i \in Id : revisions'[i] \subseteq revisions[i]
  BY DEF HandlersInv, TypeOK, Maintain, TrimRevisions, Kept
<1>2. Tables' /\ Live' = Live /\ \A j : Settled(j)' <=> Settled(j)
  BY <1>1, SameTables, SameNodes DEF Orderly
<1>3. \A d \in Caller : call'[d].pc = call[d].pc
  BY <1>1 DEF Maintain, Call
<1>4. Quiet' => \A j \in Live : Settled(j)
  BY <1>1, <1>3 DEF Quiet, Orderly
<1>5. ASSUME NEW d \in Caller, call'[d].pc # "idle" PROVE Request(call[d])'
  <2> DEFINE r == call[d]
  <2>0. Request(r) /\ r \in Call /\ r.id \in Id
    BY <1>1, <1>3, <1>5, Alone
  <2>1. PICK s : s = call'[d] /\ Request(s) /\ s.id = r.id
    <3>1. CASE call'[d] = r
      BY <2>0, <3>1
    <3>2. CASE faults' = faults + 1 /\ call'[d] = [r EXCEPT !.swept = r.pc = "commit"]
      <4> DEFINE s == [r EXCEPT !.swept = r.pc = "commit"]
      <4>1. /\ s.pc = r.pc /\ s.rev = r.rev /\ s.op = r.op /\ s.id = r.id /\ s.backend = r.backend
            /\ s.ep = r.ep /\ s.old = r.old /\ s.deps = r.deps /\ s.todo = r.todo /\ s.undo = r.undo
        BY <2>0 DEF Call
      <4>2. faults = 0
        BY <1>1, <3>2
      <4>3. call'[d] = s
        BY <3>2
      <4> HIDE DEF s
      <4>4. \A j : Unspoilt(s, j) <=> Unspoilt(r, j)
        BY <4>1 DEF Unspoilt, Before
      <4>5. r.op = "update" => Edit(s)
        BY <2>0, <4>1, <4>2, <4>4 DEF Request, Edit
      <4>6. Request(s)
        BY <2>0, <4>1, <4>5 DEF Request
      <4>7. QED
        BY <4>1, <4>3, <4>6
    <3>3. QED
      BY <3>1, <3>2, <1>1 DEF Maintain
  <2>2. Request(s)'
    BY <1>1, <2>0, <2>1, RequestSame
  <2>3. QED
    BY <2>1, <2>2 DEF Request, Edit, Before, Unspoilt
<1>6. QED
  BY <1>2, <1>4, <1>5 DEF Orderly

-----------------------------------------------------------------------------
(* The transactions.                                                        *)

LEMMA CreateOrderly ==
    ASSUME HandlersInv, Exclusive, Orderly, ~overlapped, faults <= 1, NEW c \in Caller, CommitCreate(c)
    PROVE  Orderly'
<1>0. PICK r : r = call[c]
  OBVIOUS
<1> DEFINE row == [ep |-> r.ep, backend |-> r.backend, name |-> r.name, rev |-> 1]
           s == [r EXCEPT !.pc = "apply"]
<1>1. /\ Request(r) /\ Tables /\ r \in Call /\ r.id \in Id /\ r.pc = "commit" /\ r.op = "create"
      /\ UNCHANGED <<applied, faults>> /\ StoreTypeOK /\ call \in [Caller -> Call]
      /\ r.ep \in Endpoint /\ r.name \in Name /\ r.backend \in Id \cup {None}
      /\ \A d \in Caller \ {c} : call[d].pc = "idle"
  BY <1>0, Alone, CallType DEF CommitCreate
<1>2. CASE Refused(c)
  BY <1>1, <1>2, <1>0, RefusedOrderly
<1>3. CASE ~Refused(c)
  <2>1. /\ Inserts(r.id, r.ep, r.backend) /\ Insert(r.id, r.ep, r.backend, r.name)
        /\ call' = [call EXCEPT ![c] = s]
    BY <1>0, <1>3 DEF CommitCreate, Goto
  <2>2. row \in Row /\ row # None
    BY <1>1, NodeStoreAssumption DEF Row
  <2>3. /\ Live' = Live \cup {r.id} /\ node'[r.id] = row /\ \A j \in Id \ {r.id} : node'[j] = node[j]
        /\ revisions'[r.id] = {[rev |-> 1, name |-> r.name]}
        /\ \A j \in Id \ {r.id} : revisions'[j] = revisions[j]
    BY <1>1, <2>1, <2>2 DEF Insert, StoreTypeOK, Live, Request
  <2>4. r.id \notin Live /\ BackendOK(r.id, r.backend) /\ \A j \in Live : Settled(j)
    BY <1>1 DEF Request
  <2>5. \A j \in Live : BackendOK(j, node[j].backend) /\ node[j].backend # r.id
    BY <1>1, <2>4, NodeStoreAssumption DEF Tables, BackendOK
  <2>6. ASSUME NEW j \in Live' PROVE Settled(j)'
    <3>1. CASE j = r.id
      BY <1>1, <2>4, <3>1 DEF Tables, Settled
    <3>2. CASE j # r.id
      <4>1. Rendered(j)' = Rendered(j)
        BY <2>3, <2>5, <3>2 DEF Rendered, Live
      <4>2. QED
        BY <1>1, <2>3, <2>4, <3>2, <4>1 DEF Settled
    <3>3. QED
      BY <3>1, <3>2
  <2>7. Tables'
    <3>1. \A j \in Live' : BackendOK(j, node[j].backend)'
      BY <2>3, <2>4, <2>5 DEF BackendOK, Live
    <3>2. \A j \in Live' : Unique(j, node[j].ep)'
      BY <1>1, <2>1, <2>3 DEF Unique, Inserts, Tables, Live
    <3>3. \A j \in Live' : \A v \in revisions'[j] : v.rev <= node'[j].rev
      BY <1>1, <2>3 DEF Tables, Live
    <3>4. \A j \in Id \ Live' : applied'[j] = None
      BY <1>1, <2>3 DEF Tables
    <3>5. QED
      BY <3>1, <3>2, <3>3, <3>4 DEF Tables
  <2>8. s.pc = "apply" /\ s.op = "create" /\ s.id = r.id
    BY <1>1 DEF Call
  <2>9. call'[c] = s /\ \A d \in Caller \ {c} : call'[d].pc = "idle"
    BY <1>1, <2>1
  <2> HIDE DEF s
  <2>10. Request(s)'
    BY <2>6, <2>8 DEF Request
  <2>11. QED
    BY <2>7, <2>8, <2>9, <2>10, StillAlone
<1>4. QED
  BY <1>2, <1>3

\* An edit writes its row; a rollback is never refused.
LEMMA UpdateTables ==
    ASSUME StoreTypeOK, Tables, NEW i \in Live, NEW ep \in Endpoint, NEW backend \in Id \cup {None},
           NEW name \in Name, NEW rev \in Nat, \A v \in revisions[i] : v.rev <= rev,
           BackendOK(i, backend), Unique(i, ep), Update(i, ep, backend, name, rev), applied' = applied
    PROVE  Tables'
<1> DEFINE row == [ep |-> ep, backend |-> backend, name |-> name, rev |-> rev]
<1>1. row \in Row /\ row # None /\ i \in Id
  BY NodeStoreAssumption DEF Row, Live
<1>2. /\ Live' = Live /\ node'[i] = row /\ \A j \in Id \ {i} : node'[j] = node[j]
      /\ revisions'[i] = revisions[i] \cup {[rev |-> rev, name |-> name]}
      /\ \A j \in Id \ {i} : revisions'[j] = revisions[j]
  BY <1>1 DEF Update, StoreTypeOK, Live
<1>3. \A j \in Live' : BackendOK(j, node[j].backend)'
  BY <1>2 DEF BackendOK, Tables, Live
<1>4. \A j \in Live' : Unique(j, node[j].ep)'
  BY <1>2 DEF Unique, Tables, Live
<1>5. \A j \in Live' : \A v \in revisions'[j] : v.rev <= node'[j].rev
  BY <1>2 DEF Tables, Live
<1>6. QED
  BY <1>2, <1>3, <1>4, <1>5 DEF Tables

LEMMA UpdateOrderly ==
    ASSUME HandlersInv, Exclusive, Orderly, ~overlapped, faults <= 1, NEW c \in Caller, CommitUpdate(c)
    PROVE  Orderly'
<1>0. PICK r : r = call[c]
  OBVIOUS
<1> DEFINE row == [ep |-> r.ep, backend |-> r.backend, name |-> r.name, rev |-> r.rev + 1]
           s == [r EXCEPT !.pc = "apply"]
<1>1. /\ Request(r) /\ Edit(r) /\ Tables /\ r \in Call /\ r.id \in Id /\ r.pc = "commit" /\ r.op = "update"
      /\ UNCHANGED <<applied, faults>> /\ StoreTypeOK /\ call \in [Caller -> Call]
      /\ r.ep \in Endpoint /\ r.name \in Name /\ r.backend \in Id \cup {None}
      /\ \A d \in Caller \ {c} : call[d].pc = "idle"
  BY <1>0, Alone, CallType DEF CommitUpdate, Request
<1>2. r.id \in Live /\ r.rev = node[r.id].rev /\ r.rev \in Nat /\ BackendOK(r.id, r.backend)
  BY <1>1 DEF Request, Edit, Call
<1>3. CASE ~(Updates(r.id, r.ep, r.backend, r.rev + 1) /\ ~r.swept)
  <2>1. Refused(c)
    BY <1>0, <1>3 DEF CommitUpdate
  <2>2. r.undo => Unique(r.id, r.ep) /\ ~r.swept
    BY <1>1 DEF Edit
  <2>3. Foreign(r.backend)
    BY <1>2, <1>1 DEF Foreign, BackendOK
  <2>4. NewRevision(r.id, r.rev + 1)
    BY <1>1, <1>2 DEF NewRevision, Tables, StoreTypeOK
  <2>5. ~r.undo
    BY <1>3, <2>2, <2>3, <2>4 DEF Updates
  <2>6. QED
    BY <1>1, <2>1, <2>5, <1>0, RefusedOrderly
<1>4. CASE Updates(r.id, r.ep, r.backend, r.rev + 1) /\ ~r.swept
  <2>1. /\ Update(r.id, r.ep, r.backend, r.name, r.rev + 1) /\ call' = [call EXCEPT ![c] = s]
    BY <1>0, <1>2, <1>4 DEF CommitUpdate, Goto, Live
  <2>2. row \in Row /\ row.ep = r.ep /\ r.rev + 1 \in Nat
    BY <1>1, <1>2 DEF Row
  <2>3. node' = [node EXCEPT ![r.id] = row] /\ Live' = Live /\ node'[r.id] = row
        /\ \A j \in Id \ {r.id} : node'[j] = node[j]
    BY <1>1, <1>2, <2>1, <2>2, NodeStoreAssumption DEF Update, Live, StoreTypeOK
  <2>4. Tables'
    <3>1. \A v \in revisions[r.id] : v.rev <= r.rev + 1
      BY <1>1, <1>2 DEF Tables, StoreTypeOK
    <3>2. QED
      BY <1>1, <1>2, <1>4, <2>1, <2>2, <3>1, UpdateTables DEF Updates
  <2>5. /\ s.pc = "apply" /\ s.op = r.op /\ s.id = r.id /\ s.old = r.old /\ s.ep = r.ep
        /\ s.deps = r.deps /\ s.todo = r.todo /\ s.undo = r.undo /\ s.backend = r.backend /\ s.swept = r.swept
    BY <1>1 DEF Call
  <2>6. call'[c] = s /\ \A d \in Caller \ {c} : call'[d].pc = "idle"
    BY <1>1, <2>1
  <2> HIDE DEF s, row
  <2>7. ASSUME NEW j \in Live \ {r.id}
        PROVE  /\ Before(r, j)' = Before(r, j)
               /\ node[r.id].ep = r.old.ep => Before(r, j) = Rendered(j)
               /\ r.ep = r.old.ep => Rendered(j)' = Before(r, j)
               /\ node[j].backend # r.id => Rendered(j)' = Rendered(j)
    <3>1. row.ep = r.old.ep <=> r.ep = r.old.ep
      BY <2>2
    <3>2. node' = [node EXCEPT ![r.id] = row] /\ row \in Row /\ r.id \in Live
      BY <1>2, <2>2, <2>3
    <3>3. QED
      BY <1>1, <3>1, <3>2, WriteRendered
  <2>8. \A j : Before(s, j)' = Before(r, j)'
    BY <2>5 DEF Before
  <2>9. CASE ~r.undo
    <3>1. node[r.id].ep = r.old.ep /\ \A j \in Live : Settled(j)
      BY <1>1, <2>9 DEF Edit
    <3>2. \A j \in Live \ {r.id} : Unspoilt(s, j)'
      BY <1>1, <2>7, <2>8, <3>1 DEF Unspoilt, Settled
    <3>3. \A j \in Live \ (r.deps \cup {r.id}) : Settled(j)'
      <4>1. \A j \in Live \ (r.deps \cup {r.id}) : Rendered(j)' = Rendered(j)
        BY <1>1, <2>7, <3>1 DEF Edit
      <4>2. QED
        BY <1>1, <3>1, <4>1 DEF Settled
    <3>4. Edit(s)'
      <4>1. /\ ~Conflict(r.id, r.old.ep)' /\ Unique(r.id, r.old.ep)' /\ BackendOK(r.id, r.old.backend)'
        BY <1>1, <2>3 DEF Edit, Conflict, Unique, BackendOK, Live
      <4>2. /\ r.deps \subseteq Live \ {r.id} /\ r.todo \subseteq r.deps
            /\ \A j \in Live \ (r.deps \cup {r.id}) :
                  node[j].backend = r.id => r.old.ep = r.ep /\ node[r.id].ep = r.ep
        BY <1>1 DEF Edit
      <4>3. \A j \in Live \ (r.deps \cup {r.id}) :
                  node'[j].backend = r.id => r.old.ep = r.ep /\ node'[r.id].ep = r.ep
        BY <2>2, <2>3, <4>2 DEF Live
      <4>4. QED
        BY <1>2, <2>3, <2>5, <2>9, <3>2, <3>3, <4>1, <4>2, <4>3 DEF Edit
    <3>5. Request(s)'
      BY <1>1, <2>5, <3>4 DEF Request
    <3>6. QED
      BY <2>4, <2>5, <2>6, <3>5, StillAlone
  <2>10. CASE r.undo
    <3>1. r.ep = r.old.ep /\ \A j \in Live \ (r.todo \cup {r.id}) : Unspoilt(r, j)
      BY <1>1, <2>10 DEF Edit
    <3>2. \A j \in Live \ (r.todo \cup {r.id}) : Settled(j)'
      BY <1>1, <2>7, <3>1 DEF Unspoilt, Settled
    <3>3. Edit(s)'
      <4>1. /\ ~Conflict(r.id, r.old.ep)' /\ Unique(r.id, r.old.ep)' /\ BackendOK(r.id, r.old.backend)'
        BY <1>1, <2>3 DEF Edit, Conflict, Unique, BackendOK, Live
      <4>2. /\ r.deps \subseteq Live \ {r.id} /\ r.todo \subseteq r.deps /\ ~r.swept /\ faults >= 1
            /\ r.backend = r.old.backend
        BY <1>1, <2>10 DEF Edit
      <4>3. node'[r.id].ep = r.ep
        BY <2>2, <2>3
      <4>4. QED
        BY <1>1, <1>2, <2>3, <2>5, <2>10, <3>1, <3>2, <4>1, <4>2, <4>3 DEF Edit
    <3>4. Request(s)'
      BY <1>1, <2>5, <3>3 DEF Request
    <3>5. QED
      BY <2>4, <2>5, <2>6, <3>4, StillAlone
  <2>11. QED
    BY <2>9, <2>10
<1>5. QED
  BY <1>3, <1>4

LEMMA DeleteOrderly ==
    ASSUME HandlersInv, Exclusive, Orderly, ~overlapped, faults <= 1, NEW c \in Caller, DeleteRow(c)
    PROVE  Orderly'
<1>0. PICK r : r = call[c]
  OBVIOUS
<1>1. /\ Request(r) /\ Tables /\ r \in Call /\ r.id \in Id /\ r.pc = "delete" /\ faults' = faults
      /\ StoreTypeOK /\ call \in [Caller -> Call] /\ applied \in [Id -> Applied \cup {None}]
      /\ \A d \in Caller \ {c} : call[d].pc = "idle"
      /\ call' = [call EXCEPT ![c] = Idle] /\ Idle.pc = "idle"
  BY <1>0, Alone DEF DeleteRow, Done, Idle
<1>2. \A j \in Live : Settled(j)
  BY <1>1 DEF Request
<1>3. CASE Referenced(r.id)
  BY <1>1, <1>2, <1>3, <1>0, QuietStep DEF DeleteRow
<1>4. CASE ~Referenced(r.id)
  <2>1. /\ node' = [node EXCEPT ![r.id] = None] /\ revisions' = revisions
        /\ applied' = [applied EXCEPT ![r.id] = None]
    BY <1>0, <1>4 DEF DeleteRow, Remove
  <2>2. /\ Live' = Live \ {r.id} /\ (\A j \in Id \ {r.id} : node'[j] = node[j] /\ applied'[j] = applied[j])
        /\ applied'[r.id] = None /\ \A j \in Live : node[j].backend # r.id
    BY <1>1, <1>4, <2>1 DEF StoreTypeOK, Live, Referenced
  <2>3. \A j \in Live' : Rendered(j)' = Rendered(j)
    BY <2>2 DEF Rendered, Live
  <2>4. \A j \in Live' : Settled(j)'
    BY <1>2, <2>2, <2>3 DEF Settled, Live
  <2>5. Tables'
    <3>1. \A j \in Live' : BackendOK(j, node[j].backend)' /\ Unique(j, node[j].ep)'
      BY <1>1, <2>2 DEF BackendOK, Unique, Tables, Live
    <3>2. \A j \in Live' : \A v \in revisions'[j] : v.rev <= node'[j].rev
      BY <1>1, <2>1, <2>2 DEF Tables, Live
    <3>3. \A j \in Id \ Live' : applied'[j] = None
      BY <1>1, <2>2 DEF Tables
    <3>4. QED
      BY <3>1, <3>2, <3>3 DEF Tables
  <2>6. call'[c] = Idle /\ \A d \in Caller \ {c} : call'[d].pc = "idle"
    BY <1>1
  <2>7. QED
    BY <1>1, <2>4, <2>5, <2>6, StillAlone
<1>5. QED
  BY <1>3, <1>4

-----------------------------------------------------------------------------
(* The calls of the agent.                                                  *)

LEMMA Applies ==
    ASSUME node' = node, revisions' = revisions, applied \in [Id -> Applied \cup {None}],
           NEW i \in Live, applied' = [applied EXCEPT ![i] = Rendered(i)]
    PROVE  /\ Tables => Tables'
           /\ Settled(i)' /\ \A j \in Id : Settled(j) => Settled(j)'
<1>1. i \in Id /\ applied'[i] = Rendered(i) /\ \A j \in Id \ {i} : applied'[j] = applied[j]
  BY DEF Live
<1>2. Settled(i)' /\ \A j \in Id : Settled(j) => Settled(j)'
  BY <1>1, SameNodes DEF Settled
<1>3. Tables => Tables'
  BY <1>1, SameNodes DEF Tables
<1>4. QED
  BY <1>2, <1>3

\* The first call that fails turns an edit into its rollback.
LEMMA UndoneRequest ==
    ASSUME node' = node, applied' = applied, revisions' = revisions, faults = 0, faults' = 1,
           NEW r \in Call, r.op = "update", r.pc \in {"apply", "dependents"}, Edit(r)
    PROVE  Request(Undone(r))'
<1> DEFINE s == Undone(r)
<1>1. /\ s.pc = "check" /\ s.op = "update" /\ s.id = r.id /\ s.old = r.old /\ s.ep = r.old.ep
      /\ s.deps = r.deps /\ s.undo = TRUE /\ s.backend = r.old.backend /\ s.swept = FALSE
      /\ s.todo = IF r.pc = "dependents" THEN r.deps ELSE {}
  BY DEF Undone, Call
<1> HIDE DEF s
<1>2. ~r.undo
  BY DEF Edit
<1>3. \A j \in Live \ (s.todo \cup {r.id}) : Unspoilt(r, j)
  <2>1. CASE r.pc = "apply"
    BY <1>1, <1>2, <2>1 DEF Edit
  <2>2. CASE r.pc = "dependents"
    <3>1. ASSUME NEW j \in Live \ (r.deps \cup {r.id}) PROVE Unspoilt(r, j)
      <4>1. node[j].backend = r.id => r.old.ep = node[r.id].ep
        BY DEF Edit
      <4>2. r.id \in Live /\ Settled(j)
        BY <2>2 DEF Edit
      <4>3. Before(r, j) = Rendered(j)
        BY <4>1, <4>2 DEF Before, Rendered
      <4>4. QED
        BY <4>2, <4>3 DEF Unspoilt, Settled
    <3>2. QED
      BY <1>1, <2>2, <3>1
  <2>3. QED
    BY <2>1, <2>2
<1>4. \A j \in Live \ (s.todo \cup {r.id}) : Unspoilt(s, j)'
  <2>1. \A j : Unspoilt(r, j)' <=> Unspoilt(r, j)
    BY SameTables
  <2>2. \A j : Unspoilt(s, j)' <=> Unspoilt(r, j)'
    BY <1>1 DEF Unspoilt, Before
  <2>3. QED
    BY <1>3, <2>1, <2>2
<1>5. /\ r.id \in Live /\ r.deps \subseteq Live \ {r.id}
      /\ \A j \in Live \ (r.deps \cup {r.id}) : node[j].backend = r.id => node[r.id].ep = r.old.ep
  BY DEF Edit
<1>6. ~Conflict(r.id, r.old.ep)' /\ Unique(r.id, r.old.ep)' /\ BackendOK(r.id, r.old.backend)'
  BY SameNodes DEF Edit
<1>7. Edit(s)'
  BY <1>1, <1>4, <1>5, <1>6, SameNodes DEF Edit
<1>8. Request(s)'
  BY <1>1, <1>7 DEF Request
<1>9. QED
  BY <1>8 DEF s

LEMMA ApplyOrderly ==
    ASSUME HandlersInv, Exclusive, Orderly, ~overlapped, faults' <= 1, faults <= 1, NEW c \in Caller,
           ApplyNode(c) \/ ApplyDependent(c)
    PROVE  Orderly'
<1>0. PICK r : r = call[c]
  OBVIOUS
<1>1. /\ Request(r) /\ Tables /\ r \in Call /\ r.id \in Id /\ r.pc \in {"apply", "dependents"}
      /\ r.op \in {"create", "update"} /\ node' = node /\ revisions' = revisions
      /\ call \in [Caller -> Call] /\ applied \in [Id -> Applied \cup {None}] /\ faults \in {0, 1}
      /\ \A d \in Caller \ {c} : call[d].pc = "idle"
  BY <1>0, Alone, CallType DEF ApplyNode, ApplyDependent, Call
<1>2. (r.op = "update" => Edit(r)) /\ (r.op = "create" => r.deps = {} /\ r.todo = {} /\ \A j \in Live : Settled(j))
  BY <1>0, <1>1, CallType DEF Request, KnownCall, Known
<1>3. ASSUME NEW s, call' = [call EXCEPT ![c] = s], Tables',
             s.pc = "idle" => (\A j \in Live : Settled(j))', s.pc # "idle" => Request(s)'
      PROVE  Orderly'
  <2>1. call'[c] = s /\ \A d \in Caller \ {c} : call'[d].pc = "idle"
    BY <1>1, <1>3
  <2>2. QED
    BY <1>3, <2>1, StillAlone
<1>4. ASSUME NEW i \in Live, ApplyFails(i), r.op = "update", call' = [call EXCEPT ![c] = Undone(r)]
      PROVE  Orderly'
  <2>1. faults = 0 /\ faults' = 1 /\ applied' = applied
    BY <1>1, <1>4 DEF ApplyFails
  <2>2. Request(Undone(r))' /\ Tables'
    BY <1>1, <1>2, <1>4, <2>1, UndoneRequest, SameTables
  <2>3. Undone(r).pc # "idle"
    BY <1>1, UndoneCheck
  <2>4. QED
    BY <1>3, <1>4, <2>2, <2>3
<1>5. CASE ApplyNode(c)
  <2>0. r.pc = "apply"
    BY <1>0, <1>5 DEF ApplyNode
  <2>1. CASE /\ ApplySucceeds(r.id)
             /\ call' = [call EXCEPT ![c].pc = "dependents", ![c].todo = IF r.undo THEN @ ELSE r.deps]
    <3> DEFINE todo == IF r.undo THEN r.todo ELSE r.deps
               s == [r EXCEPT !.pc = "dependents", !.todo = todo]
    <3>1. /\ r.id \in Live /\ Tables' /\ Settled(r.id)' /\ Live' = Live /\ faults' = faults
          /\ \A j \in Live : Settled(j) => Settled(j)'
      BY <1>1, <2>1, Applies, SameNodes DEF ApplySucceeds, Live
    <3>2. call' = [call EXCEPT ![c] = s]
      BY <1>0, <1>1, <2>1
    <3>3. /\ s.pc = "dependents" /\ s.op = r.op /\ s.id = r.id /\ s.old = r.old /\ s.ep = r.ep
          /\ s.deps = r.deps /\ s.todo = todo /\ s.undo = r.undo /\ s.backend = r.backend /\ s.swept = r.swept
      BY <1>1 DEF Call
    <3> HIDE DEF s
    <3>4. r.op = "update" => Edit(s)'
      <4>1. r.op = "update" => \A j \in Live \ todo : Settled(j)'
        BY <1>1, <1>2, <2>0, <3>1 DEF Edit
      <4>2. QED
        BY <1>1, <1>2, <3>1, <3>3, <4>1, SameNodes DEF Edit
    <3>5. Request(s)'
      BY <1>1, <1>2, <3>1, <3>3, <3>4 DEF Request
    <3>6. QED
      BY <1>3, <3>1, <3>2, <3>3, <3>5
  <2>2. CASE /\ ApplyFails(r.id) /\ r.op = "create" /\ call' = [call EXCEPT ![c] = Idle]
    <3>1. Tables' /\ (\A j \in Live : Settled(j))' /\ Idle.pc = "idle"
      BY <1>1, <1>2, <2>2, SameTables, SameNodes DEF ApplyFails, Idle
    <3>2. QED
      BY <1>3, <2>2, <3>1
  <2>3. CASE /\ ApplyFails(r.id) /\ r.op # "create"
             /\ call' = [call EXCEPT ![c] = IF r.undo THEN [r EXCEPT !.pc = "dependents"] ELSE Undone(r)]
    <3>1. r.id \in Live /\ (r.undo => faults >= 1) /\ r.op = "update"
      BY <1>1, <1>2, <2>3 DEF Edit
    <3>2. ~r.undo
      BY <1>1, <2>3, <3>1 DEF ApplyFails
    <3>3. call' = [call EXCEPT ![c] = Undone(r)]
      BY <2>3, <3>2
    <3>4. QED
      BY <1>4, <2>3, <3>1, <3>3
  <2>4. QED
    BY <1>0, <1>5, <2>1, <2>2, <2>3 DEF ApplyNode
<1>6. CASE ApplyDependent(c)
  <2>0. PICK i \in r.todo :
          \/ ApplySucceeds(i) /\ call' = [call EXCEPT ![c].todo = @ \ {i}]
          \/ /\ ApplyFails(i)
             /\ call' = [call EXCEPT ![c] = IF r.undo THEN [r EXCEPT !.todo = @ \ {i}] ELSE Undone(r)]
    BY <1>0, <1>6 DEF ApplyDependent
  <2>1. r.pc = "dependents" /\ r.op = "update" /\ Edit(r) /\ i \in Live
    BY <1>0, <1>1, <1>2, <1>6, <2>0 DEF ApplyDependent, Edit
  <2>2. CASE ApplySucceeds(i) /\ call' = [call EXCEPT ![c].todo = @ \ {i}]
    <3> DEFINE s == [r EXCEPT !.todo = @ \ {i}]
    <3>1. /\ Tables' /\ Settled(i)' /\ Live' = Live /\ faults' = faults
          /\ \A j \in Live : Settled(j) => Settled(j)'
      BY <1>1, <2>1, <2>2, Applies, SameNodes DEF ApplySucceeds, Live
    <3>2. call' = [call EXCEPT ![c] = s]
      BY <1>0, <1>1, <2>2
    <3>3. /\ s.pc = "dependents" /\ s.op = r.op /\ s.id = r.id /\ s.old = r.old /\ s.ep = r.ep
          /\ s.deps = r.deps /\ s.todo = r.todo \ {i} /\ s.undo = r.undo /\ s.backend = r.backend
          /\ s.swept = r.swept
      BY <1>1, <2>1 DEF Call
    <3> HIDE DEF s
    <3>4. Edit(s)'
      <4>1. \A j \in Live \ s.todo : Settled(j)'
        BY <2>1, <3>1, <3>3 DEF Edit
      <4>2. QED
        BY <1>1, <2>1, <3>1, <3>3, <4>1, SameNodes DEF Edit
    <3>5. Request(s)'
      BY <2>1, <3>3, <3>4 DEF Request
    <3>6. QED
      BY <1>3, <3>1, <3>2, <3>3, <3>5
  <2>3. CASE /\ ApplyFails(i)
             /\ call' = [call EXCEPT ![c] = IF r.undo THEN [r EXCEPT !.todo = @ \ {i}] ELSE Undone(r)]
    <3>1. ~r.undo
      BY <1>1, <2>1, <2>3 DEF ApplyFails, Edit
    <3>2. QED
      BY <1>4, <2>1, <2>3, <3>1
  <2>4. QED
    BY <2>0, <2>2, <2>3
<1>7. QED
  BY <1>5, <1>6

LEMMA RestartOrderly ==
    ASSUME HandlersInv, Exclusive, Orderly, ~overlapped, faults' <= 1, NEW i \in Id, RestartFront(i)
    PROVE  Orderly'
<1>1. /\ node' = node /\ revisions' = revisions /\ call' = call /\ i \in Live
      /\ applied' = [applied EXCEPT ![i] = Rendered(i)] /\ applied \in [Id -> Applied \cup {None}]
      /\ faults = 0 /\ faults' = 1
  BY DEF RestartFront, HandlersInv, TypeOK
<1>2. /\ Tables' /\ Live' = Live /\ \A j \in Live : Settled(j) => Settled(j)'
  <2>1. Tables
    BY <1>1 DEF Orderly
  <2>2. (Tables => Tables') /\ \A j \in Id : Settled(j) => Settled(j)'
    BY <1>1, Applies
  <2>3. QED
    BY <1>1, <2>1, <2>2, SameNodes DEF Live
<1>3. ASSUME NEW c \in Caller, call'[c].pc # "idle" PROVE Request(call[c])'
  <2>0. PICK r : r = call[c] /\ r = call'[c]
    BY <1>1
  <2>1. Request(r) /\ r \in Call
    BY <1>1, <1>3, <2>0, Alone
  <2>2. Edit(r) => Edit(r)'
    <3> SUFFICES ASSUME Edit(r) PROVE Edit(r)'
      OBVIOUS
    <3>1. ~r.undo
      BY <1>1 DEF Edit
    <3>2. QED
      BY <1>1, <1>2, <3>1, SameNodes DEF Edit
  <2>3. Request(r)'
    BY <1>1, <1>2, <2>1, <2>2, SameNodes DEF Request
  <2>4. QED
    BY <2>0, <2>3 DEF Request, Edit, Before, Unspoilt
<1>4. Quiet' => (\A j \in Live : Settled(j))'
  BY <1>1, <1>2 DEF Quiet, Orderly
<1>5. QED
  BY <1>2, <1>3, <1>4 DEF Orderly

LEMMA StepOrderly == HandlersInv /\ Exclusive /\ Orderly /\ [Next]_vars => Orderly'
<1> SUFFICES ASSUME HandlersInv, Exclusive, Orderly, [Next]_vars, ~overlapped', faults' <= 1 PROVE Orderly'
  BY DEF Orderly
<1>0. faults \in Nat /\ overlapped \in BOOLEAN
  BY DEF HandlersInv, TypeOK
<1>1. CASE UNCHANGED vars
  BY <1>1 DEF vars, Orderly, Tables, Quiet, Settled, Request, Edit, Before, Unspoilt, Rendered, Live,
     BackendOK, Unique, Conflict
<1>2. ASSUME NEW c \in Caller, CreateNode(c) \/ UpdateNode(c) \/ DeleteNode(c) PROVE Orderly'
  BY <1>2, ArriveOrderly
<1>3. ASSUME NEW c \in Caller, Step(c) PROVE Orderly'
  <2>1. ~overlapped /\ faults <= 1
    BY <1>0, <1>3 DEF Step, Check, ReadRevision, CommitCreate, CommitUpdate, ApplyNode,
       ApplyDependent, Answer, CheckDelete, DeleteRow, ApplySucceeds, ApplyFails
  <2>2. QED
    BY <1>3, <2>1, CheckOrderly, ReadOrderly, CreateOrderly, UpdateOrderly, ApplyOrderly, AnswerOrderly,
       DeleteOrderly DEF Step
<1>4. CASE Maintain
  BY <1>4, MaintainOrderly
<1>5. ASSUME NEW i \in Id, RestartFront(i) PROVE Orderly'
  BY <1>5, RestartOrderly DEF RestartFront
<1>6. QED
  BY <1>1, <1>2, <1>3, <1>4, <1>5 DEF Next

\* When no request is in progress, requests have not overlapped and at most one thing went
\* wrong, every node runs with its row and every ShadowTLS node with the present address
\* of its backend: the automatic rollback of updateNode writes the old row again, is never
\* refused, and applies every node the edit had reached.
THEOREM StoredIsApplied == Spec => []AppliedIsStored
<1>1. HandlersInv /\ [Next]_vars => HandlersInv'
  BY HandlersStep
<1>2. HandlersInv /\ Exclusive /\ [Next]_vars => Exclusive'
  BY StepExclusive
<1>3. HandlersInv /\ Exclusive /\ Orderly /\ [Next]_vars => Orderly'
  BY StepOrderly
<1>4. Orderly => AppliedIsStored
  BY DEF Orderly, AppliedIsStored, Settled
<1>5. QED
  BY InitInv, InitExclusive, InitOrderly, <1>1, <1>2, <1>3, <1>4, PTL DEF Spec
=============================================================================
