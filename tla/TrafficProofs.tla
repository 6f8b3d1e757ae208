--------------------------- MODULE TrafficProofs ---------------------------
(***************************************************************************)
(* Theorems about Traffic, for all nodes, quotas, counters and bounds: the *)
(* types, that no byte is billed twice, that the project is charged no     *)
(* more than its nodes, and that a pause by hand stays.                    *)
(***************************************************************************)
EXTENDS Traffic, TLAPS

-----------------------------------------------------------------------------
(* What the operators on a billing row return.                              *)

LEMMA PeriodType ==
    ASSUME NEW t \in Nat, NEW d \in Nat
    PROVE  BillingPeriod(t, d) \in Int \X Nat
<1>1. t \div DaysPerMonth \in Int /\ t % DaysPerMonth \in Int
  BY TrafficAssumption
<1>2. QED
  BY <1>1 DEF BillingPeriod

LEMMA FreshType ==
    ASSUME NEW t \in Nat, NEW q \in Nat, NEW d \in Nat \ {0}
    PROVE  FreshRow(t, q, d) \in Row
  BY PeriodType DEF FreshRow, Row

LEMMA DeltaType ==
    ASSUME NEW b \in Nat \cup {None}, NEW r \in Nat
    PROVE  Delta(b, r) \in Nat
  BY DEF Delta

LEMMA RollType ==
    ASSUME day \in Nat, NEW c \in Row
    PROVE  Roll(c) \in Row
<1>1. BillingPeriod(day, c.day) \in Int \X Nat
  BY PeriodType DEF Row
<1>2. QED
  BY <1>1 DEF Roll, Row

LEMMA EnforceType ==
    ASSUME NEW c \in Row
    PROVE  Enforce(c) \in Row
  BY DEF Enforce, Row

LEMMA ChargeType ==
    ASSUME day \in Nat, NEW c \in Row, NEW bytes \in Nat
    PROVE  Charge(c, bytes) \in Row
<1> DEFINE r == Roll(c)
<1>1. r \in Row
  BY RollType
<1> HIDE DEF r
<1>2. [r EXCEPT !.used = @ + bytes] \in Row
  BY <1>1 DEF Row
<1>3. QED
  BY <1>2, EnforceType DEF Charge, r

-----------------------------------------------------------------------------
(* Type correctness.                                                        *)

LEMMA NoRoundType == NoRound \in Round
  BY DEF NoRound, Round, RoundRecord

LEMMA IdleType == Idle \in Call
  BY DEF Idle, Call

LEMMA BlockRestType ==
    ASSUME NEW r \in RoundRecord
    PROVE  BlockRest(r) \in Round
<1>1. [r EXCEPT !.pc = "block"] \in Round
  BY DEF Round, RoundRecord
<1>2. QED
  BY <1>1, NoRoundType DEF BlockRest

LEMMA SampledRoundType ==
    ASSUME NEW r \in Round, NEW n \in Node, NEW k \in Nat, NEW h \in SUBSET Node
    PROVE  [r EXCEPT !.todo = @ \ {n}, !.sampled = @ \cup {n}, !.sum = @ + k, !.held = h] \in Round
<1>1. /\ r.todo \ {n} \in SUBSET Node /\ r.sampled \cup {n} \in SUBSET Node /\ r.sum + k \in Nat
      /\ r \in RoundRecord
  BY DEF Round, RoundRecord
<1>2. [r EXCEPT !.todo = @ \ {n}, !.sampled = @ \cup {n}, !.sum = @ + k, !.held = h] \in RoundRecord
  BY <1>1 DEF RoundRecord
<1>3. r.pc = "sample" => \A m \in r.todo \ {n} : r.snap[m] \in Nat
  BY DEF Round
<1>4. QED
  BY <1>1, <1>2, <1>3 DEF Round, RoundRecord

LEMMA SetBlockedType ==
    ASSUME TypeOK, NEW n \in Node, NEW on \in BOOLEAN, SetBlocked(n, on)
    PROVE  block' \in SUBSET Node
  BY DEF SetBlocked, TypeOK

LEMMA SetCallType ==
    ASSUME TypeOK, NEW c \in Caller, NEW r \in Call, SetCall(c, r)
    PROVE  call' \in [Caller -> Call]
  BY IdleType DEF TypeOK, SetCall

\* A sample in progress has the counter of each node still to do.
LEMMA SampledType ==
    ASSUME TypeOK, NEW n \in Node, round.pc = "sample", n \in round.todo
    PROVE  round.snap[n] \in Nat /\ Sampled(n) \in Nat
<1>1. round.snap[n] \in Nat /\ baseline[n] \in Nat \cup {None}
  BY DEF TypeOK, Round, RoundRecord
<1>2. QED
  BY <1>1, DeltaType DEF Sampled

LEMMA SamplerType ==
    ASSUME TypeOK, Sampler
    PROVE  TypeOK'
<1>1. CASE SamplerList
  <2>1. [NoRound EXCEPT !.pc = "read", !.active = running] \in Round
    BY DEF NoRound, Round, RoundRecord, TypeOK
  <2>2. QED
    BY <1>1, <2>1 DEF SamplerList, TypeOK
<1>2. CASE SamplerRead
  <2>1. raw' \in [Node -> Nat \cup {None}] /\ \A n \in round.active : raw'[n] \in Nat
    BY <1>2 DEF SamplerRead, Ensured, TypeOK, Round, RoundRecord
  <2>2. [round EXCEPT !.pc = "sample", !.snap = raw', !.todo = round.active] \in Round
    BY <2>1 DEF Round, RoundRecord, TypeOK
  <2>3. QED
    BY <1>2, <2>1, <2>2 DEF SamplerRead, Ensured, TypeOK
<1>3. ASSUME NEW n \in Node, SamplerSample(n)
      PROVE  TypeOK'
  <2>1. Sampled(n) \in Nat /\ round.snap[n] \in Nat
    BY <1>3, SampledType DEF SamplerSample
  <2>2. row' \in [Node -> Row]
    BY <1>3, <2>1, ChargeType DEF SamplerSample, TypeOK
  <2>3. baseline' \in [Node -> Nat \cup {None}] /\ unbilled' \in [Node -> Int] /\ uncharged' \in Int
    BY <1>3, <2>1 DEF SamplerSample, TypeOK
  <2>4. round' \in Round
    <3>1. round \in Round /\ IF row'[n].paused THEN round.held \cup {n} \in SUBSET Node
                                               ELSE round.held \in SUBSET Node
      BY DEF TypeOK, Round, RoundRecord
    <3>2. QED
      BY <1>3, <2>1, <3>1, SampledRoundType DEF SamplerSample
  <2>5. QED
    BY <1>3, <2>2, <2>3, <2>4 DEF SamplerSample, TypeOK
<1>4. CASE SamplerProject
  <2>1. round \in RoundRecord /\ round.sum \in Nat
    BY DEF TypeOK, Round, RoundRecord
  <2>2. project' \in Row
    BY <1>4, <2>1, ChargeType DEF SamplerProject, TypeOK
  <2>3. project'.paused \in BOOLEAN
    BY <2>2 DEF Row
  <2>4. [round EXCEPT !.todo = round.active, !.sum = 0, !.verdict = project'.paused,
                      !.snap = [n \in Node |-> None]] \in RoundRecord
    BY <2>1, <2>3 DEF RoundRecord
  <2>5. round' \in Round
    BY <1>4, <2>4, BlockRestType DEF SamplerProject
  <2>6. QED
    BY <1>4, <2>1, <2>2, <2>5 DEF SamplerProject, TypeOK
<1>5. ASSUME NEW n \in Node, SamplerBlock(n)
      PROVE  TypeOK'
  <2>1. [round EXCEPT !.todo = @ \ {n}] \in RoundRecord
    BY <1>5 DEF SamplerBlock, TypeOK, Round, RoundRecord
  <2>2. round' \in Round
    BY <1>5, <2>1, BlockRestType DEF SamplerBlock
  <2>3. Verdict(n) \in BOOLEAN
    BY DEF Verdict, TypeOK, Round, RoundRecord, Row
  <2>4. block' \in SUBSET Node
    BY <1>5, <2>3, SetBlockedType DEF SamplerBlock
  <2>5. QED
    BY <1>5, <2>2, <2>4 DEF SamplerBlock, TypeOK
<1>6. QED
  BY <1>1, <1>2, <1>3, <1>4, <1>5 DEF Sampler

LEMMA RequestedType ==
    ASSUME TypeOK, NEW c \in Caller, Requested(c)
    PROVE  TypeOK'
<1> day \in Nat /\ \A q \in Quota : q \in Nat
  BY TrafficAssumption DEF TypeOK
<1>1. \A d \in ResetDay : d \in Nat \ {0}
  BY TrafficAssumption
<1>2. \A kind : Arrives(c, kind) =>
        /\ requests' \in 0..MaxRequests
        /\ UNCHANGED <<day, raw, block, round, faults, unbilled, uncharged>>
  BY TrafficAssumption DEF Arrives, TypeOK
<1>3. ASSUME NEW n \in Node, NEW pause \in BOOLEAN, PauseTraffic(c, n, pause)
      PROVE  TypeOK'
  <2>1. row[n].paused \in BOOLEAN
    BY DEF TypeOK, Row
  <2>2. [Idle EXCEPT !.pc = "policy", !.node = n, !.on = pause, !.next = "pause",
                     !.pause = pause, !.undo = row[n].paused] \in Call
    BY <2>1 DEF Idle, Call
  <2>3. call' \in [Caller -> Call]
    BY <1>3, <2>2, SetCallType DEF PauseTraffic
  <2>4. QED
    BY <1>2, <1>3, <2>3 DEF PauseTraffic, TypeOK
<1>4. ASSUME NEW n \in Node, ResetTraffic(c, n)
      PROVE  TypeOK'
  <2>1. [Idle EXCEPT !.pc = "policy", !.node = n] \in Call
    BY DEF Idle, Call
  <2>2. call' \in [Caller -> Call]
    BY <1>4, <2>1, SetCallType DEF ResetTraffic
  <2>3. FreshRow(day, row[n].quota, row[n].day) \in Row
    BY FreshType DEF TypeOK, Row
  <2>4. row' \in [Node -> Row] /\ baseline' \in [Node -> Nat \cup {None}]
    BY <1>4, <2>3 DEF ResetTraffic, TypeOK
  <2>5. QED
    BY <1>2, <1>4, <2>2, <2>4 DEF ResetTraffic, TypeOK
<1>5. ASSUME NEW n \in Node, NEW q \in Quota, NEW d \in ResetDay, SetQuota(c, n, q, d)
      PROVE  TypeOK'
  <2>1. [row[n] EXCEPT !.quota = q, !.day = d] \in Row
    BY <1>1 DEF TypeOK, Row
  <2>2. row' \in [Node -> Row]
    BY <1>5, <2>1 DEF SetQuota, TypeOK
  <2>3. QED
    BY <1>2, <1>5, <2>2 DEF SetQuota, TypeOK
<1>6. ASSUME NEW n \in Node, StartNode(c, n) \/ StopNode(c, n) \/ EditNode(c, n)
      PROVE  TypeOK'
  <2>1. \A x \in {"sync", "block"} : [Idle EXCEPT !.pc = x, !.node = n] \in Call
    BY DEF Idle, Call
  <2>2. call' \in [Caller -> Call]
    BY <1>6, <2>1, SetCallType DEF StartNode, StopNode, EditNode
  <2>3. running' \in SUBSET Node
    BY <1>6 DEF StartNode, StopNode, EditNode, TypeOK
  <2>4. QED
    BY <1>2, <1>6, <2>2, <2>3 DEF StartNode, StopNode, EditNode, TypeOK
<1>7. ASSUME NEW pause \in BOOLEAN, PauseProjectTraffic(c, pause)
      PROVE  TypeOK'
  <2>1. project.paused \in BOOLEAN
    BY DEF TypeOK, Row
  <2>2. [Idle EXCEPT !.pc = "list", !.on = pause, !.next = "pauseProject",
                     !.pause = pause, !.undo = project.paused] \in Call
    BY <2>1 DEF Idle, Call
  <2>3. call' \in [Caller -> Call]
    BY <1>7, <2>2, SetCallType DEF PauseProjectTraffic
  <2>4. QED
    BY <1>2, <1>7, <2>3 DEF PauseProjectTraffic, TypeOK
<1>8. CASE ResetProjectTraffic(c)
  <2>1. [Idle EXCEPT !.pc = "list"] \in Call
    BY DEF Idle, Call
  <2>2. call' \in [Caller -> Call]
    BY <1>8, <2>1, SetCallType DEF ResetProjectTraffic
  <2>3. project' \in Row
    BY <1>8, FreshType DEF ResetProjectTraffic, TypeOK, Row
  <2>4. QED
    BY <1>2, <1>8, <2>2, <2>3 DEF ResetProjectTraffic, TypeOK
<1>9. ASSUME NEW q \in Quota, NEW d \in ResetDay, SetProjectQuota(c, q, d)
      PROVE  TypeOK'
  <2>1. [Idle EXCEPT !.pc = "resample"] \in Call
    BY DEF Idle, Call
  <2>2. call' \in [Caller -> Call]
    BY <1>9, <2>1, SetCallType DEF SetProjectQuota
  <2>3. [project EXCEPT !.quota = q, !.day = d] \in Row
    BY <1>1 DEF TypeOK, Row
  <2>4. QED
    BY <1>2, <1>9, <2>2, <2>3 DEF SetProjectQuota, TypeOK
<1>10. QED
  BY <1>3, <1>4, <1>5, <1>6, <1>7, <1>8, <1>9 DEF Requested

LEMMA FaultType ==
    ASSUME TypeOK, Fault
    PROVE  faults' \in 0..MaxFaults
  BY TrafficAssumption DEF TypeOK, Fault

LEMMA CalledType ==
    ASSUME TypeOK, NEW c \in Caller, Called(c)
    PROVE  TypeOK'
<1> DEFINE r == call[c]
<1>1. r \in Call
  BY DEF TypeOK
<1>2. UNCHANGED callElse => UNCHANGED <<day, running, baseline, raw, round, requests, unbilled, uncharged>>
  BY DEF callElse
<1>3. CASE CallBlock(c)
  <2>1. r.node \in Node /\ r.on \in BOOLEAN /\ [r EXCEPT !.pc = r.next] \in Call
    BY <1>1, <1>3 DEF CallBlock, At, Call
  <2>2. call' \in [Caller -> Call]
    BY <1>3, <2>1, SetCallType DEF CallBlock
  <2>3. block' \in SUBSET Node
    BY <1>3, <2>1, SetBlockedType DEF CallBlock
  <2>4. QED
    BY <1>2, <1>3, <2>2, <2>3 DEF CallBlock, TypeOK
<1>4. CASE CallPause(c)
  <2>1. r.node \in Node /\ r.pause \in BOOLEAN
    BY <1>1, <1>4 DEF CallPause, At, Call
  <2>2. [row[r.node] EXCEPT !.paused = r.pause, !.byQuota = FALSE] \in Row
    BY <2>1 DEF TypeOK, Row
  <2>3. row' \in [Node -> Row]
    BY <1>4, <2>1, <2>2 DEF CallPause, TypeOK
  <2>4. call' \in [Caller -> Call]
    BY <1>4, IdleType, SetCallType DEF CallPause
  <2>5. QED
    BY <1>2, <1>4, <2>3, <2>4 DEF CallPause, TypeOK
<1>5. CASE CallSync(c)
  <2>1. r.node \in Node /\ row[r.node].paused \in BOOLEAN
    BY <1>1, <1>5 DEF CallSync, At, Call, TypeOK, Row
  <2>2. [r EXCEPT !.pc = "policy", !.on = row[r.node].paused] \in Call
    BY <1>1, <2>1 DEF Call
  <2>3. call' \in [Caller -> Call]
    BY <1>5, <2>2, SetCallType DEF CallSync
  <2>4. QED
    BY <1>2, <1>5, <2>3 DEF CallSync, TypeOK
<1>6. CASE CallResample(c)
  <2>1. project' \in Row
    <3>1. day \in Nat /\ project \in Row /\ 0 \in Nat
      BY TrafficAssumption DEF TypeOK
    <3>2. Charge(project, 0) \in Row
      BY <3>1, ChargeType
    <3>3. QED
      BY <1>6, <3>2 DEF CallResample
  <2>2. [Idle EXCEPT !.pc = "list", !.on = project'.paused] \in Call
    BY <2>1 DEF Idle, Call, Row
  <2>3. call' \in [Caller -> Call]
    BY <1>6, <2>2, IdleType, SetCallType DEF CallResample
  <2>4. QED
    BY <1>2, <1>6, <2>1, <2>3 DEF CallResample, TypeOK
<1>7. CASE CallList(c)
  <2>1. [r EXCEPT !.pc = IF running = {} THEN r.next ELSE "all", !.todo = running,
                  !.held = {n \in Node : row[n].paused}] \in Call
    <3>1. running \in SUBSET Node /\ {n \in Node : row[n].paused} \in SUBSET Node
      BY DEF TypeOK
    <3>2. QED
      BY <1>1, <3>1 DEF Call
  <2>2. call' \in [Caller -> Call]
    BY <1>7, <2>1, SetCallType DEF CallList
  <2>3. QED
    BY <1>2, <1>7, <2>2 DEF CallList, TypeOK
<1>8. ASSUME NEW n \in Node, CallAll(c, n)
      PROVE  TypeOK'
  <2>1. r.todo \ {n} \in SUBSET Node /\ (r.on \/ n \in r.held) \in BOOLEAN
    BY <1>1 DEF Call
  <2>2. [r EXCEPT !.todo = @ \ {n}, !.pc = IF r.todo = {n} THEN r.next ELSE "all"] \in Call
    BY <1>1, <2>1 DEF Call
  <2>3. call' \in [Caller -> Call]
    BY <1>8, <2>2, SetCallType DEF CallAll
  <2>4. block' \in SUBSET Node
    BY <1>8, <2>1, SetBlockedType DEF CallAll
  <2>5. QED
    BY <1>2, <1>8, <2>3, <2>4 DEF CallAll, TypeOK
<1>9. CASE CallPauseProject(c)
  <2>1. [project EXCEPT !.paused = r.pause, !.byQuota = FALSE] \in Row
    BY <1>1 DEF TypeOK, Row, Call
  <2>2. call' \in [Caller -> Call]
    BY <1>9, IdleType, SetCallType DEF CallPauseProject
  <2>3. QED
    BY <1>2, <1>9, <2>1, <2>2 DEF CallPauseProject, TypeOK
<1>10. CASE CallPolicy(c)
  <2>1. r.node \in Node /\ (r.on \/ project.paused) \in BOOLEAN /\ (r.undo \/ project.paused) \in BOOLEAN
    BY <1>1, <1>10 DEF CallPolicy, At, Call
  <2>2. [r EXCEPT !.pc = "block", !.on = @ \/ project.paused, !.undo = @ \/ project.paused] \in Call
    BY <1>1, <2>1 DEF Call
  <2>3. call' \in [Caller -> Call]
    BY <1>10, <2>2, SetCallType DEF CallPolicy
  <2>4. QED
    BY <1>2, <1>10, <2>3 DEF CallPolicy, TypeOK
<1>11. QED
  BY <1>3, <1>4, <1>5, <1>6, <1>7, <1>8, <1>9, <1>10 DEF Called

LEMMA FailureType ==
    ASSUME TypeOK, NEW c \in Caller,
           CallUndo(c) \/ CallAbort(c) \/ \E n \in Node : CallSkip(c, n)
    PROVE  TypeOK'
<1> DEFINE r == call[c]
<1>1. r \in Call
  BY DEF TypeOK
<1>2. call' \in [Caller -> Call]
  <2>1. CASE CallUndo(c)
    <3>1. [r EXCEPT !.pc = IF At(c, "pause") THEN "block" ELSE "list", !.on = r.undo, !.next = "idle"] \in Call
      BY <1>1 DEF At, Call
    <3>2. QED
      BY <2>1, <3>1, SetCallType DEF CallUndo
  <2>2. CASE CallAbort(c)
    BY <2>2, IdleType, SetCallType DEF CallAbort
  <2>3. ASSUME NEW n \in Node, CallSkip(c, n)
        PROVE  call' \in [Caller -> Call]
    <3>1. r.todo \ {n} \in SUBSET Node
      BY <1>1 DEF Call
    <3>2. [r EXCEPT !.todo = @ \ {n}, !.next = "idle", !.pc = IF r.todo = {n} THEN "idle" ELSE "all"] \in Call
      BY <1>1, <3>1 DEF Call
    <3>3. QED
      BY <2>3, <3>2, SetCallType DEF CallSkip
  <2>4. QED
    BY <2>1, <2>2, <2>3
<1>3. faults' \in 0..MaxFaults
  BY FaultType DEF CallUndo, CallAbort, CallSkip
<1>4. QED
  BY <1>2, <1>3 DEF CallUndo, CallAbort, CallSkip, callElse, TypeOK

\* The steps of the world, and the failures of the sampler.
LEMMA WorldType ==
    ASSUME TypeOK, SamplerAbort \/ Tick \/ \E n \in Node : SamplerSkip(n) \/ SamplerUnread(n) \/ Pass(n) \/ RulesLost(n)
    PROVE  TypeOK'
<1>1. CASE SamplerAbort
  BY <1>1, FaultType, NoRoundType DEF SamplerAbort, TypeOK
<1>2. CASE Tick
  BY <1>2, TrafficAssumption DEF Tick, TypeOK
<1>3. ASSUME NEW n \in Node, SamplerSkip(n)
      PROVE  TypeOK'
  <2>1. /\ [round EXCEPT !.todo = @ \ {n}] \in RoundRecord
        /\ [round EXCEPT !.todo = @ \ {n}] \in Round
    BY DEF TypeOK, Round, RoundRecord
  <2>2. round' \in Round
    BY <1>3, <2>1, BlockRestType DEF SamplerSkip
  <2>3. QED
    BY <1>3, <2>2, FaultType DEF SamplerSkip, TypeOK
<1>4. ASSUME NEW n \in Node, Pass(n)
      PROVE  TypeOK'
  <2>1. raw' \in [Node -> Nat \cup {None}] /\ unbilled' \in [Node -> Int]
    BY <1>4 DEF Pass, TypeOK
  <2>2. QED
    BY <1>4, <2>1 DEF Pass, TypeOK
<1>5. ASSUME NEW n \in Node, RulesLost(n)
      PROVE  TypeOK'
  BY <1>5, FaultType DEF RulesLost, TypeOK
<1>6. ASSUME NEW n \in Node, SamplerUnread(n)
      PROVE  TypeOK'
  <2>1. [round EXCEPT !.todo = @ \ {n}] \in RoundRecord /\ round.verdict \in BOOLEAN
    BY DEF TypeOK, Round, RoundRecord
  <2>2. round' \in Round
    BY <1>6, <2>1, BlockRestType DEF SamplerUnread
  <2>3. block' \in SUBSET Node
    BY <1>6, <2>1, SetBlockedType DEF SamplerUnread
  <2>4. QED
    BY <1>6, <2>2, <2>3 DEF SamplerUnread, TypeOK
<1>7. QED
  BY <1>1, <1>2, <1>3, <1>4, <1>5, <1>6

LEMMA TypeStep ==
    ASSUME TypeOK, [Next]_vars
    PROVE  TypeOK'
<1>1. CASE UNCHANGED vars
  BY <1>1 DEF vars, TypeOK
<1>2. QED
  BY <1>1, SamplerType, RequestedType, CalledType, FailureType, WorldType DEF Next

LEMMA TypeInit == Init => TypeOK
<1> SUFFICES ASSUME Init
             PROVE  TypeOK
  OBVIOUS
<1>1. \A q \in Quota, d \in ResetDay : FreshRow(0, q, d) \in Row
  BY FreshType, TrafficAssumption
<1>2. row \in [Node -> Row] /\ project \in Row
  BY <1>1 DEF Init
<1>3. QED
  BY <1>2, NoRoundType, IdleType, TrafficAssumption DEF Init, TypeOK

\* Rows, counters, rounds of the sampler and requests keep their types; of a row
\* this says that a pause made by the quota is a pause.
THEOREM TypeCorrect == Spec => []TypeOK
<1>1. TypeOK /\ [Next]_vars => TypeOK'
  BY TypeStep
<1>2. QED
  BY <1>1, TypeInit, PTL DEF Spec

-----------------------------------------------------------------------------
(* No byte is billed twice.                                                 *)

\* What the next sample of a node would accept.
Pending(before, now) == IF now = None THEN 0 ELSE Delta(before, now)

\* The bytes not yet billed cover what the next sample would accept; while a round
\* holds an older counter they cover its sample and, after it, the next one.
Covered ==
    \A n \in Node :
        /\ Pending(baseline[n], raw[n]) <= unbilled[n]
        /\ round.pc = "sample" /\ n \in round.todo
             => Delta(baseline[n], round.snap[n]) + Pending(round.snap[n], raw[n]) <= unbilled[n]

\* The sum of a round has been accepted and not yet charged.
SumCovered == round.sum <= uncharged

BillingInv == TypeOK /\ Covered /\ SumCovered

LEMMA PendingType ==
    ASSUME NEW b \in Nat \cup {None}, NEW r \in Nat \cup {None}
    PROVE  Pending(b, r) \in Nat
  BY DeltaType DEF Pending

LEMMA SamplerCovers ==
    ASSUME BillingInv, Sampler
    PROVE  Covered' /\ SumCovered'
<1> TypeOK /\ Covered /\ SumCovered
  BY DEF BillingInv
<1> TypeOK'
  BY SamplerType
<1>1. \A n \in Node : /\ baseline[n] \in Nat \cup {None} /\ raw[n] \in Nat \cup {None}
                     /\ unbilled[n] \in Int
  BY DEF TypeOK
<1>2. round.sum \in Nat /\ uncharged \in Int
  BY DEF TypeOK, Round, RoundRecord
<1>3. CASE SamplerList
  <2>1. round'.pc = "read" /\ round'.sum = 0
    BY <1>3 DEF SamplerList, NoRound
  <2>2. QED
    BY <1>2, <1>3, <2>1 DEF SamplerList, Covered, SumCovered
<1>4. CASE SamplerRead
  <2>1. /\ round'.snap = raw' /\ round'.sum = round.sum /\ round'.todo = round.active
        /\ UNCHANGED <<baseline, unbilled, uncharged>>
    BY <1>4 DEF SamplerRead, Ensured, TypeOK, Round, RoundRecord
  <2>2. \A n \in Node : raw'[n] = IF n \notin round.active THEN None ELSE IF raw[n] = None THEN 0 ELSE raw[n]
    BY <1>4 DEF SamplerRead, Ensured
  <2>3. ASSUME NEW n \in Node
        PROVE  Pending(baseline[n], raw'[n]) <= unbilled[n]
    <3>1. Pending(baseline[n], raw[n]) \in Nat /\ Pending(baseline[n], raw[n]) <= unbilled[n]
      BY <1>1, PendingType DEF Covered
    <3>2. QED
      BY <1>1, <2>2, <3>1, TrafficAssumption DEF Pending, Delta
  <2>4. ASSUME NEW n \in Node, n \in round.active
        PROVE  Delta(baseline[n], raw'[n]) + Pending(raw'[n], raw'[n]) <= unbilled[n]
    BY <1>1, <2>2, <2>3, <2>4, TrafficAssumption DEF Pending, Delta
  <2>5. QED
    BY <2>1, <2>3, <2>4 DEF Covered, SumCovered
<1>5. ASSUME NEW n \in Node, SamplerSample(n)
      PROVE  Covered' /\ SumCovered'
  <2>1. round.snap[n] \in Nat /\ Sampled(n) \in Nat /\ round.pc = "sample" /\ n \in round.todo
    BY <1>5, SampledType DEF SamplerSample
  <2>2. Sampled(n) <= Delta(baseline[n], round.snap[n]) /\ Delta(baseline[n], round.snap[n]) \in Nat
    BY <1>1, <2>1, DeltaType DEF Sampled, Delta
  <2>3. /\ round'.todo = round.todo \ {n} /\ round'.snap = round.snap /\ round'.pc = "sample"
        /\ round'.sum = round.sum + Sampled(n) /\ uncharged' = uncharged + Sampled(n)
        /\ raw' = raw
    BY <1>5 DEF SamplerSample, TypeOK, Round, RoundRecord
  <2>4. \A k \in Node : /\ baseline'[k] = IF k = n THEN round.snap[n] ELSE baseline[k]
                       /\ unbilled'[k] = IF k = n THEN unbilled[n] - Sampled(n) ELSE unbilled[k]
    BY <1>5 DEF SamplerSample, TypeOK
  <2>5. Pending(round.snap[n], raw[n]) <= unbilled[n] - Sampled(n)
    <3>1. Delta(baseline[n], round.snap[n]) + Pending(round.snap[n], raw[n]) <= unbilled[n]
      BY <2>1 DEF Covered
    <3>2. Pending(round.snap[n], raw[n]) \in Nat
      BY <1>1, <2>1, PendingType
    <3>3. QED
      BY <1>1, <2>1, <2>2, <3>1, <3>2
  <2>6. Covered'
    BY <2>1, <2>3, <2>4, <2>5 DEF Covered
  <2>7. SumCovered'
    BY <1>2, <2>1, <2>3 DEF SumCovered
  <2>8. QED
    BY <2>6, <2>7
<1>6. ASSUME NEW r \in RoundRecord
      PROVE  BlockRest(r).pc # "sample" /\ BlockRest(r).sum \in {0, r.sum}
  BY DEF BlockRest, NoRound, RoundRecord
<1>7. CASE SamplerProject
  <2>1. round'.pc # "sample" /\ round'.sum = 0
    <3>1. /\ [round EXCEPT !.todo = round.active, !.sum = 0, !.verdict = project'.paused,
                           !.snap = [n \in Node |-> None]] \in RoundRecord
          /\ [round EXCEPT !.todo = round.active, !.sum = 0, !.verdict = project'.paused,
                           !.snap = [n \in Node |-> None]].sum = 0
      BY DEF TypeOK, Round, RoundRecord, Row
    <3>2. QED
      BY <1>6, <1>7, <3>1 DEF SamplerProject
  <2>2. QED
    BY <1>2, <1>7, <2>1 DEF SamplerProject, Covered, SumCovered
<1>8. ASSUME NEW n \in Node, SamplerBlock(n)
      PROVE  Covered' /\ SumCovered'
  <2>1. round'.pc # "sample" /\ round'.sum \in {0, round.sum}
    <3>1. [round EXCEPT !.todo = @ \ {n}] \in RoundRecord /\ [round EXCEPT !.todo = @ \ {n}].sum = round.sum
      BY DEF TypeOK, Round, RoundRecord
    <3>2. QED
      BY <1>6, <1>8, <3>1 DEF SamplerBlock
  <2>2. QED
    BY <1>2, <1>8, <2>1 DEF SamplerBlock, Covered, SumCovered
<1>9. QED
  BY <1>3, <1>4, <1>5, <1>7, <1>8 DEF Sampler

\* Requests touch the meters only by dropping a baseline.
LEMMA RequestCovers ==
    ASSUME BillingInv, NEW c \in Caller, Requested(c)
    PROVE  Covered' /\ SumCovered'
<1> TypeOK /\ Covered /\ SumCovered
  BY DEF BillingInv
<1>1. UNCHANGED <<raw, round, unbilled, uncharged>>
  BY DEF Requested, PauseTraffic, ResetTraffic, SetQuota, StartNode, StopNode, EditNode,
         PauseProjectTraffic, ResetProjectTraffic, SetProjectQuota, Arrives
<1>2. CASE UNCHANGED baseline
  BY <1>1, <1>2 DEF Covered, SumCovered
<1>3. ASSUME NEW n \in Node, ResetTraffic(c, n)
      PROVE  Covered'
  <2>1. \A k \in Node : baseline'[k] = IF k = n THEN None ELSE baseline[k]
    BY <1>3 DEF ResetTraffic, TypeOK
  <2>2. /\ unbilled[n] \in Int /\ Pending(baseline[n], raw[n]) \in Nat
        /\ Pending(baseline[n], raw[n]) <= unbilled[n]
    BY PendingType DEF Covered, TypeOK
  <2>3. Pending(None, raw[n]) = 0
    BY DEF Pending, Delta
  <2>4. round.pc = "sample" /\ n \in round.todo
          => Delta(None, round.snap[n]) + Pending(round.snap[n], raw[n]) <= unbilled[n]
    <3>1. SUFFICES ASSUME round.pc = "sample", n \in round.todo
                   PROVE  Delta(None, round.snap[n]) + Pending(round.snap[n], raw[n]) <= unbilled[n]
      OBVIOUS
    <3>2. round.snap[n] \in Nat
      BY <3>1, SampledType
    <3>3. /\ Delta(baseline[n], round.snap[n]) \in Nat /\ Pending(round.snap[n], raw[n]) \in Nat
          /\ Delta(None, round.snap[n]) = 0
      BY <3>2, DeltaType, PendingType DEF TypeOK, Delta
    <3>4. Delta(baseline[n], round.snap[n]) + Pending(round.snap[n], raw[n]) <= unbilled[n]
      BY <3>1 DEF Covered
    <3>5. QED
      BY <2>2, <3>3, <3>4
  <2>5. QED
    BY <1>1, <2>1, <2>2, <2>3, <2>4 DEF Covered
<1>4. SumCovered'
  BY <1>1 DEF SumCovered
<1>5. UNCHANGED baseline \/ \E n \in Node : ResetTraffic(c, n)
  BY DEF Requested, PauseTraffic, SetQuota, StartNode, StopNode, EditNode,
         PauseProjectTraffic, ResetProjectTraffic, SetProjectQuota
<1>6. QED
  BY <1>2, <1>3, <1>4, <1>5

\* A byte passes, rules are lost, a step of the sampler fails.
LEMMA WorldCovers ==
    ASSUME BillingInv, SamplerAbort \/ Tick \/ \E n \in Node : SamplerSkip(n) \/ SamplerUnread(n) \/ Pass(n) \/ RulesLost(n)
    PROVE  Covered' /\ SumCovered'
<1> TypeOK /\ Covered /\ SumCovered
  BY DEF BillingInv
<1>1. round.sum \in Nat /\ uncharged \in Int
  BY DEF TypeOK, Round, RoundRecord
<1>2. CASE Tick
  BY <1>2 DEF Tick, Covered, SumCovered
<1>3. CASE SamplerAbort
  <2>1. round'.pc = "idle" /\ round'.sum = 0
    BY <1>3 DEF SamplerAbort, NoRound
  <2>2. QED
    BY <1>1, <1>3, <2>1 DEF SamplerAbort, Covered, SumCovered
<1>4. ASSUME NEW n \in Node, SamplerSkip(n)
      PROVE  Covered' /\ SumCovered'
  <2> DEFINE rest == [round EXCEPT !.todo = @ \ {n}]
  <2>1. /\ rest \in RoundRecord /\ rest.todo = round.todo \ {n} /\ rest.pc = round.pc
        /\ rest.sum = round.sum /\ rest.snap = round.snap
    BY DEF TypeOK, Round, RoundRecord
  <2>2. round' = IF round.pc = "block" THEN BlockRest(rest) ELSE rest
    BY <1>4 DEF SamplerSkip
  <2> HIDE DEF rest
  <2>3. /\ round'.sum \in {0, round.sum}
        /\ round'.pc = "sample" => round'.todo \subseteq round.todo /\ round'.snap = round.snap /\ round.pc = "sample"
    BY <2>1, <2>2 DEF BlockRest, NoRound, RoundRecord
  <2>4. QED
    BY <1>1, <1>4, <2>3 DEF SamplerSkip, Covered, SumCovered
<1>5. ASSUME NEW n \in Node, Pass(n)
      PROVE  Covered' /\ SumCovered'
  <2>1. /\ raw[n] \in Nat
        /\ \A k \in Node : /\ raw'[k] = IF k = n THEN raw[n] + 1 ELSE raw[k]
                           /\ unbilled'[k] = IF k = n THEN unbilled[n] + 1 ELSE unbilled[k]
    BY <1>5 DEF Pass, TypeOK
  <2>2. /\ unbilled[n] \in Int /\ baseline[n] \in Nat \cup {None} /\ round.snap[n] \in Nat \cup {None}
    BY DEF TypeOK, Round, RoundRecord
  <2>3. \A b \in Nat \cup {None} : Pending(b, raw[n] + 1) <= Pending(b, raw[n]) + 1 /\ Pending(b, raw[n]) \in Nat
                                  /\ Pending(b, raw[n] + 1) \in Nat
    BY <2>1, TrafficAssumption DEF Pending, Delta
  <2>4. Pending(baseline[n], raw'[n]) <= unbilled'[n]
    BY <2>1, <2>2, <2>3 DEF Covered
  <2>5. round.pc = "sample" /\ n \in round.todo
          => Delta(baseline[n], round.snap[n]) + Pending(round.snap[n], raw'[n]) <= unbilled'[n]
    <3>1. SUFFICES ASSUME round.pc = "sample", n \in round.todo
                   PROVE  Delta(baseline[n], round.snap[n]) + Pending(round.snap[n], raw'[n]) <= unbilled'[n]
      OBVIOUS
    <3>2. round.snap[n] \in Nat /\ Delta(baseline[n], round.snap[n]) \in Nat
      BY <2>2, <3>1, SampledType, DeltaType
    <3>3. Delta(baseline[n], round.snap[n]) + Pending(round.snap[n], raw[n]) <= unbilled[n]
      BY <3>1 DEF Covered
    <3>4. QED
      BY <2>1, <2>2, <2>3, <3>2, <3>3
  <2>6. baseline' = baseline /\ round' = round /\ uncharged' = uncharged
    BY <1>5 DEF Pass
  <2>7. QED
    BY <2>1, <2>4, <2>5, <2>6 DEF Covered, SumCovered
<1>6. ASSUME NEW n \in Node, RulesLost(n)
      PROVE  Covered' /\ SumCovered'
  <2>1. \A k \in Node : raw'[k] = IF k = n THEN None ELSE raw[k]
    BY <1>6 DEF RulesLost, TypeOK
  <2>2. UNCHANGED <<baseline, round, unbilled, uncharged>>
    BY <1>6 DEF RulesLost
  <2>3. /\ unbilled[n] \in Int /\ Pending(baseline[n], raw[n]) \in Nat
        /\ Pending(baseline[n], raw[n]) <= unbilled[n]
        /\ Pending(round.snap[n], raw[n]) \in Nat
    BY PendingType DEF Covered, TypeOK, Round, RoundRecord
  <2>4. \A b : Pending(b, None) = 0
    BY DEF Pending
  <2>5. round.pc = "sample" /\ n \in round.todo => Delta(baseline[n], round.snap[n]) \in Nat
    BY SampledType, DeltaType DEF TypeOK
  <2>6. QED
    BY <2>1, <2>2, <2>3, <2>4, <2>5 DEF Covered, SumCovered
<1>7. ASSUME NEW n \in Node, SamplerUnread(n)
      PROVE  Covered' /\ SumCovered'
  <2> DEFINE rest == [round EXCEPT !.todo = @ \ {n}]
  <2>1. rest \in RoundRecord /\ rest.sum = round.sum
    BY DEF TypeOK, Round, RoundRecord
  <2>2. round' = BlockRest(rest)
    BY <1>7 DEF SamplerUnread
  <2> HIDE DEF rest
  <2>3. round'.pc # "sample" /\ round'.sum \in {0, round.sum}
    BY <2>1, <2>2 DEF BlockRest, NoRound, RoundRecord
  <2>4. QED
    BY <1>1, <1>7, <2>3 DEF SamplerUnread, Covered, SumCovered
<1>8. QED
  BY <1>2, <1>3, <1>4, <1>5, <1>6, <1>7

LEMMA BillingStep ==
    ASSUME BillingInv, [Next]_vars
    PROVE  BillingInv'
<1>1. TypeOK'
  BY TypeStep DEF BillingInv
<1>2. ASSUME UNCHANGED <<baseline, raw, round, unbilled, uncharged>>
      PROVE  Covered' /\ SumCovered'
  BY <1>2 DEF BillingInv, Covered, SumCovered
<1>3. ASSUME NEW c \in Caller, Called(c) \/ CallUndo(c) \/ CallAbort(c) \/ \E n \in Node : CallSkip(c, n)
      PROVE  Covered' /\ SumCovered'
  BY <1>2, <1>3 DEF Called, CallBlock, CallPause, CallSync, CallPolicy, CallResample, CallList, CallAll,
     CallPauseProject, CallUndo, CallAbort, CallSkip, callElse
<1>4. ASSUME UNCHANGED vars
      PROVE  Covered' /\ SumCovered'
  BY <1>2, <1>4 DEF vars
<1>5. ASSUME Sampler
      PROVE  Covered' /\ SumCovered'
  BY <1>5, SamplerCovers
<1>6. ASSUME NEW c \in Caller, Requested(c)
      PROVE  Covered' /\ SumCovered'
  BY <1>6, RequestCovers
<1>7. ASSUME SamplerAbort \/ Tick \/ \E n \in Node : SamplerSkip(n) \/ SamplerUnread(n) \/ Pass(n) \/ RulesLost(n)
      PROVE  Covered' /\ SumCovered'
  BY <1>7, WorldCovers
<1>8. Covered' /\ SumCovered'
  BY <1>3, <1>4, <1>5, <1>6, <1>7 DEF Next
<1>9. QED
  BY <1>1, <1>8 DEF BillingInv

LEMMA BillingInit == Init => BillingInv
  BY TypeInit, TrafficAssumption DEF Init, BillingInv, Covered, SumCovered, Pending, NoRound

LEMMA BillingSafe == BillingInv => NeverOvercounts /\ ProjectWithinNodes
<1> SUFFICES ASSUME BillingInv
             PROVE  NeverOvercounts /\ ProjectWithinNodes
  OBVIOUS
<1>1. \A n \in Node : /\ Pending(baseline[n], raw[n]) \in Nat /\ unbilled[n] \in Int
                     /\ Pending(baseline[n], raw[n]) <= unbilled[n]
  BY PendingType DEF BillingInv, TypeOK, Covered
<1>2. round.sum \in Nat /\ uncharged \in Int /\ round.sum <= uncharged
  BY DEF BillingInv, TypeOK, Round, RoundRecord, SumCovered
<1>3. QED
  BY <1>1, <1>2 DEF NeverOvercounts, ProjectWithinNodes

\* No byte is billed to a node twice, whatever happens to the rules, the rows and
\* the rounds of the sampler.
THEOREM BilledOnce == Spec => []NeverOvercounts
<1>1. BillingInv /\ [Next]_vars => BillingInv'
  BY BillingStep
<1>2. BillingInv => NeverOvercounts
  BY BillingSafe
<1>3. QED
  BY <1>1, <1>2, BillingInit, PTL DEF Spec

\* The project is never charged a byte its nodes have not accepted.
THEOREM ProjectChargedOnce == Spec => []ProjectWithinNodes
<1>1. BillingInv /\ [Next]_vars => BillingInv'
  BY BillingStep
<1>2. BillingInv => ProjectWithinNodes
  BY BillingSafe
<1>3. QED
  BY <1>1, <1>2, BillingInit, PTL DEF Spec

-----------------------------------------------------------------------------
(* A pause by hand.                                                         *)

Manual(c) == c.paused /\ ~c.byQuota

\* Node n is resumed, or its row reset, by this step.
Released(n) ==
    \E c \in Caller : call[c] # call'[c] /\
        \/ At(c, "pause") /\ call[c].node = n /\ ~call[c].pause
        \/ At(c, "idle") /\ call'[c].pc = "policy" /\ call'[c].next = "idle" /\ call'[c].node = n

\* No sample ends it, whatever it adds, and no new period.
LEMMA ChargeKeepsManual ==
    ASSUME NEW c \in Row, Manual(c), NEW bytes \in Nat, day \in Nat
    PROVE  Manual(Charge(c, bytes))
<1> DEFINE r == Roll(c)
<1>1. r \in Row
  BY RollType
<1>2. Manual(r)
  <2>1. c = [period |-> c.period, used |-> c.used, quota |-> c.quota, day |-> c.day,
             paused |-> c.paused, byQuota |-> c.byQuota]
    BY DEF Row
  <2>2. QED
    BY <2>1 DEF Roll, Manual
<1> HIDE DEF r
<1> DEFINE s == [r EXCEPT !.used = @ + bytes]
<1>3. s.paused = r.paused /\ s.byQuota = r.byQuota
  BY <1>1 DEF Row
<1> HIDE DEF s
<1>4. Enforce(s) = s
  BY <1>2, <1>3 DEF Enforce, Manual
<1>5. QED
  BY <1>2, <1>3, <1>4 DEF Charge, Manual, s, r

LEMMA ManualStep ==
    ASSUME TypeOK, [Next]_vars, NEW n \in Node, Manual(row[n])
    PROVE  Manual(row'[n]) \/ Released(n)
<1>1. ASSUME NEW k \in Node, SamplerSample(k)
      PROVE  Manual(row'[n])
  <2>1. Sampled(k) \in Nat /\ row[n] \in Row /\ day \in Nat
    BY <1>1, SampledType DEF SamplerSample, TypeOK
  <2>2. row'[n] = IF n = k THEN Charge(row[k], Sampled(k)) ELSE row[n]
    BY <1>1 DEF SamplerSample, TypeOK
  <2>3. QED
    BY <2>1, <2>2, ChargeKeepsManual
<1>2. ASSUME NEW c \in Caller, NEW k \in Node, ResetTraffic(c, k)
      PROVE  Manual(row'[n]) \/ Released(n)
  <2>1. row'[n] = row[n] \/ k = n
    BY <1>2 DEF ResetTraffic, TypeOK
  <2>2. call[c].pc = "idle" /\ call'[c].pc = "policy" /\ call'[c].next = "idle" /\ call'[c].node = k
    BY <1>2 DEF ResetTraffic, Arrives, At, SetCall, Idle, TypeOK
  <2>3. QED
    BY <2>1, <2>2 DEF Released, At
<1>3. ASSUME NEW c \in Caller, NEW k \in Node, NEW q, NEW d, SetQuota(c, k, q, d)
      PROVE  Manual(row'[n])
  <2>1. row' = [row EXCEPT ![k] = [@ EXCEPT !.quota = q, !.day = d]]
    BY <1>3 DEF SetQuota, TypeOK
  <2>2. \A r \in Row : Manual([r EXCEPT !.quota = q, !.day = d]) <=> Manual(r)
    BY DEF Manual, Row
  <2>3. QED
    BY <2>1, <2>2 DEF TypeOK
<1>4. ASSUME NEW c \in Caller, CallPause(c)
      PROVE  Manual(row'[n]) \/ Released(n)
  <2> DEFINE k == call[c].node
  <2>1. row' = [row EXCEPT ![k] = [@ EXCEPT !.paused = call[c].pause, !.byQuota = FALSE]]
    BY <1>4 DEF CallPause, TypeOK
  <2>2. row[n] \in Row /\ row'[n] = IF n = k
                    THEN [row[n] EXCEPT !.paused = call[c].pause, !.byQuota = FALSE] ELSE row[n]
    BY <2>1 DEF TypeOK
  <2>3. call[c].pc = "pause" /\ call'[c].pc = "idle"
    BY <1>4 DEF CallPause, At, SetCall, Idle, TypeOK
  <2>4. n = k /\ call[c].pause => Manual(row'[n])
    BY <2>2 DEF Manual, Row
  <2>5. n = k /\ ~call[c].pause => Released(n)
    BY <2>3 DEF Released, At
  <2>6. QED
    BY <2>2, <2>4, <2>5
<1>5. ASSUME row' = row
      PROVE  Manual(row'[n])
  BY <1>5
<1>6. ASSUME NEW c \in Caller, Called(c), ~CallPause(c)
      PROVE  row' = row
  BY <1>6 DEF Called, CallBlock, CallSync, CallPolicy, CallResample, CallList, CallPauseProject, CallAll
<1>7. ASSUME NEW c \in Caller, Requested(c)
      PROVE  Manual(row'[n]) \/ Released(n)
  BY <1>2, <1>3, <1>5, <1>7 DEF Requested, PauseTraffic, StartNode, StopNode, EditNode,
     PauseProjectTraffic, ResetProjectTraffic, SetProjectQuota
<1>8. CASE Sampler
  BY <1>1, <1>5, <1>8 DEF Sampler, SamplerList, SamplerRead, SamplerProject, SamplerBlock
<1>9. ASSUME \/ SamplerAbort \/ Tick \/ UNCHANGED vars
             \/ \E k \in Node : SamplerSkip(k) \/ SamplerUnread(k) \/ Pass(k) \/ RulesLost(k)
             \/ \E c \in Caller : CallUndo(c) \/ CallAbort(c)
             \/ \E c \in Caller, k \in Node : CallSkip(c, k)
      PROVE  row' = row
  BY <1>9 DEF SamplerAbort, Tick, vars, SamplerSkip, SamplerUnread, Pass, RulesLost, CallUndo, CallAbort, CallSkip
<1>10. QED
  BY <1>4, <1>5, <1>6, <1>7, <1>8, <1>9 DEF Next

\* Samples, new periods, quotas and whatever is done to the project leave a
\* pause by hand alone.
THEOREM PauseByHandStays == Spec => ManualPauseSticks
<1>1. TypeOK /\ [Next]_vars
        => [\A n \in Node : row[n].paused /\ ~row[n].byQuota /\ ~(row'[n].paused /\ ~row'[n].byQuota)
              => \E c \in Caller : call[c] # call'[c] /\
                   \/ At(c, "pause") /\ call[c].node = n /\ ~call[c].pause
                   \/ At(c, "idle") /\ call'[c].pc = "policy" /\ call'[c].next = "idle" /\ call'[c].node = n]_vars
  BY ManualStep DEF Manual, Released
<1>2. QED
  BY <1>1, TypeCorrect, PTL DEF ManualPauseSticks, Spec
=============================================================================
