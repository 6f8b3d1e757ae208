------------------------- MODULE UserTrafficProofs -------------------------
(***************************************************************************)
(* Theorems about UserTraffic, for all users, quotas and bounds: the types *)
(* and the pause of a row for any number of samplers, and that no byte is  *)
(* billed twice while there is one sampler only.                           *)
(***************************************************************************)
EXTENDS UserTraffic, TLAPS

-----------------------------------------------------------------------------
(* What the operators on a row return.                                      *)

\* A row whose pause says what its usage says.
Settled(c) == c \in Row /\ (c.paused <=> Over(c)) /\ (c.byQuota <=> c.paused)

LEMMA PeriodType ==
    ASSUME NEW t \in Nat, NEW d \in Nat
    PROVE  BillingPeriod(t, d) \in Int \X Nat
<1>1. t \div DaysPerMonth \in Int /\ t % DaysPerMonth \in Int
  BY UserTrafficAssumption
<1>2. QED
  BY <1>1 DEF BillingPeriod

LEMMA FreshSettled ==
    ASSUME day \in Nat, NEW q \in Nat, NEW d \in Nat
    PROVE  Settled(FreshRow(q, d))
<1>1. BillingPeriod(day, d) \in Int \X Nat
  BY PeriodType
<1>2. QED
  BY <1>1 DEF FreshRow, Row, Settled, Over

LEMMA RollSettled ==
    ASSUME day \in Nat, NEW c, Settled(c)
    PROVE  Settled(Roll(c))
<1>1. BillingPeriod(day, c.day) \in Int \X Nat
  BY PeriodType DEF Row, Settled
<1>2. CASE NewPeriod(c)
  <2> DEFINE e == [c EXCEPT !.period = BillingPeriod(day, c.day), !.used = 0,
                            !.paused = FALSE, !.byQuota = FALSE]
  <2>1. e \in Row /\ e.used = 0 /\ ~e.paused /\ ~e.byQuota
    BY <1>1 DEF Settled, Row
  <2>2. (c.paused /\ ~c.byQuota) = FALSE
    BY DEF Settled
  <2>3. Roll(c) = e
    BY <1>2, <2>2 DEF Roll
  <2> HIDE DEF e
  <2>4. Settled(e)
    BY <2>1 DEF Settled, Over, Row
  <2>5. QED
    BY <2>3, <2>4
<1>3. CASE ~NewPeriod(c)
  BY <1>3 DEF Roll
<1>4. QED
  BY <1>2, <1>3

\* Whatever is added to the usage, Enforce brings the pause in line with it.
LEMMA EnforceSettled ==
    ASSUME NEW c \in Row, c.byQuota <=> c.paused
    PROVE  Settled(Enforce(c))
  BY DEF Enforce, Row, Settled, Over

LEMMA DeltaType ==
    ASSUME NEW b \in Nat \cup {None}, NEW r \in Nat
    PROVE  Delta(b, r) \in Nat
  BY DEF Delta

LEMMA ChargeSettled ==
    ASSUME day \in Nat, NEW c, Settled(c), NEW k \in Nat
    PROVE  Settled(Enforce([Roll(c) EXCEPT !.used = @ + k]))
<1> DEFINE r == Roll(c)
<1>1. Settled(r)
  BY RollSettled
<1> HIDE DEF r
<1>2. /\ [r EXCEPT !.used = @ + k] \in Row
      /\ [r EXCEPT !.used = @ + k].byQuota <=> [r EXCEPT !.used = @ + k].paused
  BY <1>1 DEF Settled, Row
<1>3. QED
  BY <1>2, EnforceSettled DEF r

LEMMA QuotaSettled ==
    ASSUME NEW c \in Row, NEW q \in Nat, NEW d \in Nat
    PROVE  LET e == [c EXCEPT !.quota = q, !.day = d]
           IN  Settled([e EXCEPT !.paused = Over(e), !.byQuota = Over(e)])
  BY DEF Row, Settled, Over

-----------------------------------------------------------------------------
(* Types and the pause, by one induction: the pause of a row is right       *)
(* because that of the row before was.                                      *)

RowsInv == TypeOK /\ \A u \in User : row[u] = None \/ Settled(row[u])

LEMMA GetSettled ==
    ASSUME RowsInv, NEW u \in User
    PROVE  Settled(GetUser(u))
<1>1. day \in Nat
  BY UserTrafficAssumption DEF RowsInv, TypeOK
<1>2. QED
  BY <1>1, FreshSettled DEF GetUser, RowsInv

LEMMA SampledType ==
    ASSUME TypeOK, NEW s \in Sampler, NEW u \in User, snap[s][u] # None
    PROVE  snap[s][u] \in Nat /\ Sampled(s, u) \in Nat
<1>1. snap[s][u] \in Nat /\ baseline[u] \in Nat \cup {None}
  BY DEF TypeOK
<1>2. QED
  BY <1>1, DeltaType DEF Sampled

LEMMA RowsSample ==
    ASSUME RowsInv, NEW s \in Sampler, NEW u \in User, SampleUser(s, u)
    PROVE  RowsInv'
<1> TypeOK /\ day \in Nat
  BY UserTrafficAssumption DEF RowsInv, TypeOK
<1>1. snap[s][u] \in Nat /\ Sampled(s, u) \in Nat
  BY SampledType DEF SampleUser
<1> DEFINE new == Enforce([Roll(GetUser(u)) EXCEPT !.used = @ + Sampled(s, u)])
<1>2. Settled(new)
  BY <1>1, GetSettled, ChargeSettled
<1>3. row' = [row EXCEPT ![u] = new]
  BY DEF SampleUser
<1> HIDE DEF new
<1>4. row' \in [User -> Row \cup {None}] /\ \A v \in User : row'[v] = None \/ Settled(row'[v])
  BY <1>2, <1>3 DEF RowsInv, TypeOK, Settled
<1>5. /\ baseline' \in [User -> Nat \cup {None}] /\ billed' \in [User -> Int]
      /\ snap' \in [Sampler -> [User -> Nat \cup {None}]]
      /\ ending' \in [Sampler -> User \cup {None}]
  BY <1>1 DEF SampleUser, TypeOK
<1>6. QED
  BY <1>4, <1>5 DEF RowsInv, TypeOK, SampleUser, Settled, Over

LEMMA RowsRequest ==
    ASSUME RowsInv, NEW u \in User, ResetUser(u) \/ \E q \in Quota, d \in ResetDay : SetUserQuota(u, q, d)
    PROVE  RowsInv'
<1> TypeOK /\ day \in Nat
  BY UserTrafficAssumption DEF RowsInv, TypeOK
<1>1. ASSUME NEW new, Settled(new), row' = [row EXCEPT ![u] = new],
             baseline' \in [User -> Nat \cup {None}], Request
      PROVE  RowsInv'
  <2>1. row' \in [User -> Row \cup {None}] /\ \A v \in User : row'[v] = None \/ Settled(row'[v])
    BY <1>1 DEF RowsInv, TypeOK, Settled
  <2>2. QED
    BY <1>1, <2>1, UserTrafficAssumption DEF RowsInv, TypeOK, Request, Settled, Over
<1>2. CASE ResetUser(u)
  <2>1. row[u] \in Row
    BY <1>2 DEF ResetUser, RowsInv, Settled
  <2>2. Settled(FreshRow(row[u].quota, row[u].day))
    BY <2>1, FreshSettled DEF Row
  <2>3. QED
    BY <1>1, <1>2, <2>2 DEF ResetUser, TypeOK
<1>3. ASSUME NEW q \in Quota, NEW d \in ResetDay, SetUserQuota(u, q, d)
      PROVE  RowsInv'
  <2>1. q \in Nat /\ d \in Nat /\ GetUser(u) \in Row
    BY GetSettled, UserTrafficAssumption DEF Settled
  <2> DEFINE e == [GetUser(u) EXCEPT !.quota = q, !.day = d]
  <2>2. Settled([e EXCEPT !.paused = Over(e), !.byQuota = Over(e)])
    BY <2>1, QuotaSettled
  <2>3. QED
    BY <1>1, <1>3, <2>2 DEF SetUserQuota, TypeOK
<1>4. QED
  BY <1>2, <1>3

\* Every other step leaves the rows alone.
Elsewhere ==
    \/ \E s \in Sampler : ListUserTraffic(s) \/ TerminateUser(s)
    \/ \E s \in Sampler, u \in User : SampleFails(s, u)
    \/ \E u \in User : Connect(u) \/ SessionEnds(u) \/ Pass(u)
    \/ AgentCrash \/ Tick

LEMMA RowsElsewhere ==
    ASSUME RowsInv, Elsewhere
    PROVE  RowsInv'
<1> TypeOK
  BY DEF RowsInv
<1>1. row' = row
  BY DEF Elsewhere, ListUserTraffic, TerminateUser, SampleFails, Connect, SessionEnds, Pass, AgentCrash, Tick
<1>2. TypeOK'
  <2>1. ASSUME NEW s \in Sampler, ListUserTraffic(s) \/ TerminateUser(s)
        PROVE  TypeOK'
    BY <2>1 DEF ListUserTraffic, TerminateUser, TypeOK
  <2>2. ASSUME NEW s \in Sampler, NEW u \in User, SampleFails(s, u)
        PROVE  TypeOK'
    <3>1. faults' \in 0..MaxFaults
      BY <2>2, UserTrafficAssumption DEF SampleFails, Fault, TypeOK
    <3>2. snap' \in [Sampler -> [User -> Nat \cup {None}]]
      BY <2>2 DEF SampleFails, TypeOK
    <3>3. ending' \in [Sampler -> User \cup {None}]
      BY <2>2 DEF SampleFails, TypeOK
    <3>4. QED
      BY <2>2, <3>1, <3>2, <3>3 DEF SampleFails, TypeOK
  <2>3. ASSUME NEW u \in User, Connect(u) \/ SessionEnds(u) \/ Pass(u)
        PROVE  TypeOK'
    <3>1. session' \in [User -> Nat \cup {None}]
      BY <2>3 DEF Connect, SessionEnds, Pass, TypeOK
    <3>2. sent' \in [User -> 0..MaxBytes]
      BY <2>3, UserTrafficAssumption DEF Connect, SessionEnds, Pass, TypeOK
    <3>3. QED
      BY <2>3, <3>1, <3>2 DEF Connect, SessionEnds, Pass, TypeOK
  <2>4. ASSUME AgentCrash \/ Tick
        PROVE  TypeOK'
    BY <2>4, UserTrafficAssumption DEF AgentCrash, Tick, Fault, NoSnap, TypeOK
  <2>5. QED
    BY <2>1, <2>2, <2>3, <2>4 DEF Elsewhere
<1>3. QED
  BY <1>1, <1>2 DEF RowsInv, Settled, Over

LEMMA RowsStep ==
    ASSUME RowsInv, [Next]_vars
    PROVE  RowsInv'
<1>1. CASE UNCHANGED vars
  BY <1>1 DEF vars, RowsInv, TypeOK, Settled, Over
<1>2. QED
  BY <1>1, RowsSample, RowsRequest, RowsElsewhere DEF Next, Sampling, Elsewhere

LEMMA RowsInit == Init => RowsInv
  BY UserTrafficAssumption DEF Init, RowsInv, TypeOK, NoSnap

\* The state has its types, for every value of the constants.
THEOREM TypeCorrect == Spec => []TypeOK
<1>1. RowsInv /\ [Next]_vars => RowsInv'
  BY RowsStep
<1>2. RowsInv => TypeOK
  BY DEF RowsInv
<1>3. QED
  BY <1>1, <1>2, RowsInit, PTL DEF Spec

\* Paused means over the quota, however many samplers run at the same time.
THEOREM PauseIsQuota == Spec => []PausedIffOver
<1>1. RowsInv /\ [Next]_vars => RowsInv'
  BY RowsStep
<1>2. RowsInv => PausedIffOver
  BY DEF RowsInv, PausedIffOver, Settled
<1>3. QED
  BY <1>1, <1>2, RowsInit, PTL DEF Spec

-----------------------------------------------------------------------------
(* One sampler: what is billed and what it has read and not yet stored never *)
(* exceed what the user has sent.                                            *)

SingleSampler == \A s, t \in Sampler : s = t

\* What the next sample of counter r would add to baseline b; nothing without a session.
Pending(b, r) == IF r = None THEN 0 ELSE Delta(b, r)

Covered ==
    \A u \in User :
        /\ billed[u] + Pending(baseline[u], session[u]) <= sent[u]
        /\ \A s \in Sampler : snap[s][u] # None =>
             billed[u] + Delta(baseline[u], snap[s][u]) + Pending(snap[s][u], session[u]) <= sent[u]

BillingInv == RowsInv /\ Covered

LEMMA PendingType ==
    ASSUME NEW b \in Nat \cup {None}, NEW r \in Nat \cup {None}
    PROVE  Pending(b, r) \in Nat
  BY DeltaType, UserTrafficAssumption DEF Pending

\* A byte more is at most a byte more to bill; a counter that drops bills nothing new.
LEMMA PendingGrows ==
    ASSUME NEW b \in Nat \cup {None}, NEW r \in Nat
    PROVE  /\ Pending(b, r + 1) <= Pending(b, r) + 1
           /\ \A m \in 0..r : Pending(b, m) <= Pending(b, r)
           /\ Pending(b, 0) = 0 /\ Pending(b, None) = 0
  BY UserTrafficAssumption DEF Pending, Delta

LEMMA SampleCovers ==
    ASSUME BillingInv, SingleSampler, NEW s \in Sampler, NEW u \in User, SampleUser(s, u)
    PROVE  Covered'
<1> TypeOK /\ Covered
  BY DEF BillingInv, RowsInv
<1>1. /\ snap[s][u] \in Nat /\ Sampled(s, u) \in Nat /\ baseline[u] \in Nat \cup {None}
      /\ billed[u] \in Int /\ sent[u] \in Int
      /\ snap[s][u] # None
  BY SampledType, UserTrafficAssumption DEF SampleUser, TypeOK
<1>2. Sampled(s, u) <= Delta(baseline[u], snap[s][u])
  BY <1>1 DEF Sampled, Delta
<1>3. billed[u] + Delta(baseline[u], snap[s][u]) + Pending(snap[s][u], session[u]) <= sent[u]
  BY <1>1 DEF Covered
<1>4. Pending(snap[s][u], session[u]) \in Nat /\ Delta(baseline[u], snap[s][u]) \in Nat
  BY <1>1, PendingType, DeltaType DEF TypeOK
<1>5. billed[u] + Sampled(s, u) + Pending(snap[s][u], session[u]) <= sent[u]
  BY <1>1, <1>2, <1>3, <1>4
<1>6. /\ billed' = [billed EXCEPT ![u] = @ + Sampled(s, u)]
      /\ baseline' = [baseline EXCEPT ![u] = snap[s][u]]
      /\ snap' = [snap EXCEPT ![s][u] = None]
      /\ session' = session /\ sent' = sent
  BY DEF SampleUser
<1>7. \A t \in Sampler : snap'[t][u] = None
  BY <1>6 DEF SingleSampler, TypeOK
<1>8. \A v \in User, t \in Sampler : v # u =>
        /\ billed'[v] = billed[v] /\ baseline'[v] = baseline[v] /\ snap'[t][v] = snap[t][v]
  BY <1>6 DEF TypeOK
<1>9. billed'[u] = billed[u] + Sampled(s, u) /\ baseline'[u] = snap[s][u]
  BY <1>6 DEF TypeOK
<1>10. QED
  BY <1>5, <1>6, <1>7, <1>8, <1>9 DEF Covered

LEMMA ResetCovers ==
    ASSUME BillingInv, NEW u \in User, ResetUser(u) \/ \E q \in Quota, d \in ResetDay : SetUserQuota(u, q, d)
    PROVE  Covered'
<1> TypeOK /\ Covered
  BY DEF BillingInv, RowsInv
<1>1. UNCHANGED <<session, snap, sent, billed>>
  BY DEF ResetUser, SetUserQuota, Request
<1>2. CASE baseline' = baseline
  BY <1>1, <1>2 DEF Covered
<1>3. CASE ResetUser(u)
  <2>1. \A v \in User : baseline'[v] = IF v = u THEN None ELSE baseline[v]
    BY <1>3 DEF ResetUser, TypeOK
  <2>2. /\ billed[u] \in Int /\ sent[u] \in Int
        /\ Pending(baseline[u], session[u]) \in Nat
        /\ billed[u] + Pending(baseline[u], session[u]) <= sent[u]
    <3>1. baseline[u] \in Nat \cup {None} /\ session[u] \in Nat \cup {None}
      BY DEF TypeOK
    <3>2. billed[u] \in Int /\ sent[u] \in Int
      BY UserTrafficAssumption DEF TypeOK
    <3>3. QED
      BY <3>1, <3>2, PendingType DEF Covered
  <2>3. Pending(None, session[u]) = 0
    BY DEF Pending, Delta
  <2>4. ASSUME NEW s \in Sampler, snap[s][u] # None
        PROVE  billed[u] + Delta(None, snap[s][u]) + Pending(snap[s][u], session[u]) <= sent[u]
    <3>1. /\ Delta(baseline[u], snap[s][u]) \in Nat /\ Delta(None, snap[s][u]) = 0
          /\ Pending(snap[s][u], session[u]) \in Nat
      BY <2>4, DeltaType, PendingType DEF TypeOK, Delta
    <3>2. billed[u] + Delta(baseline[u], snap[s][u]) + Pending(snap[s][u], session[u]) <= sent[u]
      BY <2>4 DEF Covered
    <3>3. QED
      BY <2>2, <3>1, <3>2
  <2>5. QED
    BY <1>1, <2>1, <2>2, <2>3, <2>4 DEF Covered
<1>4. QED
  BY <1>2, <1>3 DEF SetUserQuota

\* A session that ends or starts again leaves no more to bill than before.
LEMMA DropCovers ==
    ASSUME BillingInv, UNCHANGED <<baseline, billed, sent>>,
           session' \in [User -> Nat \cup {None}],
           \A u \in User : \/ session'[u] = session[u] \/ session'[u] \in {0, None}
                           \/ session[u] \in Nat /\ session'[u] \in 0..session[u],
           \A s \in Sampler, u \in User : snap'[s][u] \in {snap[s][u], None}
    PROVE  Covered'
<1> TypeOK /\ Covered
  BY DEF BillingInv, RowsInv
<1>1. ASSUME NEW u \in User, NEW b \in Nat \cup {None}
      PROVE  /\ Pending(b, session'[u]) <= Pending(b, session[u])
             /\ Pending(b, session'[u]) \in Nat /\ Pending(b, session[u]) \in Nat
  <2>1. session[u] \in Nat \cup {None} /\ session'[u] \in Nat \cup {None}
    BY DEF TypeOK
  <2>2. Pending(b, session[u]) \in Nat /\ Pending(b, session'[u]) \in Nat
    BY <2>1, PendingType
  <2>3. CASE session'[u] = session[u]
    BY <2>2, <2>3
  <2>4. CASE session'[u] \in {0, None}
    <3>1. Pending(b, session'[u]) = 0
      BY <2>4, UserTrafficAssumption DEF Pending, Delta
    <3>2. QED
      BY <2>2, <3>1
  <2>5. CASE session[u] \in Nat /\ session'[u] \in 0..session[u]
    BY <2>2, <2>5, PendingGrows
  <2>6. QED
    BY <2>3, <2>4, <2>5
<1>2. ASSUME NEW u \in User
      PROVE  billed'[u] + Pending(baseline'[u], session'[u]) <= sent'[u]
  <2>1. /\ billed[u] \in Int /\ sent[u] \in Int /\ baseline[u] \in Nat \cup {None}
        /\ billed[u] + Pending(baseline[u], session[u]) <= sent[u]
    BY UserTrafficAssumption DEF Covered, TypeOK
  <2>2. QED
    BY <1>1, <2>1
<1>3. ASSUME NEW u \in User, NEW s \in Sampler, snap'[s][u] # None
      PROVE  billed'[u] + Delta(baseline'[u], snap'[s][u]) + Pending(snap'[s][u], session'[u]) <= sent'[u]
  <2>1. snap'[s][u] = snap[s][u] /\ snap[s][u] \in Nat
    BY <1>3 DEF TypeOK
  <2>2. /\ billed[u] \in Int /\ sent[u] \in Int /\ Delta(baseline[u], snap[s][u]) \in Nat
        /\ billed[u] + Delta(baseline[u], snap[s][u]) + Pending(snap[s][u], session[u]) <= sent[u]
    <3>1. billed[u] \in Int /\ sent[u] \in Int /\ baseline[u] \in Nat \cup {None}
      BY UserTrafficAssumption DEF TypeOK
    <3>2. Delta(baseline[u], snap[s][u]) \in Nat
      BY <2>1, <3>1, DeltaType
    <3>3. QED
      BY <1>3, <2>1, <3>1, <3>2 DEF Covered
  <2>3. QED
    BY <1>1, <2>1, <2>2
<1>4. QED
  BY <1>2, <1>3 DEF Covered

LEMMA PassCovers ==
    ASSUME BillingInv, NEW u \in User, Pass(u)
    PROVE  Covered'
<1> TypeOK /\ Covered
  BY DEF BillingInv, RowsInv
<1>1. /\ session[u] \in Nat /\ baseline[u] \in Nat \cup {None}
      /\ billed[u] \in Int /\ sent[u] \in Int
  BY UserTrafficAssumption DEF Pass, TypeOK
<1>2. \A v \in User : /\ session'[v] = IF v = u THEN session[u] + 1 ELSE session[v]
                     /\ sent'[v] = IF v = u THEN sent[u] + 1 ELSE sent[v]
  BY DEF Pass, TypeOK
<1>3. UNCHANGED <<baseline, billed, snap>>
  BY DEF Pass
<1>4. \A b \in Nat \cup {None} : /\ Pending(b, session[u] + 1) <= Pending(b, session[u]) + 1
                                 /\ Pending(b, session[u]) \in Nat /\ Pending(b, session[u] + 1) \in Nat
  <2>1. session[u] + 1 \in Nat \cup {None} /\ session[u] \in Nat \cup {None}
    BY <1>1
  <2>2. QED
    BY <1>1, <2>1, PendingGrows, PendingType
<1>5. billed'[u] + Pending(baseline'[u], session'[u]) <= sent'[u]
  <2>1. billed[u] + Pending(baseline[u], session[u]) <= sent[u]
    BY DEF Covered
  <2>2. billed'[u] = billed[u] /\ baseline'[u] = baseline[u]
        /\ session'[u] = session[u] + 1 /\ sent'[u] = sent[u] + 1
    BY <1>2, <1>3
  <2>3. /\ Pending(baseline[u], session[u] + 1) <= Pending(baseline[u], session[u]) + 1
        /\ Pending(baseline[u], session[u]) \in Nat /\ Pending(baseline[u], session[u] + 1) \in Nat
    BY <1>1, <1>4
  <2>4. QED
    BY <1>1, <2>1, <2>2, <2>3
<1>6. ASSUME NEW s \in Sampler, snap[s][u] # None
      PROVE  billed'[u] + Delta(baseline'[u], snap'[s][u]) + Pending(snap'[s][u], session'[u]) <= sent'[u]
  <2>1. snap[s][u] \in Nat /\ Delta(baseline[u], snap[s][u]) \in Nat
    BY <1>6, <1>1, DeltaType DEF TypeOK
  <2>2. billed[u] + Delta(baseline[u], snap[s][u]) + Pending(snap[s][u], session[u]) <= sent[u]
    BY <1>6 DEF Covered
  <2>3. QED
    BY <1>1, <1>2, <1>3, <1>4, <2>1, <2>2
<1>7. QED
  BY <1>2, <1>3, <1>5, <1>6 DEF Covered

LEMMA ListCovers ==
    ASSUME BillingInv, NEW s \in Sampler, ListUserTraffic(s)
    PROVE  Covered'
<1> TypeOK /\ Covered
  BY DEF BillingInv, RowsInv
<1>1. UNCHANGED <<baseline, session, billed, sent>>
  BY DEF ListUserTraffic
<1>2. \A t \in Sampler : snap'[t] = IF t = s THEN session ELSE snap[t]
  BY DEF ListUserTraffic, TypeOK
<1>3. \A u \in User : session[u] # None =>
        /\ session[u] \in Nat /\ Pending(session[u], session[u]) = 0
        /\ Pending(baseline[u], session[u]) = Delta(baseline[u], session[u])
        /\ Delta(baseline[u], session[u]) \in Nat /\ billed[u] \in Int
  BY DeltaType, UserTrafficAssumption DEF Pending, Delta, TypeOK
<1>4. QED
  BY <1>1, <1>2, <1>3 DEF Covered

LEMMA BillingStep ==
    ASSUME BillingInv, SingleSampler, [Next]_vars
    PROVE  BillingInv'
<1>1. RowsInv'
  BY RowsStep DEF BillingInv
<1> TypeOK /\ Covered /\ TypeOK'
  BY <1>1 DEF BillingInv, RowsInv
<1>2. ASSUME NEW s \in Sampler, Sampling(s)
      PROVE  Covered'
  <2>1. ASSUME TerminateUser(s)
        PROVE  Covered'
    BY <2>1, DropCovers DEF TerminateUser, TypeOK
  <2>2. QED
    BY <1>2, <2>1, ListCovers, SampleCovers DEF Sampling
<1>3. ASSUME NEW s \in Sampler, NEW u \in User, SampleFails(s, u)
      PROVE  Covered'
  <2>1. \A t \in Sampler, v \in User : snap'[t][v] \in {snap[t][v], None}
    BY <1>3 DEF SampleFails, TypeOK
  <2>2. QED
    BY <1>3, <2>1, DropCovers DEF SampleFails, TypeOK
<1>4. ASSUME NEW u \in User, Connect(u) \/ SessionEnds(u)
      PROVE  Covered'
  <2>1. \A v \in User : \/ session'[v] = session[v] \/ session'[v] \in {0, None}
                        \/ session[v] \in Nat /\ session'[v] \in 0..session[v]
    BY <1>4 DEF Connect, SessionEnds, TypeOK
  <2>2. UNCHANGED <<baseline, billed, sent, snap>>
    BY <1>4 DEF Connect, SessionEnds
  <2>3. session' \in [User -> Nat \cup {None}]
    BY DEF TypeOK
  <2>4. QED
    BY <2>1, <2>2, <2>3, DropCovers
<1>5. ASSUME AgentCrash
      PROVE  Covered'
  BY <1>5, DropCovers DEF AgentCrash, NoSnap, TypeOK
<1>6. ASSUME Tick \/ UNCHANGED vars
      PROVE  Covered'
  BY <1>6 DEF Tick, vars, Covered
<1>7. Covered'
  BY <1>2, <1>3, <1>4, <1>5, <1>6, PassCovers, ResetCovers DEF Next
<1>8. QED
  BY <1>1, <1>7 DEF BillingInv

LEMMA BillingInit == Init => BillingInv
  BY RowsInit DEF Init, BillingInv, Covered, Pending, NoSnap

\* With one sampler no byte is billed to a user twice, whatever sessions end, rows
\* are reset and calls fail in between.
THEOREM BilledOnce == SingleSampler /\ Spec => []NeverOvercounts
<1> SUFFICES ASSUME SingleSampler
             PROVE  Spec => []NeverOvercounts
  OBVIOUS
<1>1. BillingInv /\ [Next]_vars => BillingInv'
  BY BillingStep
<1>2. BillingInv => NeverOvercounts
  <2> SUFFICES ASSUME BillingInv, NEW u \in User
               PROVE  billed[u] <= sent[u]
    BY DEF NeverOvercounts
  <2>1. /\ billed[u] \in Int /\ sent[u] \in Int
        /\ baseline[u] \in Nat \cup {None} /\ session[u] \in Nat \cup {None}
    BY UserTrafficAssumption DEF BillingInv, RowsInv, TypeOK
  <2>2. Pending(baseline[u], session[u]) \in Nat
    BY <2>1, PendingType
  <2>3. QED
    BY <2>1, <2>2 DEF BillingInv, Covered
<1>3. QED
  BY <1>1, <1>2, BillingInit, PTL DEF Spec
=============================================================================
