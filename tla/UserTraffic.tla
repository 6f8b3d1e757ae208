---------------------------- MODULE UserTraffic ----------------------------
(***************************************************************************)
(* Billing of single AnyConnect accounts: SampleUser, SetUserQuota,        *)
(* ResetUser and GetUser of internal/traffic/store.go, driven by           *)
(* Manager.SampleAnyConnectTraffic of the agent.  The agent's ticker and   *)
(* every listing of the accounts in the panel (an RPC) run that function,  *)
(* each in a goroutine of its own and without a lock between them.         *)
(*                                                                         *)
(* An action is one occtl command or one database transaction.  GetUser,   *)
(* which only makes sure that the row exists, is part of the action that   *)
(* calls it.  Upload and download are one number.                          *)
(***************************************************************************)
EXTENDS Integers

CONSTANTS
    User,
    Sampler,       \* goroutines that run SampleAnyConnectTraffic
    None,          \* no row, no baseline, no session, nobody to disconnect
    DaysPerMonth,
    Quota,         \* quotas an administrator sets; 0 is unlimited
    ResetDay,      \* reset days an administrator sets; 1 to 28 in the code
    MaxBytes,      \* bound: bytes a user sends in all
    MaxDay,        \* bound on the clock
    MaxRequests,   \* bound: API requests in all
    MaxFaults      \* bound: failed calls and crashes in all

ASSUME UserTrafficAssumption ==
    /\ None \notin Int /\ None \notin User
    /\ None \notin [period: Int \X Nat, used: Nat, quota: Nat, day: Nat, paused: BOOLEAN, byQuota: BOOLEAN]
    /\ DaysPerMonth \in Nat \ {0}
    /\ Quota \subseteq Nat /\ ResetDay \subseteq 1..DaysPerMonth
    /\ MaxBytes \in Nat /\ MaxDay \in Nat /\ MaxRequests \in Nat /\ MaxFaults \in Nat

VARIABLES
    day,        \* the date
    row,        \* anyconnect_user_traffic
    baseline,   \* anyconnect_user_samples
    session,    \* the bytes occtl reports for a user's sessions
    snap,       \* counters a sampler has read and not yet stored
    ending,     \* the user a sampler is about to disconnect
    requests, faults,
    sent,       \* bytes a user has sent, ever
    billed      \* bytes samples have added to the row of a user, ever

vars == <<day, row, baseline, session, snap, ending, requests, faults, sent, billed>>

\* The first day of the billing period of date t, as month and reset day.
BillingPeriod(t, resetDay) ==
    <<IF (t % DaysPerMonth) + 1 < resetDay THEN (t \div DaysPerMonth) - 1 ELSE t \div DaysPerMonth,
      resetDay>>

Row == [period: Int \X Nat, used: Nat, quota: Nat, day: Nat, paused: BOOLEAN, byQuota: BOOLEAN]

FreshRow(quota, resetDay) ==
    [period |-> BillingPeriod(day, resetDay), used |-> 0, quota |-> quota, day |-> resetDay,
     paused |-> FALSE, byQuota |-> FALSE]

NoSnap == [u \in User |-> None]

TypeOK ==
    /\ day \in 0..MaxDay
    /\ row \in [User -> Row \cup {None}]
    /\ baseline \in [User -> Nat \cup {None}] /\ session \in [User -> Nat \cup {None}]
    /\ snap \in [Sampler -> [User -> Nat \cup {None}]]
    /\ ending \in [Sampler -> User \cup {None}]
    /\ requests \in 0..MaxRequests /\ faults \in 0..MaxFaults
    /\ sent \in [User -> 0..MaxBytes] /\ billed \in [User -> Int]

Init ==
    /\ day = 0
    /\ row = [u \in User |-> None]
    /\ baseline = [u \in User |-> None]
    /\ session = [u \in User |-> None]
    /\ snap = [s \in Sampler |-> NoSnap]
    /\ ending = [s \in Sampler |-> None]
    /\ requests = 0 /\ faults = 0
    /\ sent = [u \in User |-> 0] /\ billed = [u \in User |-> 0]

-----------------------------------------------------------------------------
(* The row of a user.                                                       *)

\* A row is made when somebody first asks for it.
GetUser(u) == IF row[u] = None THEN FreshRow(0, 1) ELSE row[u]

Over(c) == c.quota > 0 /\ c.used >= c.quota

NewPeriod(c) == c.period # BillingPeriod(day, c.day)

Roll(c) ==
    IF NewPeriod(c)
    THEN [c EXCEPT !.period = BillingPeriod(day, c.day), !.used = 0,
                   !.paused = c.paused /\ ~c.byQuota, !.byQuota = FALSE]
    ELSE c

Enforce(c) ==
    IF c.byQuota /\ ~Over(c) THEN [c EXCEPT !.paused = FALSE, !.byQuota = FALSE]
    ELSE IF Over(c) /\ ~c.paused THEN [c EXCEPT !.paused = TRUE, !.byQuota = TRUE]
    ELSE c

\* Mutant of Delta: a drop is taken back from the usage.
DeltaSigned(before, now) == IF before = None THEN 0 ELSE now - before

\* Unlike that of a node, a counter below its baseline adds nothing: of the
\* user's sessions one has ended.
Delta(before, now) ==
    IF before = None THEN 0 ELSE IF now >= before THEN now - before ELSE 0

Sampled(s, u) == Delta(IF NewPeriod(GetUser(u)) THEN None ELSE baseline[u], snap[s][u])

-----------------------------------------------------------------------------
(* SampleAnyConnectTraffic.                                                 *)

\* occtl lists the connected users with their counters.
ListUserTraffic(s) ==
    /\ snap[s] = NoSnap /\ ending[s] = None
    /\ snap' = [snap EXCEPT ![s] = session]
    /\ UNCHANGED <<day, row, baseline, session, ending, requests, faults, sent, billed>>

\* Mutant of SampleUser: disconnects only when this sample made the pause.
SampleUserOnce(s, u) ==
    /\ ending[s] = None /\ snap[s][u] # None
    /\ row' = [row EXCEPT ![u] = Enforce([Roll(GetUser(u)) EXCEPT !.used = @ + Sampled(s, u)])]
    /\ baseline' = [baseline EXCEPT ![u] = snap[s][u]]
    /\ billed' = [billed EXCEPT ![u] = @ + Sampled(s, u)]
    /\ snap' = [snap EXCEPT ![s][u] = None]
    /\ ending' = [ending EXCEPT ![s] = IF row'[u].paused /\ ~GetUser(u).paused THEN u ELSE None]
    /\ UNCHANGED <<day, session, requests, faults, sent>>

\* One user's counter is stored; a user over the quota is disconnected next.
SampleUser(s, u) ==
    /\ ending[s] = None /\ snap[s][u] # None
    /\ row' = [row EXCEPT ![u] = Enforce([Roll(GetUser(u)) EXCEPT !.used = @ + Sampled(s, u)])]
    /\ baseline' = [baseline EXCEPT ![u] = snap[s][u]]
    /\ billed' = [billed EXCEPT ![u] = @ + Sampled(s, u)]
    /\ snap' = [snap EXCEPT ![s][u] = None]
    /\ ending' = [ending EXCEPT ![s] = IF row'[u].paused /\ Over(row'[u]) THEN u ELSE None]
    /\ UNCHANGED <<day, session, requests, faults, sent>>

TerminateUser(s) ==
    /\ ending[s] # None
    /\ session' = [session EXCEPT ![ending[s]] = None]
    /\ ending' = [ending EXCEPT ![s] = None]
    /\ UNCHANGED <<day, row, baseline, snap, requests, faults, sent, billed>>

Fault == faults < MaxFaults /\ faults' = faults + 1

\* A failed transaction leaves out its user, a failed occtl command its effect.
SampleFails(s, u) ==
    /\ Fault
    /\ IF ending[s] = None
       THEN snap[s][u] # None /\ snap' = [snap EXCEPT ![s][u] = None] /\ UNCHANGED ending
       ELSE ending[s] = u /\ ending' = [ending EXCEPT ![s] = None] /\ UNCHANGED snap
    /\ UNCHANGED <<day, row, baseline, session, requests, sent, billed>>

\* The agent dies, and ocserv, its child, with it.
AgentCrash ==
    /\ Fault
    /\ session' = [u \in User |-> None]
    /\ snap' = [s \in Sampler |-> NoSnap]
    /\ ending' = [s \in Sampler |-> None]
    /\ UNCHANGED <<day, row, baseline, requests, sent, billed>>

-----------------------------------------------------------------------------
(* The API.                                                                 *)

Request ==
    /\ requests < MaxRequests /\ requests' = requests + 1
    /\ UNCHANGED <<day, session, snap, ending, faults, sent, billed>>

\* Mutant of SetUserQuota: leaves the pause to the next sample.
SetUserQuotaOnly(u, quota, resetDay) ==
    /\ Request
    /\ row' = [row EXCEPT ![u] = [GetUser(u) EXCEPT !.quota = quota, !.day = resetDay]]
    /\ UNCHANGED baseline

\* The pause is decided at once, from the usage the row has.
SetUserQuota(u, quota, resetDay) ==
    /\ Request
    /\ LET c == [GetUser(u) EXCEPT !.quota = quota, !.day = resetDay]
       IN  row' = [row EXCEPT ![u] = [c EXCEPT !.paused = Over(c), !.byQuota = Over(c)]]
    /\ UNCHANGED baseline

\* Mutant of ResetUser: a baseline of zero instead of none.
ResetUserRow(u) ==
    /\ Request
    /\ row[u] # None
    /\ row' = [row EXCEPT ![u] = FreshRow(row[u].quota, row[u].day)]
    /\ baseline' = [baseline EXCEPT ![u] = 0]

\* A user without a row is not found.
ResetUser(u) ==
    /\ Request
    /\ row[u] # None
    /\ row' = [row EXCEPT ![u] = FreshRow(row[u].quota, row[u].day)]
    /\ baseline' = [baseline EXCEPT ![u] = None]

-----------------------------------------------------------------------------
(* The users and the clock.                                                 *)

\* Nothing keeps a user over the quota from connecting again.
Connect(u) ==
    /\ session[u] = None
    /\ session' = [session EXCEPT ![u] = 0]
    /\ UNCHANGED <<day, row, baseline, snap, ending, requests, faults, sent, billed>>

\* One of the user's sessions ends, or the last one.
SessionEnds(u) ==
    /\ session[u] # None
    /\ \E rest \in 0..(session[u] - 1) \cup {None} : session' = [session EXCEPT ![u] = rest]
    /\ UNCHANGED <<day, row, baseline, snap, ending, requests, faults, sent, billed>>

Pass(u) ==
    /\ session[u] # None /\ sent[u] < MaxBytes
    /\ session' = [session EXCEPT ![u] = @ + 1]
    /\ sent' = [sent EXCEPT ![u] = @ + 1]
    /\ UNCHANGED <<day, row, baseline, snap, ending, requests, faults, billed>>

Tick ==
    /\ day < MaxDay
    /\ day' = day + 1
    /\ UNCHANGED <<row, baseline, session, snap, ending, requests, faults, sent, billed>>

Sampling(s) == ListUserTraffic(s) \/ TerminateUser(s) \/ \E u \in User : SampleUser(s, u)

Next ==
    \/ \E s \in Sampler : Sampling(s)
    \/ \E s \in Sampler, u \in User : SampleFails(s, u)
    \/ \E u \in User :
         \/ Connect(u) \/ SessionEnds(u) \/ Pass(u) \/ ResetUser(u)
         \/ \E q \in Quota, d \in ResetDay : SetUserQuota(u, q, d)
    \/ AgentCrash
    \/ Tick

Spec == Init /\ [][Next]_vars

\* The ticker runs a round every 30 s, and a round goes through its users.
FairSpec == Spec /\ \A s \in Sampler : WF_vars(Sampling(s))

-----------------------------------------------------------------------------
(* Properties.                                                              *)

\* "A counter drop indicates that ocserv replaced or removed a session; the next
\* sample establishes a new baseline without double-counting bytes"
\* (store.go:373-374): no byte is billed twice.
NeverOvercounts == \A u \in User : billed[u] <= sent[u]

\* A user is shown as paused exactly while the row is over its quota, after every
\* order of samples, new periods, resets and changes of quota or reset day.
PausedIffOver ==
    \A u \in User : row[u] # None => /\ row[u].paused <=> Over(row[u])
                                     /\ row[u].byQuota <=> row[u].paused

OverQuota(u) == row[u] # None /\ Over(row[u])

\* "Terminating the active session prevents continued use after the quota is
\* reached" (manager.go:530-531): whoever stays over the quota is disconnected,
\* also after connecting again.
OverQuotaDisconnected ==
    \A u \in User :
        OverQuota(u) /\ session[u] # None ~> session[u] = None \/ ~OverQuota(u)
=============================================================================
