---------------------------- MODULE FirewallProofs ----------------------------
(***************************************************************************)
(* Theorems about Firewall, for any nodes, ports, pools and numbers of     *)
(* rules, operations and failures: the types, that the commands of an      *)
(* operation do to the table what RuleTable does, and that a running node  *)
(* has forwarding and NAT for its own pool.                                *)
(***************************************************************************)
EXTENDS Firewall, TLAPS

-----------------------------------------------------------------------------
(* The inductive invariant.                                                 *)

\* What the commands given so far have made of the rules that were listed.
Between(o) ==
    \A t \in Tag :
        /\ t \notin op.want[o] => rules[o][t] <= op.before[t]
        /\ t \in op.want[o] /\ op.before[t] = 0 => rules[o][t] <= 1
        /\ t \in op.want[o] /\ op.before[t] # 0 => rules[o][t] \in 1 .. op.before[t]
        /\ o \in op.adds =>
            \/ rules[o][t] = op.before[t]
            \/ t \in op.want[o] /\ op.before[t] = 0 /\ rules[o][t] = 1

\* At most one owner is at work.  Only an operation that removes everything has gone
\* on after a failure.
OpSound ==
    /\ op.at \subseteq op.left
    /\ \A o \in op.at : op.at = {o} /\ Between(o)
    /\ op.vpn # {} /\ op.pool = 0 => op.want = None
    /\ op.skip # {} => op.want = None

FirewallInv == FirewallTypeOK /\ OpSound

LEMMA RuleTypes ==
    /\ NoRules \in [Tag -> Nat] /\ NoOp \in Op /\ None \in [Owner -> SUBSET Tag]
    /\ \A nets \in SUBSET Net, p \in Port : Listeners(nets, p) \in SUBSET Tag
    /\ Way \X {0} \in SUBSET Tag /\ {<<"nat", 0>>} \in SUBSET Tag
    /\ \A pool \in Pool : Way \X {pool} \in SUBSET Tag
<1>1. NoRules \in [Tag -> Nat] /\ None \in [Owner -> SUBSET Tag]
  BY DEF NoRules, None
<1>2. NoOp \in Op
  BY <1>1 DEF NoOp, Op
<1>3. \A nets \in SUBSET Net, p \in Port : Listeners(nets, p) \in SUBSET Tag
  BY DEF Listeners, Tag
<1>4. Way \X {0} \in SUBSET Tag /\ {<<"nat", 0>>} \in SUBSET Tag
  BY DEF Tag
<1>5. \A pool \in Pool : Way \X {pool} \in SUBSET Tag
  BY DEF Tag
<1>6. QED
  BY <1>1, <1>2, <1>3, <1>4, <1>5

LEMMA RulesType ==
    ASSUME NEW n \in Node, NEW kinds \in SUBSET Kind
    PROVE  Rules(n, kinds) \in SUBSET Owner
  BY DEF Rules, Owner

\* The requests an operation begins with.
Request ==
    {r \in Op : /\ r.at = {} /\ r.skip = {}
                /\ r.vpn # {} /\ r.pool = 0 => r.want = None}

LEMMA BeginRequest ==
    ASSUME FirewallInv, NEW n \in Node,
           SetBlocked(n) \/ EnsureAccounting(n) \/ EnsureVPN(n) \/ RemoveVPN(n)
    PROVE  \E r \in Request : Begin(r) /\ up' \in [Node -> Pool \cup {0}]
<1> USE RuleTypes, FirewallAssumption
<1>0. up \in [Node -> Pool \cup {0}] /\ NoOp.want = None
  BY DEF FirewallInv, FirewallTypeOK, NoOp
<1>1. \A k \in Kind : <<n, k>> \in Owner
  BY DEF Owner
<1>2. CASE SetBlocked(n)
  <2>1. PICK p \in Port, nets \in SUBSET Net, blocked \in BOOLEAN :
            /\ UNCHANGED up
            /\ Begin([NoOp EXCEPT !.left = Rules(n, {"legacy", "blocked"}),
                                  !.want[<<n, "blocked">>] = IF blocked THEN Listeners(nets, p) ELSE {}])
    BY <1>2 DEF SetBlocked
  <2> DEFINE want == [None EXCEPT ![<<n, "blocked">>] = IF blocked THEN Listeners(nets, p) ELSE {}]
             r == [NoOp EXCEPT !.left = Rules(n, {"legacy", "blocked"}),
                               !.want[<<n, "blocked">>] = IF blocked THEN Listeners(nets, p) ELSE {}]
  <2>2. want \in [Owner -> SUBSET Tag] /\ Rules(n, {"legacy", "blocked"}) \in SUBSET Owner
    BY RulesType DEF Kind
  <2>3. r = [NoOp EXCEPT !.left = Rules(n, {"legacy", "blocked"}), !.want = want]
    BY DEF NoOp
  <2>4. r \in Request
    BY <2>2, <2>3 DEF Request, NoOp, Op
  <2>5. QED
    BY <1>0, <2>1, <2>4
<1>3. CASE EnsureAccounting(n)
  <2>1. PICK p \in Port, nets \in SUBSET Net :
            /\ UNCHANGED up
            /\ Begin([NoOp EXCEPT !.left = Rules(n, {"upload", "download"}),
                                  !.want[<<n, "upload">>] = Listeners(nets, p),
                                  !.want[<<n, "download">>] = Listeners(nets, p)])
    BY <1>3 DEF EnsureAccounting
  <2> DEFINE want == [None EXCEPT ![<<n, "upload">>] = Listeners(nets, p),
                                  ![<<n, "download">>] = Listeners(nets, p)]
             r == [NoOp EXCEPT !.left = Rules(n, {"upload", "download"}),
                               !.want[<<n, "upload">>] = Listeners(nets, p),
                               !.want[<<n, "download">>] = Listeners(nets, p)]
  <2>2. want \in [Owner -> SUBSET Tag] /\ Rules(n, {"upload", "download"}) \in SUBSET Owner
    BY RulesType DEF Kind
  <2>3. r = [NoOp EXCEPT !.left = Rules(n, {"upload", "download"}), !.want = want]
    BY DEF NoOp
  <2>4. r \in Request
    BY <2>2, <2>3 DEF Request, NoOp, Op
  <2>5. QED
    BY <1>0, <2>1, <2>4
<1>4. CASE EnsureVPN(n)
  <2>1. PICK pool \in Pool :
            /\ UNCHANGED up
            /\ Begin([NoOp EXCEPT !.left = Rules(n, VPNKinds),
                                  !.vpn = {n}, !.pool = pool,
                                  !.want[<<n, "forward">>] = Way \X {0},
                                  !.want[<<n, "nat">>] = {<<"nat", 0>>},
                                  !.want[<<n, "host">>] = Way \X {pool},
                                  !.adds = {<<n, "host">>}])
    BY <1>4 DEF EnsureVPN
  <2> DEFINE want == [None EXCEPT ![<<n, "forward">>] = Way \X {0},
                                  ![<<n, "nat">>] = {<<"nat", 0>>},
                                  ![<<n, "host">>] = Way \X {pool}]
             r == [NoOp EXCEPT !.left = Rules(n, VPNKinds),
                               !.vpn = {n}, !.pool = pool,
                               !.want[<<n, "forward">>] = Way \X {0},
                               !.want[<<n, "nat">>] = {<<"nat", 0>>},
                               !.want[<<n, "host">>] = Way \X {pool},
                               !.adds = {<<n, "host">>}]
  <2>2. want \in [Owner -> SUBSET Tag]
    <3>1. [None EXCEPT ![<<n, "forward">>] = Way \X {0}] \in [Owner -> SUBSET Tag]
      OBVIOUS
    <3>2. [None EXCEPT ![<<n, "forward">>] = Way \X {0}, ![<<n, "nat">>] = {<<"nat", 0>>}]
             \in [Owner -> SUBSET Tag]
      BY <3>1
    <3>3. QED
      BY <3>2
  <2>3. Rules(n, VPNKinds) \in SUBSET Owner /\ <<n, "host">> \in Owner
    BY <1>1, RulesType DEF Kind, VPNKinds
  <2>4. r = [NoOp EXCEPT !.left = Rules(n, VPNKinds), !.vpn = {n}, !.pool = pool,
                         !.want = want, !.adds = {<<n, "host">>}]
    BY DEF NoOp
  <2> HIDE DEF want, r
  <2>5. r \in Op
    BY <2>2, <2>3, <2>4 DEF NoOp, Op
  <2>6. r.at = {} /\ r.skip = {} /\ r.pool = pool
    BY <2>4 DEF NoOp
  <2>7. r \in Request
    BY <2>5, <2>6 DEF Request
  <2>8. QED
    BY <1>0, <2>1, <2>7 DEF r
<1>5. CASE RemoveVPN(n)
  <2> DEFINE r == [NoOp EXCEPT !.left = Rules(n, VPNKinds), !.vpn = {n}]
  <2>1. Rules(n, VPNKinds) \in SUBSET Owner
    BY RulesType DEF Kind, VPNKinds
  <2>2. r \in Request
    BY <2>1 DEF Request, NoOp, Op
  <2>3. QED
    BY <1>0, <1>5, <2>2 DEF RemoveVPN
<1>6. QED
  BY <1>2, <1>3, <1>4, <1>5

-----------------------------------------------------------------------------
(* The types.                                                               *)

LEMMA FirewallInitInv == FirewallInit => FirewallInv
<1> SUFFICES ASSUME FirewallInit PROVE FirewallInv
  OBVIOUS
<1> USE RuleTypes
<1>1. PICK n \in Node, found \in {<<"none", <<"all", 0>> >>, <<"legacy", <<"all", 0>> >>} \cup
                                 ({"blocked", "upload"} \X ({"tcp"} \X Port)) :
        rules = [o \in Owner |-> [NoRules EXCEPT ![found[2]] = IF o = <<n, found[1]>> THEN 2 ELSE 0]]
  BY DEF FirewallInit
<1>2. rules \in [Owner -> [Tag -> Nat]]
  <2>1. ASSUME NEW u, NEW k \in Nat PROVE [NoRules EXCEPT ![u] = k] \in [Tag -> Nat]
    OBVIOUS
  <2>2. QED
    BY <1>1, <2>1
<1>3. FirewallTypeOK
  BY <1>2 DEF FirewallInit, FirewallTypeOK
<1>4. OpSound
  BY DEF FirewallInit, OpSound, NoOp
<1>5. QED
  BY <1>3, <1>4 DEF FirewallInv

\* The operation is over, or has not begun.
LEMMA NoOpWorking ==
    ASSUME op' = NoOp
    PROVE  OpSound'
  BY DEF OpSound, NoOp

LEMMA OpTypes ==
    ASSUME FirewallTypeOK
    PROVE  /\ op.want \in [Owner -> SUBSET Tag] /\ op.adds \in SUBSET Owner
           /\ op.left \in SUBSET Owner /\ op.vpn \in SUBSET Node /\ op.pool \in Pool \cup {0}
           /\ op.at \in SUBSET Owner /\ op.before \in [Tag -> Nat] /\ op.skip \in SUBSET Tag
           /\ op \in Op /\ \A o \in Owner : rules[o] \in [Tag -> Nat]
  BY DEF FirewallTypeOK, Op

LEMMA PutType ==
    ASSUME FirewallTypeOK, NEW o \in Owner, NEW t \in Tag, NEW count \in Nat, Put(o, t, count)
    PROVE  FirewallTypeOK'
<1>1. rules' \in [Owner -> [Tag -> Nat]]
  BY DEF FirewallTypeOK, Put
<1>2. body' \in [Node \X {"out", "in", "nat"} -> Pool \cup {0}]
  BY OpTypes DEF FirewallTypeOK, Put, Bodies
<1>3. QED
  BY <1>1, <1>2 DEF FirewallTypeOK, Put

LEMMA ListInv ==
    ASSUME FirewallInv, NEW o \in Owner, List(o)
    PROVE  FirewallInv'
<1>1. op' = [op EXCEPT !.at = {o}, !.before = rules[o]] /\ rules' = rules /\ o \in op.left
  BY DEF List
<1>2. op' \in Op
  BY <1>1, OpTypes DEF FirewallInv, Op
<1>3. /\ op'.at = {o} /\ op'.before = rules[o] /\ op'.left = op.left /\ op'.want = op.want
      /\ op'.adds = op.adds /\ op'.vpn = op.vpn /\ op'.pool = op.pool /\ op'.skip = op.skip
  BY <1>1, OpTypes DEF FirewallInv, Op
<1>4. Between(o)'
  BY <1>1, <1>3, OpTypes DEF FirewallInv, Between
<1>5. OpSound'
  BY <1>1, <1>3, <1>4 DEF FirewallInv, OpSound
<1>6. FirewallTypeOK'
  BY <1>1, <1>2 DEF List, FirewallInv, FirewallTypeOK
<1>7. QED
  BY <1>5, <1>6 DEF FirewallInv

LEMMA DeleteInv ==
    ASSUME FirewallInv, NEW o \in Owner, DeleteRule(o)
    PROVE  FirewallInv'
<1>1. PICK t \in Tag \ op.skip : Extra(o, t) /\ Put(o, t, rules[o][t] - 1)
  BY DEF DeleteRule
<1>2. /\ \A o2 \in Owner : rules[o2] \in [Tag -> Nat]
      /\ op.want[o] \in SUBSET Tag /\ op.before \in [Tag -> Nat]
  BY OpTypes DEF FirewallInv
<1>3. rules[o][t] - 1 \in Nat
  BY <1>1, <1>2 DEF Extra
<1>4. FirewallTypeOK'
  BY <1>1, <1>3, PutType DEF FirewallInv
<1>5. op.at = {o} /\ Between(o) /\ o \notin op.adds
  BY <1>1 DEF DeleteRule, Extra, FirewallInv, OpSound
<1>6. /\ rules'[o] = [rules[o] EXCEPT ![t] = rules[o][t] - 1] /\ op' = op
  BY <1>1, <1>2 DEF Put, FirewallInv, FirewallTypeOK
<1>7. Between(o)'
  <2> SUFFICES ASSUME NEW u \in Tag
               PROVE  /\ u \notin op.want[o] => rules'[o][u] <= op.before[u]
                      /\ u \in op.want[o] /\ op.before[u] = 0 => rules'[o][u] <= 1
                      /\ u \in op.want[o] /\ op.before[u] # 0 => rules'[o][u] \in 1 .. op.before[u]
    BY <1>5, <1>6 DEF Between
  <2>1. rules[o][u] \in Nat /\ op.before[u] \in Nat
    BY <1>2
  <2>2. CASE u = t
    BY <1>1, <1>2, <1>5, <1>6, <2>1, <2>2 DEF Extra, Between
  <2>3. CASE u # t
    BY <1>2, <1>5, <1>6, <2>3 DEF Between
  <2>4. QED
    BY <2>2, <2>3
<1>8. OpSound'
  BY <1>5, <1>6, <1>7 DEF FirewallInv, OpSound
<1>9. QED
  BY <1>4, <1>8 DEF FirewallInv

LEMMA AddInv ==
    ASSUME FirewallInv, NEW o \in Owner, AddRule(o)
    PROVE  FirewallInv'
<1>1. PICK t \in Tag : Missing(o, t) /\ Put(o, t, 1)
  BY DEF AddRule
<1>2. /\ \A o2 \in Owner : rules[o2] \in [Tag -> Nat]
      /\ op.want[o] \in SUBSET Tag /\ op.before \in [Tag -> Nat]
  BY OpTypes DEF FirewallInv
<1>3. FirewallTypeOK'
  BY <1>1, PutType DEF FirewallInv
<1>4. op.at = {o} /\ Between(o)
  BY DEF AddRule, FirewallInv, OpSound
<1>5. rules'[o] = [rules[o] EXCEPT ![t] = 1] /\ op' = op
  BY <1>1, <1>2 DEF Put, FirewallInv, FirewallTypeOK
<1>6. rules[o][t] = 0 /\ t \in op.want[o] /\ op.before[t] = 0
  BY <1>1, <1>2, <1>4 DEF Missing, Between
<1>7. Between(o)'
  BY <1>2, <1>4, <1>5, <1>6 DEF Between
<1>8. OpSound'
  BY <1>4, <1>5, <1>7 DEF FirewallInv, OpSound
<1>9. QED
  BY <1>3, <1>8 DEF FirewallInv

LEMMA ServedInv ==
    ASSUME FirewallInv, NEW o \in Owner, Served(o)
    PROVE  FirewallInv'
<1>1. op' = [op EXCEPT !.at = {}, !.left = @ \ {o}, !.skip = {}, !.before = NoRules]
  BY DEF Served
<1>2. op' \in Op
  BY <1>1, OpTypes, RuleTypes DEF FirewallInv, Op
<1>3. op'.at = {} /\ op'.skip = {} /\ op'.want = op.want /\ op'.vpn = op.vpn /\ op'.pool = op.pool
  BY <1>1, OpTypes DEF FirewallInv, Op
<1>4. OpSound'
  BY <1>3 DEF FirewallInv, OpSound
<1>5. FirewallTypeOK'
  BY <1>2 DEF Served, FirewallInv, FirewallTypeOK
<1>6. QED
  BY <1>4, <1>5 DEF FirewallInv

\* Where RemoveVPN goes on: a rule is skipped, or the rest of its chain.
GoesOn ==
    \/ \E t \in Tag : op' = [op EXCEPT !.skip = @ \cup {t}]
    \/ op' = [op EXCEPT !.at = {}, !.before = NoRules, !.skip = {}, !.left = @ \ op.at]

LEMMA FailCases ==
    ASSUME Fail
    PROVE  (op.vpn # {} /\ op.pool = 0 /\ op.left # {} /\ GoesOn) \/ op' = NoOp
  BY DEF Fail, GoesOn

LEMMA GoesOnInv ==
    ASSUME FirewallInv, GoesOn, op.vpn # {}, op.pool = 0, UNCHANGED rules
    PROVE  op' \in Op /\ OpSound'
<1>0. op.want = None
  BY DEF FirewallInv, OpSound
<1>1. ASSUME NEW t \in Tag, op' = [op EXCEPT !.skip = @ \cup {t}]
      PROVE  op' \in Op /\ OpSound'
  <2>1. op' \in Op
    BY <1>1, OpTypes DEF FirewallInv, Op
  <2>2. /\ op'.at = op.at /\ op'.left = op.left /\ op'.want = op.want /\ op'.adds = op.adds
        /\ op'.before = op.before
    BY <1>1, OpTypes DEF FirewallInv, Op
  <2>3. \A o \in op.at : Between(o) => Between(o)'
    BY <2>2 DEF Between
  <2>4. QED
    BY <1>0, <2>1, <2>2, <2>3 DEF FirewallInv, OpSound
<1>2. CASE op' = [op EXCEPT !.at = {}, !.before = NoRules, !.skip = {}, !.left = @ \ op.at]
  <2>1. op' \in Op
    BY <1>2, OpTypes, RuleTypes DEF FirewallInv, Op
  <2>2. op'.at = {} /\ op'.want = op.want
    BY <1>2, OpTypes DEF FirewallInv, Op
  <2>3. QED
    BY <1>0, <2>1, <2>2 DEF OpSound
<1>3. QED
  BY <1>1, <1>2 DEF GoesOn

LEMMA FailInv ==
    ASSUME FirewallInv, Fail
    PROVE  FirewallInv'
<1>1. op' \in Op /\ OpSound'
  BY FailCases, GoesOnInv, NoOpWorking, RuleTypes DEF Fail
<1>2. leaked' \subseteq Node /\ fwFaults' \in Nat
  BY OpTypes DEF Fail, Faulty, FirewallInv, FirewallTypeOK
<1>3. QED
  BY <1>1, <1>2 DEF Fail, FirewallInv, FirewallTypeOK

LEMMA OtherInv ==
    ASSUME FirewallInv, Finish \/ Die \/ Cleanup
    PROVE  FirewallInv'
<1> USE FirewallAssumption
<1>1. CASE Finish
  <2>1. up' \in [Node -> Pool \cup {0}]
    BY <1>1, OpTypes DEF Finish, FirewallInv, FirewallTypeOK
  <2>2. QED
    BY <1>1, <2>1, NoOpWorking, RuleTypes DEF Finish, FirewallInv, FirewallTypeOK
<1>2. CASE Die
  <2>1. up' \in [Node -> Pool \cup {0}] /\ leaked' \subseteq Node /\ fwFaults' \in Nat
    BY <1>2, OpTypes DEF Die, FirewallInv, FirewallTypeOK
  <2>2. QED
    BY <1>2, <2>1, NoOpWorking, RuleTypes DEF Die, FirewallInv, FirewallTypeOK
<1>3. CASE Cleanup
  <2>1. PICK gone \in {Owner, NftOwner, Owner \ NftOwner} :
            /\ fwFaults' = IF gone = Owner THEN fwFaults ELSE fwFaults + 1
            /\ leaked' = IF gone = Owner THEN leaked ELSE Node
            /\ rules' = [o \in Owner |-> IF o \in gone THEN NoRules ELSE rules[o]]
            /\ body' = IF NftOwner \subseteq gone THEN [r \in DOMAIN body |-> 0] ELSE body
    BY <1>3 DEF Cleanup
  <2>2. rules' \in [Owner -> [Tag -> Nat]]
    BY <2>1, RuleTypes DEF FirewallInv, FirewallTypeOK
  <2>3. body' \in [Node \X {"out", "in", "nat"} -> Pool \cup {0}]
    BY <2>1 DEF FirewallInv, FirewallTypeOK
  <2>4. /\ up' \in [Node -> Pool \cup {0}] /\ leaked' \subseteq Node
        /\ fwFaults' \in Nat /\ ops' \in Nat /\ op' = op
    BY <1>3, <2>1 DEF Cleanup, FirewallInv, FirewallTypeOK
  <2>5. OpSound'
    BY <1>3, <2>4, NoOpWorking DEF Cleanup
  <2>6. QED
    BY <2>2, <2>3, <2>4, <2>5 DEF FirewallInv, FirewallTypeOK
<1>4. QED
  BY <1>1, <1>2, <1>3

LEMMA BeginInv ==
    ASSUME FirewallInv, NEW r \in Request, Begin(r), up' \in [Node -> Pool \cup {0}]
    PROVE  FirewallInv'
<1>1. op' = r /\ r \in Op
  BY DEF Begin, Request
<1>2. OpSound'
  BY <1>1 DEF OpSound, Request
<1>3. FirewallTypeOK'
  BY <1>1 DEF Begin, FirewallInv, FirewallTypeOK
<1>4. QED
  BY <1>2, <1>3 DEF FirewallInv

\* An operation begins, or a command of one is given, succeeds or fails.
LEMMA StepCases ==
    ASSUME FirewallInv, FirewallNext
    PROVE  \/ \E r \in Request : Begin(r) /\ up' \in [Node -> Pool \cup {0}]
           \/ \E o \in Owner : List(o) \/ DeleteRule(o) \/ AddRule(o) \/ Served(o)
           \/ Finish \/ Fail \/ Die \/ Cleanup
<1>1. CASE CleanupUnknownAccounting
  <2>1. PICK active \in SUBSET Node :
            /\ UNCHANGED up
            /\ Begin([NoOp EXCEPT !.left = (Node \ active) \X {"upload", "download"}])
    BY <1>1 DEF CleanupUnknownAccounting
  <2>2. (Node \ active) \X {"upload", "download"} \in SUBSET Owner
    BY DEF Owner, Kind
  <2>3. [NoOp EXCEPT !.left = (Node \ active) \X {"upload", "download"}] \in Request
    BY <2>2, RuleTypes DEF Request, NoOp, Op
  <2>4. QED
    BY <2>1, <2>3 DEF FirewallInv, FirewallTypeOK
<1>2. QED
  BY <1>1, BeginRequest DEF FirewallNext

LEMMA FirewallStep ==
    ASSUME FirewallInv, [FirewallNext]_firewallVars
    PROVE  FirewallInv'
<1>1. CASE UNCHANGED firewallVars
  <2>1. UNCHANGED <<rules, op>>
    BY <1>1 DEF firewallVars
  <2>2. \A o \in op.at : Between(o) => Between(o)'
    BY <2>1 DEF Between
  <2>3. QED
    BY <1>1, <2>1, <2>2 DEF firewallVars, FirewallInv, FirewallTypeOK, OpSound
<1>2. CASE FirewallNext
  BY <1>2, StepCases, BeginInv, ListInv, DeleteInv, AddInv, ServedInv, FailInv, OtherInv
<1>3. QED
  BY <1>1, <1>2

\* Each variable has its type; an operation counts no rule below zero, whatever was
\* there when it began and wherever it fails.
THEOREM FirewallTypeCorrect == FirewallSpec => []FirewallTypeOK
<1>1. FirewallInv => FirewallTypeOK
  BY DEF FirewallInv
<1>2. QED
  BY <1>1, FirewallInitInv, FirewallStep, PTL DEF FirewallSpec

-----------------------------------------------------------------------------
(* The refinement: listing, deleting and adding rules are stutters, serving *)
(* the last of an owner's rules is what replaces them.                      *)

Seen == [o \in Owner |-> IF op.at = {o} THEN op.before ELSE rules[o]]

TableStep ==
    \/ Table!Ask \/ Table!Clear \/ Table!End
    \/ \E o \in Owner : Table!Serve(o) \/ Table!Abort(o)

Stutter == Seen' = Seen /\ op'.want = op.want /\ op'.adds = op.adds /\ op'.left = op.left

LEMMA InitMaps == FirewallInit => Table!TableInit
<1> SUFFICES ASSUME FirewallInit PROVE Table!TableInit
  OBVIOUS
<1>1. FirewallTypeOK
  BY FirewallInitInv DEF FirewallInv
<1>2. op.at = {} /\ op.want = None /\ op.adds = {} /\ op.left = {}
  BY DEF FirewallInit, NoOp
<1>3. Seen \in [Owner -> [Tag -> Nat]]
  BY <1>1, <1>2 DEF Seen, FirewallTypeOK
<1>4. QED
  BY <1>2, <1>3 DEF Table!TableInit, Table!Nothing, None, Seen

LEMMA BeginMaps ==
    ASSUME FirewallInv, NEW r \in Request, Begin(r)
    PROVE  Table!Ask
<1>1. /\ op = NoOp /\ op' = r /\ rules' = rules
      /\ op.left = {} /\ op.at = {} /\ r.at = {}
      /\ r.want \in [Owner -> SUBSET Tag] /\ r.adds \in SUBSET Owner /\ r.left \in SUBSET Owner
  BY DEF Begin, Request, NoOp, Op
<1>2. Seen' = Seen
  BY <1>1 DEF Seen
<1>3. QED
  BY <1>1, <1>2 DEF Table!Ask, Seen

LEMMA ListStutters ==
    ASSUME FirewallInv, NEW o \in Owner, List(o)
    PROVE  Stutter
<1>1. op' = [op EXCEPT !.at = {o}, !.before = rules[o]] /\ rules' = rules /\ op.at = {}
  BY DEF List
<1>2. /\ op'.at = {o} /\ op'.before = rules[o] /\ op'.left = op.left /\ op'.want = op.want
      /\ op'.adds = op.adds
  BY <1>1, OpTypes DEF FirewallInv, Op
<1>3. Seen' = Seen
  BY <1>1, <1>2 DEF Seen
<1>4. QED
  BY <1>2, <1>3 DEF Stutter

LEMMA CommandStutters ==
    ASSUME FirewallInv, NEW o \in Owner, DeleteRule(o) \/ AddRule(o)
    PROVE  Stutter
<1>1. PICK t \in Tag : Put(o, t, 1) \/ Put(o, t, rules[o][t] - 1)
  BY DEF DeleteRule, AddRule
<1>2. op' = op /\ op.at = {o} /\ \A p \in Owner \ {o} : rules'[p] = rules[p]
  BY <1>1 DEF Put, DeleteRule, AddRule, FirewallInv, FirewallTypeOK
<1>3. Seen' = Seen
  BY <1>2 DEF Seen
<1>4. QED
  BY <1>2, <1>3 DEF Stutter

\* What a failed command leaves of the owner at work, and what the others keep.
LEMMA PartlyDone ==
    ASSUME FirewallInv, NEW o \in Owner, op.at = {o}, UNCHANGED rules, op'.at = {}
    PROVE  /\ Seen' = [Seen EXCEPT ![o] = Seen'[o]]
           /\ Seen'[o] = rules[o] /\ Seen[o] = op.before
           /\ Table!Partly(o, rules[o])
<1>1. Between(o) /\ rules[o] \in [Tag -> Nat] /\ op.before \in [Tag -> Nat]
  BY OpTypes DEF FirewallInv, OpSound
<1>2. Seen'[o] = rules[o] /\ Seen[o] = op.before
  BY DEF Seen
<1>3. Seen' = [Seen EXCEPT ![o] = Seen'[o]]
  BY DEF Seen
<1>4. Table!Partly(o, rules[o])
  BY <1>1, <1>2 DEF Table!Partly, Between, Seen
<1>5. QED
  BY <1>2, <1>3, <1>4

LEMMA OverMaps ==
    ASSUME FirewallInv, UNCHANGED rules, op' = NoOp
    PROVE  Table!End \/ \E o \in Owner : Table!Abort(o)
<1>1. /\ op'.want = None /\ op'.adds = {} /\ op'.left = {} /\ op'.at = {}
      /\ op.at \in SUBSET Owner
  BY OpTypes DEF NoOp, FirewallInv
<1>2. Table!Over
  BY <1>1 DEF Table!Over, Table!Nothing, None
<1>3. CASE op.at = {}
  <2>1. Seen' = Seen
    BY <1>1, <1>3 DEF Seen
  <2>2. QED
    BY <1>2, <2>1 DEF Table!End, Seen
<1>4. ASSUME NEW o \in op.at PROVE Table!Abort(o)
  <2>1. op.at = {o} /\ o \in Owner /\ o \in op.left
    BY <1>1 DEF FirewallInv, OpSound
  <2>2. QED
    BY <1>1, <1>2, <2>1, PartlyDone DEF Table!Abort, Seen
<1>5. QED
  BY <1>1, <1>3, <1>4

LEMMA ServedMaps ==
    ASSUME FirewallInv, NEW o \in Owner, Served(o)
    PROVE  Table!Serve(o) \/ Table!Abort(o)
<1>1. op' = [op EXCEPT !.at = {}, !.left = @ \ {o}, !.skip = {}, !.before = NoRules]
  BY DEF Served
<1>2. /\ op'.at = {} /\ op'.want = op.want /\ op'.adds = op.adds /\ op'.left = op.left \ {o}
  BY <1>1, OpTypes DEF FirewallInv, Op
<1>3. /\ op.at = {o} /\ UNCHANGED rules /\ o \in op.left /\ Between(o)
      /\ \A t \in Tag : ~Missing(o, t) /\ (Extra(o, t) => t \in op.skip)
  BY DEF Served, FirewallInv, OpSound
<1>4. CASE op.skip = {}
  <2>1. /\ rules[o] \in [Tag -> Nat] /\ op.before \in [Tag -> Nat]
        /\ \A t \in Tag : ~Missing(o, t) /\ ~Extra(o, t)
    BY <1>3, <1>4, OpTypes DEF FirewallInv
  <2>2. ASSUME NEW t \in Tag
        PROVE  rules[o][t] = IF o \in op.adds /\ (t \notin op.want[o] \/ op.before[t] > 0) THEN op.before[t]
                             ELSE IF t \in op.want[o] THEN 1 ELSE 0
    BY <1>3, <2>1 DEF Missing, Extra, Between
  <2>3. rules[o] = [t \in Tag |->
            IF o \in op.adds /\ (t \notin op.want[o] \/ op.before[t] > 0) THEN op.before[t]
            ELSE IF t \in op.want[o] THEN 1 ELSE 0]
    BY <2>1, <2>2
  <2>4. Seen' = [Seen EXCEPT ![o] = rules[o]] /\ Seen[o] = op.before
    BY <1>2, <1>3 DEF Seen
  <2>5. Table!Serve(o)
    BY <1>2, <1>3, <2>3, <2>4 DEF Table!Serve, Table!Replaced, Seen
  <2>6. QED
    BY <2>5
<1>5. CASE op.skip # {}
  <2>1. op.want = None
    BY <1>5 DEF FirewallInv, OpSound
  <2>2. Table!Abort(o)
    BY <1>2, <1>3, <2>1, PartlyDone DEF Table!Abort, Table!Nothing, None, Seen
  <2>3. QED
    BY <2>2
<1>6. QED
  BY <1>4, <1>5

LEMMA FailMaps ==
    ASSUME FirewallInv, Fail
    PROVE  Stutter \/ TableStep
<1>1. UNCHANGED rules
  BY DEF Fail
<1>2. CASE op' = NoOp
  BY <1>1, <1>2, OverMaps DEF TableStep
<1>3. ASSUME op.vpn # {}, op.pool = 0, GoesOn
      PROVE  Stutter \/ TableStep
  <2>0. op.want = None
    BY <1>3 DEF FirewallInv, OpSound
  <2>1. ASSUME NEW t \in Tag, op' = [op EXCEPT !.skip = @ \cup {t}]
        PROVE  Stutter
    <3>1. /\ op'.at = op.at /\ op'.left = op.left /\ op'.want = op.want /\ op'.adds = op.adds
          /\ op'.before = op.before
      BY <2>1, OpTypes DEF FirewallInv, Op
    <3>2. QED
      BY <1>1, <3>1 DEF Stutter, Seen
  <2>2. CASE op' = [op EXCEPT !.at = {}, !.before = NoRules, !.skip = {}, !.left = @ \ op.at]
    <3>1. /\ op'.at = {} /\ op'.left = op.left \ op.at /\ op'.want = op.want /\ op'.adds = op.adds
          /\ op.at \in SUBSET Owner
      BY <2>2, OpTypes DEF FirewallInv, Op
    <3>2. CASE op.at = {}
      BY <1>1, <3>1, <3>2 DEF Stutter, Seen
    <3>3. ASSUME NEW o \in op.at PROVE Table!Abort(o)
      <4>1. op.at = {o} /\ o \in Owner /\ o \in op.left
        BY <3>1 DEF FirewallInv, OpSound
      <4>2. QED
        BY <1>1, <2>0, <3>1, <4>1, PartlyDone DEF Table!Abort, Table!Nothing, None, Seen
    <3>4. QED
      BY <3>1, <3>2, <3>3 DEF TableStep
  <2>3. QED
    BY <1>3, <2>1, <2>2 DEF GoesOn
<1>4. QED
  BY <1>2, <1>3, FailCases

LEMMA OtherMaps ==
    ASSUME FirewallInv, Finish \/ Die \/ Cleanup
    PROVE  TableStep
<1>1. CASE Finish \/ Die
  BY <1>1, OverMaps DEF Finish, Die, TableStep
<1>2. CASE Cleanup
  <2>1. PICK gone \in {Owner, NftOwner, Owner \ NftOwner} :
            rules' = [o \in Owner |-> IF o \in gone THEN NoRules ELSE rules[o]]
    BY <1>2 DEF Cleanup
  <2>2. op' = op /\ op.at = {} /\ op.left = {}
    BY <1>2 DEF Cleanup, NoOp
  <2>3. \A o \in Owner : Seen'[o] \in {Seen[o], [t \in Tag |-> 0]}
    BY <2>1, <2>2 DEF Seen, NoRules
  <2>4. Seen' = [o \in Owner |-> Seen'[o]]
    BY DEF Seen
  <2>5. Table!Clear
    BY <2>2, <2>3, <2>4 DEF Table!Clear, Seen
  <2>6. QED
    BY <2>5 DEF TableStep
<1>3. QED
  BY <1>1, <1>2

LEMMA StepMaps ==
    ASSUME FirewallInv, [FirewallNext]_firewallVars
    PROVE  Stutter \/ TableStep
<1>1. CASE UNCHANGED firewallVars
  BY <1>1 DEF firewallVars, Stutter, Seen
<1>2. ASSUME NEW o \in Owner, List(o) \/ DeleteRule(o) \/ AddRule(o) \/ Served(o)
      PROVE  Stutter \/ TableStep
  BY <1>2, ListStutters, CommandStutters, ServedMaps DEF TableStep
<1>3. CASE \E r \in Request : Begin(r)
  BY <1>3, BeginMaps DEF TableStep
<1>4. CASE FirewallNext
  BY <1>2, <1>3, <1>4, StepCases, FailMaps, OtherMaps
<1>5. QED
  BY <1>1, <1>4

\* The commands of an operation, any of which may fail and at any of which the agent may
\* die, do to each owner's rules what RuleTable does in one step, or what it allows a
\* failed operation, and nothing to the rules of others.
THEOREM FirewallImplementsTable == FirewallSpec => ImplementsTable
<1>1. FirewallInit => Table!TableInit
  BY InitMaps
<1>2. FirewallInv /\ [FirewallNext]_firewallVars
        => [Table!TableNext]_<<[o \in Owner |-> IF op.at = {o} THEN op.before ELSE rules[o]],
                               op.want, op.adds, op.left>>
  BY StepMaps DEF Stutter, Seen, TableStep, Table!TableNext
<1>3. QED
  BY <1>1, <1>2, FirewallInitInv, FirewallStep, PTL
  DEF FirewallSpec, ImplementsTable, Table!TableSpec

-----------------------------------------------------------------------------
(* VPN: the rules of a node that no failure has touched follow its pool.     *)

NftKinds == {"forward", "nat"}

\* An operation on the VPN rules of one node is about nothing else; any other operation
\* leaves those rules alone.
Purpose ==
    /\ op.vpn = {} => op.left \cap (Node \X VPNKinds) = {}
    /\ \A n \in op.vpn :
        /\ op.vpn = {n} /\ up[n] = 0 /\ op.left \subseteq {n} \X VPNKinds
        /\ op.pool = 0 => op.adds = {}
        /\ op.pool # 0 =>
            /\ op.adds = {<<n, "host">>}
            /\ op.want[<<n, "forward">>] = Way \X {0}
            /\ op.want[<<n, "nat">>] = {<<"nat", 0>>}
            /\ op.want[<<n, "host">>] = Way \X {op.pool}

\* No forwarding and NAT is left of earlier runs.
Bare(n) == \A k \in NftKinds : rules[<<n, k>>] = NoRules

Serving(n) ==
    /\ \A r \in {"out", "in", "nat"} : body[<<n, r>>] = up[n]
    /\ \A w \in Way : rules[<<n, "host">>][<<w, up[n]>>] = 1

\* The owners that RemoveVPN has done have no rules.
Removing(n) ==
    op.skip = {} /\ \A k \in NftKinds : <<n, k>> \notin op.left => rules[<<n, k>>] = NoRules

\* What EnsureVPN has added is for its pool, and the owners it has done have all of it.
Adding(n) ==
    /\ \A k \in NftKinds, t \in Tag : rules[<<n, k>>][t] # 0 =>
          rules[<<n, k>>][t] = 1 /\ t \in op.want[<<n, k>>] /\ body[<<n, t[1]>>] = op.pool
    /\ \A k \in VPNKinds : <<n, k>> \notin op.left =>
          \A t \in op.want[<<n, k>>] : rules[<<n, k>>][t] = 1

Ready(n) ==
    /\ n \notin op.vpn => (up[n] = 0 /\ Bare(n)) \/ (up[n] # 0 /\ Serving(n))
    /\ n \in op.vpn /\ op.pool = 0 => Removing(n)
    /\ n \in op.vpn /\ op.pool # 0 => Adding(n)

\* VPNServes made inductive.
VPNInv ==
    /\ FirewallInv /\ Purpose
    /\ \A n \in Node, t \in Tag : rules[<<n, "host">>][t] <= 1
    /\ \A n \in Node \ leaked : Ready(n)

\* The owners of a node are owners.
LEMMA VPNTypes ==
    ASSUME FirewallTypeOK
    PROVE  /\ \A n \in Node, k \in VPNKinds : <<n, k>> \in Owner
           /\ \A n \in Node, k \in Kind : <<n, k>> \in Owner /\ rules[<<n, k>>] \in [Tag -> Nat]
           /\ VPNKinds = {"forward", "nat", "host"} /\ VPNKinds \subseteq Kind
           /\ up \in [Node -> Pool \cup {0}] /\ 0 \notin Pool
  BY FirewallAssumption DEF Owner, Kind, VPNKinds, FirewallTypeOK

\* No node has VPN rules.
LEMMA InitVPN == FirewallInit => VPNInv
<1> SUFFICES ASSUME FirewallInit PROVE VPNInv
  OBVIOUS
<1>1. FirewallInv
  BY FirewallInitInv
<1>2. PICK n \in Node, found \in {<<"none", <<"all", 0>> >>, <<"legacy", <<"all", 0>> >>} \cup
                                 ({"blocked", "upload"} \X ({"tcp"} \X Port)) :
        rules = [o \in Owner |-> [NoRules EXCEPT ![found[2]] = IF o = <<n, found[1]>> THEN 2 ELSE 0]]
  BY DEF FirewallInit
<1>3. found[1] \notin VPNKinds
  BY DEF VPNKinds
<1>4. ASSUME NEW m \in Node, NEW k \in VPNKinds PROVE rules[<<m, k>>] = NoRules
  <2>1. <<m, k>> \in Owner /\ <<m, k>> # <<n, found[1]>>
    BY <1>1, <1>3, VPNTypes DEF FirewallInv
  <2>2. rules[<<m, k>>] = [NoRules EXCEPT ![found[2]] = 0]
    BY <1>2, <2>1
  <2>3. QED
    BY <2>2 DEF NoRules
<1>5. Purpose
  BY DEF FirewallInit, Purpose, NoOp
<1>6. \A m \in Node, t \in Tag : rules[<<m, "host">>][t] <= 1
  <2>1. ASSUME NEW m \in Node, NEW t \in Tag PROVE rules[<<m, "host">>][t] <= 1
    <3>1. rules[<<m, "host">>] = NoRules /\ NoRules[t] = 0
      BY <1>4 DEF VPNKinds, NoRules
    <3>2. QED
      BY <3>1
  <2>2. QED
    BY <2>1
<1>7. \A m \in Node : Ready(m)
  BY <1>4 DEF FirewallInit, NoOp, Ready, Bare, NftKinds, VPNKinds
<1>8. QED
  BY <1>1, <1>5, <1>6, <1>7 DEF VPNInv

\* A node whose VPN rules the step leaves alone.
LEMMA AsideReady ==
    ASSUME NEW n \in Node, Ready(n), n \notin op.vpn, n \notin op'.vpn, up'[n] = up[n],
           \A k \in VPNKinds : rules'[<<n, k>>] = rules[<<n, k>>],
           \A r \in {"out", "in", "nat"} : body'[<<n, r>>] = body[<<n, r>>]
    PROVE  Ready(n)'
  BY DEF Ready, Bare, Serving, NftKinds, VPNKinds

\* What one command changes: the count of one rule, and the body that goes with it.
Altered(o, t, count) ==
    /\ \A x \in Owner : x # o => rules'[x] = rules[x]
    /\ \A u \in Tag : rules'[o][u] = IF u = t THEN count ELSE rules[o][u]
    /\ \A n \in Node, r \in {"out", "in", "nat"} :
          \/ body'[<<n, r>>] = body[<<n, r>>]
          \/ n = o[1] /\ o[2] \in NftKinds /\ body'[<<n, r>>] \in {0, op.pool}
    /\ UNCHANGED <<op, up, leaked>>

\* A command does no more.
LEMMA PutFrame ==
    ASSUME FirewallTypeOK, NEW o \in Owner, NEW t \in Tag, NEW count \in Nat, Put(o, t, count)
    PROVE  Altered(o, t, count)
<1>1. /\ rules \in [Owner -> [Tag -> Nat]] /\ rules' = [rules EXCEPT ![o][t] = count]
      /\ UNCHANGED <<op, up, leaked>> /\ Bodies(o, t, count)
      /\ body \in [Node \X {"out", "in", "nat"} -> Pool \cup {0}]
  BY DEF Put, FirewallTypeOK
<1>2. \/ body' = body
      \/ o[2] \in NftKinds /\ \E v \in {0, op.pool} : body' = [body EXCEPT ![<<o[1], t[1]>>] = v]
  BY <1>1 DEF Bodies, NftKinds
<1>3. \A n \in Node, r \in {"out", "in", "nat"} :
                \/ body'[<<n, r>>] = body[<<n, r>>]
                \/ n = o[1] /\ o[2] \in NftKinds /\ body'[<<n, r>>] \in {0, op.pool}
  BY <1>1, <1>2
<1>4. QED
  BY <1>1, <1>3 DEF Altered

\* An owner at work is none of the VPN owners of a node the operation is not about.
LEMMA OwnerAside ==
    ASSUME Purpose, NEW n \in Node \ op.vpn, NEW m \in Node, NEW kind \in Kind, <<m, kind>> \in op.left
    PROVE  m # n \/ kind \notin VPNKinds
<1>1. CASE op.vpn = {}
  BY <1>1 DEF Purpose
<1>2. ASSUME NEW v \in op.vpn PROVE m # n
  <2>1. <<m, kind>> \in {v} \X VPNKinds
    BY <1>2 DEF Purpose
  <2>2. QED
    BY <1>2, <2>1
<1>3. QED
  BY <1>1, <1>2

\* EnsureVPN's own rules of nftables name one of the three bodies.
LEMMA WantWays ==
    ASSUME Purpose, NEW n \in op.vpn, op.pool # 0, NEW k \in NftKinds, NEW u \in op.want[<<n, k>>]
    PROVE  u[1] \in {"out", "in", "nat"}
<1>1. CASE k = "forward"
  <2>1. u \in {"out", "in"} \X {0}
    BY <1>1 DEF Purpose, Way
  <2>2. QED
    BY <2>1
<1>2. CASE k = "nat"
  <2>1. u = <<"nat", 0>>
    <3>1. op.want[<<n, "nat">>] = {<<"nat", 0>>}
      BY DEF Purpose
    <3>2. u \in op.want[<<n, "nat">>]
      BY <1>2
    <3>3. QED
      BY <3>1, <3>2
  <2>2. QED
    BY <2>1
<1>3. QED
  BY <1>1, <1>2 DEF NftKinds

\* A rule is deleted.
LEMMA DeleteVPN ==
    ASSUME VPNInv, NEW o \in Owner, DeleteRule(o)
    PROVE  VPNInv'
<1>0. FirewallInv /\ FirewallTypeOK /\ Purpose /\ FirewallInv'
  BY DeleteInv DEF VPNInv, FirewallInv
<1>1. PICK t \in Tag \ op.skip : Extra(o, t) /\ Put(o, t, rules[o][t] - 1)
  BY DEF DeleteRule
<1>2. /\ rules[o] \in [Tag -> Nat] /\ rules[o][t] - 1 \in Nat /\ o \in op.left /\ o \notin op.adds
      /\ t \in op.want[o] => rules[o][t] > 1
  BY <1>0, <1>1, OpTypes DEF Extra, DeleteRule, FirewallInv, OpSound
<1>3. /\ \A x \in Owner : x # o => rules'[x] = rules[x]
      /\ \A u \in Tag : rules'[o][u] = IF u = t THEN rules[o][t] - 1 ELSE rules[o][u]
      /\ \A n \in Node, r \in {"out", "in", "nat"} :
            \/ body'[<<n, r>>] = body[<<n, r>>]
            \/ n = o[1] /\ o[2] \in NftKinds /\ body'[<<n, r>>] \in {0, op.pool}
      /\ UNCHANGED <<op, up, leaked>>
  <2>1. Altered(o, t, rules[o][t] - 1)
    BY <1>0, <1>1, <1>2, PutFrame
  <2>2. QED
    BY <2>1 DEF Altered
<1>4. Purpose'
  BY <1>0, <1>3 DEF Purpose
<1>5. ASSUME NEW n \in Node, NEW u \in Tag PROVE rules'[<<n, "host">>][u] <= 1
  <2>1. <<n, "host">> \in Owner /\ rules[<<n, "host">>] \in [Tag -> Nat] /\ rules[<<n, "host">>][u] <= 1
    BY <1>0, VPNTypes DEF VPNInv, Kind
  <2>2. CASE o = <<n, "host">>
    BY <1>2, <1>3, <2>1, <2>2
  <2>3. CASE o # <<n, "host">>
    BY <1>3, <2>1, <2>3
  <2>4. QED
    BY <2>2, <2>3
<1>6. ASSUME NEW n \in Node \ leaked PROVE Ready(n)'
  <2>1. Ready(n) /\ \A k \in VPNKinds : <<n, k>> \in Owner
    BY <1>0, <1>6, VPNTypes DEF VPNInv
  <2>2. CASE n \notin op.vpn
    <3>1. PICK m \in Node, kind \in Kind : o = <<m, kind>>
      BY DEF Owner
    <3>2. m # n \/ kind \notin VPNKinds
      BY <1>0, <1>2, <2>2, <3>1, OwnerAside
    <3>3. \A k \in VPNKinds : rules'[<<n, k>>] = rules[<<n, k>>]
      BY <1>3, <2>1, <3>1, <3>2
    <3>4. \A r \in {"out", "in", "nat"} : body'[<<n, r>>] = body[<<n, r>>]
      BY <1>3, <3>1, <3>2 DEF NftKinds, VPNKinds
    <3>5. QED
      BY <1>3, <2>1, <2>2, <3>3, <3>4, AsideReady
  <2>3. CASE n \in op.vpn /\ op.pool = 0
    <3>1. ASSUME NEW k \in NftKinds, <<n, k>> \notin op.left PROVE rules'[<<n, k>>] = NoRules
      <4>1. o # <<n, k>> /\ <<n, k>> \in Owner
        BY <1>2, <2>1, <3>1 DEF NftKinds, VPNKinds
      <4>2. rules[<<n, k>>] = NoRules
        BY <2>1, <2>3, <3>1 DEF Ready, Removing
      <4>3. QED
        BY <1>3, <4>1, <4>2
    <3>2. QED
      BY <1>3, <2>1, <2>3, <3>1 DEF Ready, Removing
  <2>4. CASE n \in op.vpn /\ op.pool # 0
    <3>0. op.left \subseteq {n} \X VPNKinds /\ op.adds = {<<n, "host">>}
      BY <1>0, <2>4 DEF Purpose
    <3>1. o \in {n} \X VPNKinds /\ o # <<n, "host">>
      BY <1>2, <3>0
    <3>2. PICK k \in NftKinds : o = <<n, k>>
      BY <3>1 DEF NftKinds, VPNKinds
    <3>3. rules[o][t] # 0
      BY <1>2
    <3>4. rules[<<n, k>>][t] = 1 /\ t \in op.want[<<n, k>>]
      BY <2>1, <2>4, <3>2, <3>3 DEF Ready, Adding
    <3>5. QED
      BY <1>2, <3>2, <3>4
  <2>5. QED
    BY <2>2, <2>3, <2>4
<1>7. QED
  BY <1>0, <1>3, <1>4, <1>5, <1>6 DEF VPNInv

\* A rule is added.
LEMMA AddVPN ==
    ASSUME VPNInv, NEW o \in Owner, AddRule(o)
    PROVE  VPNInv'
<1>0. FirewallInv /\ FirewallTypeOK /\ Purpose /\ FirewallInv'
  BY AddInv DEF VPNInv, FirewallInv
<1>1. PICK t \in Tag : Missing(o, t) /\ Put(o, t, 1)
  BY DEF AddRule
<1>2. rules[o] \in [Tag -> Nat] /\ o \in op.left /\ t \in op.want[o]
  BY <1>0, <1>1, OpTypes DEF Missing, AddRule, FirewallInv, OpSound
<1>3. /\ \A x \in Owner : x # o => rules'[x] = rules[x]
      /\ \A u \in Tag : rules'[o][u] = IF u = t THEN 1 ELSE rules[o][u]
      /\ \A n \in Node, r \in {"out", "in", "nat"} :
            \/ body'[<<n, r>>] = body[<<n, r>>]
            \/ n = o[1] /\ o[2] \in NftKinds /\ body'[<<n, r>>] \in {0, op.pool}
      /\ UNCHANGED <<op, up, leaked>>
  <2>1. Altered(o, t, 1)
    BY <1>0, <1>1, <1>2, PutFrame
  <2>2. QED
    BY <2>1 DEF Altered
<1>4. Purpose'
  BY <1>0, <1>3 DEF Purpose
<1>5. ASSUME NEW n \in Node, NEW u \in Tag PROVE rules'[<<n, "host">>][u] <= 1
  <2>1. <<n, "host">> \in Owner /\ rules[<<n, "host">>] \in [Tag -> Nat] /\ rules[<<n, "host">>][u] <= 1
    BY <1>0, VPNTypes DEF VPNInv, Kind
  <2>2. CASE o = <<n, "host">>
    BY <1>2, <1>3, <2>1, <2>2
  <2>3. CASE o # <<n, "host">>
    BY <1>3, <2>1, <2>3
  <2>4. QED
    BY <2>2, <2>3
<1>6. ASSUME NEW n \in Node \ leaked PROVE Ready(n)'
  <2>1. Ready(n) /\ \A k \in VPNKinds : <<n, k>> \in Owner
    BY <1>0, <1>6, VPNTypes DEF VPNInv
  <2>2. CASE n \notin op.vpn
    <3>1. PICK m \in Node, kind \in Kind : o = <<m, kind>>
      BY DEF Owner
    <3>2. m # n \/ kind \notin VPNKinds
      BY <1>0, <1>2, <2>2, <3>1, OwnerAside
    <3>3. \A k \in VPNKinds : rules'[<<n, k>>] = rules[<<n, k>>]
      BY <1>3, <2>1, <3>1, <3>2
    <3>4. \A r \in {"out", "in", "nat"} : body'[<<n, r>>] = body[<<n, r>>]
      BY <1>3, <3>1, <3>2 DEF NftKinds, VPNKinds
    <3>5. QED
      BY <1>3, <2>1, <2>2, <3>3, <3>4, AsideReady
  <2>3. CASE n \in op.vpn /\ op.pool = 0
    <3>1. ASSUME NEW k \in NftKinds, <<n, k>> \notin op.left PROVE rules'[<<n, k>>] = NoRules
      <4>1. o # <<n, k>> /\ <<n, k>> \in Owner
        BY <1>2, <2>1, <3>1 DEF NftKinds, VPNKinds
      <4>2. rules[<<n, k>>] = NoRules
        BY <2>1, <2>3, <3>1 DEF Ready, Removing
      <4>3. QED
        BY <1>3, <4>1, <4>2
    <3>2. QED
      BY <1>3, <2>1, <2>3, <3>1 DEF Ready, Removing
  <2>4. CASE n \in op.vpn /\ op.pool # 0
    <3>0. Adding(n) /\ o \in {n} \X VPNKinds
      BY <1>0, <1>2, <2>1, <2>4 DEF Purpose, Ready
    <3>1. ASSUME NEW k \in NftKinds, NEW u \in Tag, rules'[<<n, k>>][u] # 0
          PROVE  rules'[<<n, k>>][u] = 1 /\ u \in op.want[<<n, k>>] /\ body'[<<n, u[1]>>] = op.pool
      <4>1. CASE o # <<n, k>> \/ u # t
        <5>1. rules'[<<n, k>>][u] = rules[<<n, k>>][u]
          BY <1>3, <2>1, <4>1 DEF NftKinds, VPNKinds
        <5>2. /\ rules[<<n, k>>][u] = 1 /\ u \in op.want[<<n, k>>]
              /\ body[<<n, u[1]>>] = op.pool
          BY <3>0, <3>1, <5>1 DEF Adding
        <5>3. u[1] \in {"out", "in", "nat"}
          BY <1>0, <2>4, <5>2, WantWays
        <5>4. body'[<<n, u[1]>>] = op.pool
          BY <1>1, <1>2, <5>2, <5>3, <1>0 DEF Put, Bodies, FirewallTypeOK
        <5>5. QED
          BY <5>1, <5>2, <5>4
      <4>2. CASE o = <<n, k>> /\ u = t
        <5>1. u[1] \in {"out", "in", "nat"}
          BY <1>0, <1>2, <2>4, <4>2, WantWays
        <5>2. body' = [body EXCEPT ![<<n, u[1]>>] = op.pool]
          BY <1>1, <4>2 DEF Put, Bodies, NftKinds
        <5>3. body'[<<n, u[1]>>] = op.pool
          BY <1>0, <5>1, <5>2 DEF FirewallTypeOK
        <5>4. QED
          BY <1>2, <1>3, <4>2, <5>3
      <4>3. QED
        BY <4>1, <4>2
    <3>2. ASSUME NEW k \in VPNKinds, <<n, k>> \notin op.left, NEW u \in op.want[<<n, k>>]
          PROVE  rules'[<<n, k>>][u] = 1
      BY <1>2, <1>3, <2>1, <3>0, <3>2 DEF Adding
    <3>3. Adding(n)'
      BY <1>3, <3>1, <3>2 DEF Adding
    <3>4. QED
      BY <1>3, <2>4, <3>3 DEF Ready
  <2>5. QED
    BY <2>2, <2>3, <2>4
<1>7. QED
  BY <1>0, <1>3, <1>4, <1>5, <1>6 DEF VPNInv

\* The rules of the next owner are listed.
LEMMA ListVPN ==
    ASSUME VPNInv, NEW o \in Owner, List(o)
    PROVE  VPNInv'
<1>0. FirewallInv /\ Purpose /\ FirewallInv'
  BY ListInv DEF VPNInv
<1>1. op' = [op EXCEPT !.at = {o}, !.before = rules[o]] /\ UNCHANGED <<rules, body, up, leaked>>
  BY DEF List
<1>2. /\ op'.left = op.left /\ op'.want = op.want /\ op'.adds = op.adds /\ op'.vpn = op.vpn
      /\ op'.pool = op.pool /\ op'.skip = op.skip
  BY <1>0, <1>1, OpTypes DEF FirewallInv, Op
<1>3. Purpose'
  BY <1>0, <1>1, <1>2 DEF Purpose
<1>4. ASSUME NEW n \in Node \ leaked PROVE Ready(n)'
  <2>1. Ready(n)
    BY <1>4 DEF VPNInv
  <2>2. QED
    BY <1>1, <1>2, <2>1 DEF Ready, Bare, Serving, Removing, Adding
<1>5. QED
  BY <1>0, <1>1, <1>3, <1>4 DEF VPNInv

\* An owner has been done.
LEMMA ServedVPN ==
    ASSUME VPNInv, NEW o \in Owner, Served(o)
    PROVE  VPNInv'
<1>0. FirewallInv /\ FirewallTypeOK /\ Purpose /\ FirewallInv'
  BY ServedInv DEF VPNInv, FirewallInv
<1>1. /\ op' = [op EXCEPT !.at = {}, !.left = @ \ {o}, !.skip = {}, !.before = NoRules]
      /\ UNCHANGED <<rules, body, up, leaked>>
      /\ \A t \in Tag : ~Missing(o, t) /\ (Extra(o, t) => t \in op.skip)
  BY DEF Served
<1>2. /\ op'.left = op.left \ {o} /\ op'.want = op.want /\ op'.adds = op.adds /\ op'.vpn = op.vpn
      /\ op'.pool = op.pool /\ op'.skip = {}
  BY <1>0, <1>1, OpTypes DEF Op
<1>3. Purpose'
  BY <1>0, <1>1, <1>2 DEF Purpose
<1>4. ASSUME NEW n \in Node \ leaked PROVE Ready(n)'
  <2>1. Ready(n)
    BY <1>4 DEF VPNInv
  <2>2. CASE n \notin op.vpn
    BY <1>1, <1>2, <2>1, <2>2 DEF Ready, Bare, Serving
  <2>3. CASE n \in op.vpn /\ op.pool = 0
    <3>1. Removing(n) /\ op.adds = {} /\ op.want = None
      BY <1>0, <2>1, <2>3 DEF Ready, Purpose, FirewallInv, OpSound
    <3>2. ASSUME NEW k \in NftKinds, <<n, k>> \notin op'.left PROVE rules[<<n, k>>] = NoRules
      <4>1. CASE <<n, k>> = o
        <5>1. rules[o] \in [Tag -> Nat] /\ op.want[o] = {}
          BY <1>0, <3>1, OpTypes DEF None
        <5>2. \A t \in Tag : rules[o][t] = 0
          BY <1>1, <3>1, <5>1 DEF Extra, Removing
        <5>3. QED
          BY <4>1, <5>1, <5>2 DEF NoRules
      <4>2. CASE <<n, k>> # o
        BY <1>2, <3>1, <3>2, <4>2 DEF Removing
      <4>3. QED
        BY <4>1, <4>2
    <3>3. QED
      BY <1>1, <1>2, <2>3, <3>2 DEF Ready, Removing
  <2>4. CASE n \in op.vpn /\ op.pool # 0
    <3>1. Adding(n)
      BY <2>1, <2>4 DEF Ready
    <3>2. ASSUME NEW k \in VPNKinds, <<n, k>> \notin op'.left, NEW u \in op.want[<<n, k>>]
          PROVE  rules[<<n, k>>][u] = 1
      <4>1. CASE <<n, k>> = o
        <5>1. rules[o] \in [Tag -> Nat] /\ op.want[o] \in SUBSET Tag /\ u \in op.want[o]
          BY <1>0, <4>1, OpTypes
        <5>2. rules[o][u] # 0 /\ u \in Tag
          BY <1>1, <5>1 DEF Missing
        <5>3. CASE k = "host"
          <6>1. rules[<<n, "host">>][u] <= 1
            BY <5>2 DEF VPNInv
          <6>2. QED
            BY <4>1, <5>1, <5>2, <5>3, <6>1
        <5>4. CASE k \in NftKinds
          BY <3>1, <4>1, <5>2, <5>4 DEF Adding
        <5>5. QED
          BY <5>3, <5>4 DEF VPNKinds, NftKinds
      <4>2. CASE <<n, k>> # o
        BY <1>2, <3>1, <3>2, <4>2 DEF Adding
      <4>3. QED
        BY <4>1, <4>2
    <3>3. Adding(n)'
      BY <1>1, <1>2, <3>1, <3>2 DEF Adding
    <3>4. QED
      BY <1>2, <2>4, <3>3 DEF Ready
  <2>5. QED
    BY <2>2, <2>3, <2>4
<1>5. QED
  BY <1>0, <1>1, <1>3, <1>4 DEF VPNInv

\* The operation is over.
LEMMA NoOpPurpose ==
    ASSUME op' = NoOp
    PROVE  Purpose' /\ op'.vpn = {}
  BY DEF Purpose, NoOp

\* EnsureVPN and RemoveVPN have done every owner.
LEMMA FinishVPN ==
    ASSUME VPNInv, Finish
    PROVE  VPNInv'
<1>0. FirewallInv /\ FirewallTypeOK /\ Purpose /\ FirewallInv'
  BY OtherInv DEF VPNInv, FirewallInv
<1>1. /\ op' = NoOp /\ op.left = {} /\ UNCHANGED <<rules, body, leaked>>
      /\ up' = [n \in Node |-> IF n \in op.vpn THEN op.pool ELSE up[n]]
  BY DEF Finish
<1>2. Purpose' /\ op'.vpn = {}
  BY <1>1, NoOpPurpose
<1>3. ASSUME NEW n \in Node \ leaked PROVE Ready(n)'
  <2>1. Ready(n)
    BY <1>3 DEF VPNInv
  <2>2. CASE n \notin op.vpn
    BY <1>1, <1>2, <2>1, <2>2, AsideReady
  <2>3. CASE n \in op.vpn /\ op.pool = 0
    <3>1. up'[n] = 0 /\ Bare(n)'
      BY <1>1, <2>1, <2>3 DEF Ready, Removing, Bare
    <3>2. QED
      BY <1>2, <3>1 DEF Ready
  <2>4. CASE n \in op.vpn /\ op.pool # 0
    <3>1. Adding(n) /\ up'[n] = op.pool
      BY <1>1, <2>1, <2>4 DEF Ready
    <3>2. \A k \in VPNKinds : \A t \in op.want[<<n, k>>] : rules[<<n, k>>][t] = 1
      BY <1>1, <3>1 DEF Adding
    <3>3. \A k \in NftKinds : \A t \in op.want[<<n, k>>] : t \in Tag => body[<<n, t[1]>>] = op.pool
      BY <3>1, <3>2 DEF Adding, NftKinds, VPNKinds
    <3>4. /\ op.want[<<n, "forward">>] = Way \X {0} /\ op.want[<<n, "nat">>] = {<<"nat", 0>>}
          /\ op.want[<<n, "host">>] = Way \X {op.pool}
      BY <1>0, <2>4 DEF Purpose
    <3>5. \A w \in Way : <<w, 0>> \in Tag /\ <<w, 0>> \in op.want[<<n, "forward">>]
      BY <3>4 DEF Tag
    <3>6. \A w \in Way : body[<<n, w>>] = op.pool
      BY <3>3, <3>5 DEF NftKinds
    <3>7. <<"nat", 0>> \in Tag /\ <<"nat", 0>> \in op.want[<<n, "nat">>]
      BY <3>4 DEF Tag
    <3>8. body[<<n, "nat">>] = op.pool
      BY <3>3, <3>7 DEF NftKinds
    <3>9. \A w \in Way : rules[<<n, "host">>][<<w, op.pool>>] = 1
      BY <3>2, <3>4 DEF VPNKinds
    <3>10. Serving(n)'
      BY <1>1, <3>1, <3>6, <3>8, <3>9 DEF Serving, Way
    <3>11. QED
      BY <1>2, <2>4, <3>1, <3>10 DEF Ready
  <2>5. QED
    BY <2>2, <2>3, <2>4
<1>4. QED
  BY <1>0, <1>1, <1>2, <1>3 DEF VPNInv

\* After a failure or a death the operation's node is not claimed to be served.
LEMMA FaultVPN ==
    ASSUME VPNInv, Fail \/ Die
    PROVE  VPNInv'
<1>0. FirewallInv /\ FirewallTypeOK /\ Purpose
  BY DEF VPNInv, FirewallInv
<1>1. CASE Fail
  <2>0. FirewallInv'
    BY <1>0, <1>1, FailInv
  <2>1. UNCHANGED <<rules, body, up>> /\ leaked' = leaked \cup op.vpn
    BY <1>1 DEF Fail, Faulty
  <2>2. Purpose' /\ op'.vpn \subseteq op.vpn
    <3>1. CASE op' = NoOp
      BY <3>1, NoOpPurpose
    <3>2. CASE op.vpn # {} /\ op.pool = 0 /\ op.left # {} /\ GoesOn
      <4>1. /\ op'.vpn = op.vpn /\ op'.pool = op.pool /\ op'.adds = op.adds
            /\ op'.left \subseteq op.left
        BY <1>0, <3>2, OpTypes DEF GoesOn, Op
      <4>2. QED
        BY <1>0, <2>1, <3>2, <4>1 DEF Purpose
    <3>3. QED
      BY <1>1, <3>1, <3>2, FailCases
  <2>3. ASSUME NEW n \in Node \ leaked' PROVE Ready(n)'
    <3>1. Ready(n) /\ n \notin op.vpn
      BY <2>1, <2>3 DEF VPNInv
    <3>2. QED
      BY <2>1, <2>2, <3>1, AsideReady
  <2>4. QED
    BY <2>0, <2>1, <2>2, <2>3 DEF VPNInv
<1>2. CASE Die
  <2>0. FirewallInv'
    BY <1>0, <1>2, OtherInv
  <2>1. /\ UNCHANGED <<rules, body>> /\ op' = NoOp /\ up' = [n \in Node |-> 0]
        /\ leaked' = leaked \cup op.vpn \cup {n \in Node : up[n] # 0}
    BY <1>2 DEF Die
  <2>2. Purpose' /\ op'.vpn = {}
    BY <2>1, NoOpPurpose
  <2>3. ASSUME NEW n \in Node \ leaked' PROVE Ready(n)'
    <3>1. Ready(n) /\ n \notin op.vpn /\ up[n] = 0
      BY <2>1, <2>3 DEF VPNInv
    <3>2. QED
      BY <2>1, <2>2, <3>1, AsideReady
  <2>4. QED
    BY <2>0, <2>1, <2>2, <2>3 DEF VPNInv
<1>3. QED
  BY <1>1, <1>2

\* All rules are gone, or no node is claimed to be served.
LEMMA CleanupVPN ==
    ASSUME VPNInv, Cleanup
    PROVE  VPNInv'
<1>0. FirewallInv /\ FirewallTypeOK /\ Purpose /\ FirewallInv'
  BY OtherInv DEF VPNInv, FirewallInv
<1>1. PICK gone \in {Owner, NftOwner, Owner \ NftOwner} :
          /\ leaked' = IF gone = Owner THEN leaked ELSE Node
          /\ rules' = [o \in Owner |-> IF o \in gone THEN NoRules ELSE rules[o]]
  BY DEF Cleanup
<1>2. op' = NoOp /\ up' = [n \in Node |-> 0]
  BY DEF Cleanup
<1>3. Purpose' /\ op'.vpn = {}
  BY <1>2, NoOpPurpose
<1>4. ASSUME NEW n \in Node, NEW t \in Tag PROVE rules'[<<n, "host">>][t] <= 1
  <2>1. <<n, "host">> \in Owner /\ rules[<<n, "host">>][t] <= 1
    BY <1>0, VPNTypes DEF VPNInv, Kind
  <2>2. rules'[<<n, "host">>] \in {NoRules, rules[<<n, "host">>]} /\ NoRules[t] = 0
    BY <1>1, <2>1 DEF NoRules
  <2>3. QED
    BY <2>1, <2>2
<1>5. ASSUME NEW n \in Node \ leaked' PROVE Ready(n)'
  <2>1. gone = Owner
    BY <1>1, <1>5
  <2>2. \A k \in NftKinds : <<n, k>> \in Owner
    BY <1>0, VPNTypes DEF NftKinds, Kind
  <2>3. Bare(n)'
    BY <1>1, <2>1, <2>2 DEF Bare
  <2>4. QED
    BY <1>2, <1>3, <2>3 DEF Ready
<1>6. QED
  BY <1>0, <1>3, <1>4, <1>5 DEF VPNInv

\* An operation begins.
LEMMA BeginVPN ==
    ASSUME VPNInv, NEW r, Begin(r), FirewallInv', NEW vpn \in SUBSET Node, r.vpn = vpn,
           Purpose', \A n \in Node \ vpn : up'[n] = up[n],
           \A n \in vpn : n \notin leaked => Ready(n)'
    PROVE  VPNInv'
<1>1. op = NoOp /\ op.vpn = {} /\ op' = r /\ UNCHANGED <<rules, body, leaked>>
  BY DEF Begin, NoOp
<1>2. ASSUME NEW n \in Node \ leaked PROVE Ready(n)'
  <2>1. CASE n \in vpn
    BY <1>2, <2>1
  <2>2. CASE n \notin vpn
    <3>1. Ready(n)
      BY <1>2 DEF VPNInv
    <3>2. QED
      BY <1>1, <2>2, <3>1, AsideReady
  <2>3. QED
    BY <2>1, <2>2
<1>3. QED
  BY <1>1, <1>2 DEF VPNInv

\* An operation on one node begins.
LEMMA RequestVPN ==
    ASSUME VPNInv, FirewallInv', NEW n \in Node,
           SetBlocked(n) \/ EnsureAccounting(n) \/ EnsureVPN(n) \/ RemoveVPN(n)
    PROVE  VPNInv'
<1>0. FirewallInv /\ FirewallTypeOK
  BY DEF VPNInv, FirewallInv
<1>1. ASSUME NEW r, Begin(r), r.vpn = {}, r.left \cap (Node \X VPNKinds) = {}, UNCHANGED up
      PROVE  VPNInv'
  <2>1. op' = r
    BY <1>1 DEF Begin
  <2>2. Purpose'
    BY <1>1, <2>1 DEF Purpose
  <2>3. QED
    BY <1>1, <2>2, BeginVPN
<1>2. CASE SetBlocked(n)
  <2>1. PICK p \in Port, nets \in SUBSET Net, blocked \in BOOLEAN :
            /\ UNCHANGED up
            /\ Begin([NoOp EXCEPT !.left = Rules(n, {"legacy", "blocked"}),
                                  !.want[<<n, "blocked">>] = IF blocked THEN Listeners(nets, p) ELSE {}])
    BY <1>2 DEF SetBlocked
  <2> DEFINE r == [NoOp EXCEPT !.left = Rules(n, {"legacy", "blocked"}),
                               !.want[<<n, "blocked">>] = IF blocked THEN Listeners(nets, p) ELSE {}]
  <2>2. r.vpn = {} /\ r.left = {n} \X {"legacy", "blocked"}
    BY DEF NoOp, Rules
  <2>3. r.left \cap (Node \X VPNKinds) = {}
    BY <2>2 DEF VPNKinds
  <2>4. QED
    BY <1>1, <2>1, <2>2, <2>3
<1>3. CASE EnsureAccounting(n)
  <2>1. PICK p \in Port, nets \in SUBSET Net :
            /\ UNCHANGED up
            /\ Begin([NoOp EXCEPT !.left = Rules(n, {"upload", "download"}),
                                  !.want[<<n, "upload">>] = Listeners(nets, p),
                                  !.want[<<n, "download">>] = Listeners(nets, p)])
    BY <1>3 DEF EnsureAccounting
  <2> DEFINE r == [NoOp EXCEPT !.left = Rules(n, {"upload", "download"}),
                               !.want[<<n, "upload">>] = Listeners(nets, p),
                               !.want[<<n, "download">>] = Listeners(nets, p)]
  <2>2. r.vpn = {} /\ r.left = {n} \X {"upload", "download"}
    BY DEF NoOp, Rules
  <2>3. r.left \cap (Node \X VPNKinds) = {}
    BY <2>2 DEF VPNKinds
  <2>4. QED
    BY <1>1, <2>1, <2>2, <2>3
<1>4. CASE EnsureVPN(n)
  <2>1. PICK pool \in Pool :
            /\ UNCHANGED up
            /\ Begin([NoOp EXCEPT !.left = Rules(n, VPNKinds),
                                  !.vpn = {n}, !.pool = pool,
                                  !.want[<<n, "forward">>] = Way \X {0},
                                  !.want[<<n, "nat">>] = {<<"nat", 0>>},
                                  !.want[<<n, "host">>] = Way \X {pool},
                                  !.adds = {<<n, "host">>}])
    BY <1>4 DEF EnsureVPN
  <2> DEFINE r == [NoOp EXCEPT !.left = Rules(n, VPNKinds),
                               !.vpn = {n}, !.pool = pool,
                               !.want[<<n, "forward">>] = Way \X {0},
                               !.want[<<n, "nat">>] = {<<"nat", 0>>},
                               !.want[<<n, "host">>] = Way \X {pool},
                               !.adds = {<<n, "host">>}]
             want == [None EXCEPT ![<<n, "forward">>] = Way \X {0},
                                  ![<<n, "nat">>] = {<<"nat", 0>>},
                                  ![<<n, "host">>] = Way \X {pool}]
  <2>2. /\ r.left = {n} \X VPNKinds /\ r.vpn = {n} /\ r.pool = pool /\ r.adds = {<<n, "host">>}
        /\ r.want = want
    BY DEF NoOp, Rules
  <2>3. /\ want[<<n, "forward">>] = Way \X {0}
        /\ want[<<n, "nat">>] = {<<"nat", 0>>}
        /\ want[<<n, "host">>] = Way \X {pool}
    <3>1. <<n, "forward">> \in Owner /\ <<n, "nat">> \in Owner /\ <<n, "host">> \in Owner
      BY DEF Owner, Kind
    <3>2. QED
      BY <3>1 DEF None
  <2>4. Begin(r)
    BY <2>1
  <2> HIDE DEF r, want
  <2>5. op' = r /\ up' = up /\ up[n] = 0 /\ op = NoOp /\ pool # 0
    BY <1>4, <2>1, FirewallAssumption DEF Begin, EnsureVPN, r
  <2>6. Purpose'
    BY <2>2, <2>3, <2>5 DEF Purpose
  <2>7. ASSUME n \notin leaked PROVE Ready(n)'
    <3>1. Bare(n)
      BY <2>5, <2>7 DEF VPNInv, Ready, NoOp, Serving
    <3>2. \A k \in NftKinds, t \in Tag : rules'[<<n, k>>][t] = 0
      BY <2>1, <3>1 DEF Bare, Begin, NoRules
    <3>3. \A k \in VPNKinds : <<n, k>> \in op'.left
      BY <2>2, <2>5
    <3>4. Adding(n)'
      BY <3>2, <3>3 DEF Adding
    <3>5. QED
      BY <2>2, <2>5, <3>4 DEF Ready
  <2>8. QED
    BY <2>2, <2>5, <2>6, <2>7, <2>4, BeginVPN
<1>5. CASE RemoveVPN(n)
  <2> DEFINE r == [NoOp EXCEPT !.left = Rules(n, VPNKinds), !.vpn = {n}]
  <2>1. /\ r.left = {n} \X VPNKinds /\ r.vpn = {n} /\ r.pool = 0 /\ r.adds = {} /\ r.skip = {}
    BY DEF NoOp, Rules
  <2>2. Begin(r) /\ up' = [up EXCEPT ![n] = 0]
    BY <1>5 DEF RemoveVPN
  <2> HIDE DEF r
  <2>3. op' = r /\ up'[n] = 0 /\ \A m \in Node \ {n} : up'[m] = up[m]
    BY <1>0, <2>2, VPNTypes DEF Begin
  <2>4. Purpose'
    BY <2>1, <2>3 DEF Purpose
  <2>5. \A k \in NftKinds : <<n, k>> \in op'.left
    BY <2>1, <2>3 DEF NftKinds, VPNKinds
  <2>6. Ready(n)'
    BY <2>1, <2>3, <2>5 DEF Ready, Removing
  <2>7. QED
    BY <2>1, <2>2, <2>3, <2>4, <2>6, BeginVPN
<1>6. QED
  BY <1>2, <1>3, <1>4, <1>5

\* Every step.
LEMMA StepVPN ==
    ASSUME VPNInv, [FirewallNext]_firewallVars
    PROVE  VPNInv'
<1>0. FirewallInv'
  BY FirewallStep DEF VPNInv
<1>1. CASE UNCHANGED firewallVars
  BY <1>0, <1>1 DEF firewallVars, VPNInv, Purpose, Ready, Bare, Serving, Removing, Adding
<1>2. CASE CleanupUnknownAccounting
  <2>1. PICK active \in SUBSET Node :
            /\ UNCHANGED up
            /\ Begin([NoOp EXCEPT !.left = (Node \ active) \X {"upload", "download"}])
    BY <1>2 DEF CleanupUnknownAccounting
  <2> DEFINE r == [NoOp EXCEPT !.left = (Node \ active) \X {"upload", "download"}]
  <2>2. r.vpn = {} /\ r.left \cap (Node \X VPNKinds) = {} /\ op' = r
    BY <2>1 DEF NoOp, VPNKinds, Begin
  <2>3. Purpose'
    BY <2>2 DEF Purpose
  <2>4. QED
    BY <1>0, <2>1, <2>2, <2>3, BeginVPN
<1>3. QED
  BY <1>0, <1>1, <1>2, RequestVPN, ListVPN, DeleteVPN, AddVPN, ServedVPN, FinishVPN, FaultVPN,
     CleanupVPN
  DEF FirewallNext

-----------------------------------------------------------------------------
\* A node runs with forwarding and NAT for the pool it was started with, whatever pools it
\* had before and however often it was started and stopped, unless a command on its VPN
\* rules has failed or the agent has died with it: RemoveVPN, finding rules by tags that
\* do not name the pool, has left none that EnsureVPN would take for its own.
THEOREM VPNRulesFollowPool == FirewallSpec => []VPNServes
<1>1. VPNInv => VPNServes
  <2> SUFFICES ASSUME VPNInv, NEW n \in Node, up[n] # 0, n \notin leaked
               PROVE  Serving(n)
    BY DEF VPNServes, Serving
  <2>1. Ready(n)
    BY DEF VPNInv
  <2>2. n \notin op.vpn
    BY DEF VPNInv, Purpose
  <2>3. QED
    BY <2>1, <2>2 DEF Ready
<1>2. QED
  BY <1>1, InitVPN, StepVPN, PTL DEF FirewallSpec
=============================================================================
