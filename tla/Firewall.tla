------------------------------ MODULE Firewall ------------------------------
(***************************************************************************)
(* The operations of internal/firewall/firewall.go on the nftables table   *)
(* of the panel and on its iptables chain, one nft or iptables command at  *)
(* a time.  A rule belongs to an owner, which is a node and the kind of    *)
(* its comment, and carries a tag, the rest of the comment.  nftMu lets    *)
(* one operation run; any command of it may fail, and the agent may die    *)
(* in the middle.  The table outlives the agent.                           *)
(***************************************************************************)
EXTENDS Integers, FiniteSets

CONSTANTS
    Node, Port,
    Pool,       \* VPN address pools
    MaxOps,     \* bound on operations
    MaxFaults   \* bound on failed commands and deaths of the agent

ASSUME FirewallAssumption ==
    /\ Port \subseteq Nat \ {0} /\ Pool \subseteq Nat \ {0}
    /\ MaxOps \in Nat /\ MaxFaults \in Nat

VARIABLES
    rules,   \* how many rules of each tag each owner has
    body,    \* the pool that the rules of EnsureVPN in nftables name: their tags do not
    op,      \* the operation in progress
    up,      \* the pool a node has been started with since the last cleanup, or 0
    leaked,  \* nodes whose VPN rules an operation, or the agent's death, has left behind
    ops, fwFaults

firewallVars == <<rules, body, op, up, leaked, ops, fwFaults>>

Kind == {"legacy", "blocked", "upload", "download", "forward", "nat", "host"}
Net == {"tcp", "udp"}
Way == {"out", "in"}

Owner == Node \X Kind

\* A listener, the one rule of older versions, a direction, and for iptables a pool.
Tag == Net \X Port \cup {<<"all", 0>>, <<"nat", 0>>} \cup Way \X ({0} \cup Pool)

None == [o \in Owner |-> {}]

\* vpn: the nodes whose VPN rules it is about, and pool the one they are for, 0 to
\* remove them.  at: the owner at work, if any, whose rules were before when it listed
\* them; skip: tags whose deletion has failed there.
Op == [want: [Owner -> SUBSET Tag], adds: SUBSET Owner, left: SUBSET Owner,
       vpn: SUBSET Node, pool: Pool \cup {0},
       at: SUBSET Owner, before: [Tag -> Nat], skip: SUBSET Tag]

NoRules == [t \in Tag |-> 0]

NoOp == [want |-> None, adds |-> {}, left |-> {}, vpn |-> {}, pool |-> 0,
         at |-> {}, before |-> NoRules, skip |-> {}]

FirewallTypeOK ==
    /\ rules \in [Owner -> [Tag -> Nat]]
    /\ body \in [Node \X {"out", "in", "nat"} -> Pool \cup {0}]
    /\ op \in Op
    /\ up \in [Node -> Pool \cup {0}]
    /\ leaked \subseteq Node
    /\ ops \in Nat /\ fwFaults \in Nat

\* What an earlier agent may have left: a rule of one owner, twice.
FirewallInit ==
    /\ \E n \in Node, found \in {<<"none", <<"all", 0>> >>, <<"legacy", <<"all", 0>> >>} \cup
                                ({"blocked", "upload"} \X ({"tcp"} \X Port)) :
        rules = [o \in Owner |-> [NoRules EXCEPT ![found[2]] = IF o = <<n, found[1]>> THEN 2 ELSE 0]]
    /\ body = [r \in Node \X {"out", "in", "nat"} |-> 0]
    /\ op = NoOp
    /\ up = [n \in Node |-> 0]
    /\ leaked = {} /\ ops = 0 /\ fwFaults = 0

-----------------------------------------------------------------------------
Begin(request) ==
    /\ op = NoOp /\ ops < MaxOps
    /\ ops' = ops + 1
    /\ op' = request
    /\ UNCHANGED <<rules, body, leaked, fwFaults>>

Rules(n, kinds) == {n} \X kinds

Listeners(nets, p) == nets \X {p}

SetBlocked(n) ==
    \E p \in Port, nets \in SUBSET Net, blocked \in BOOLEAN :
        /\ nets # {} /\ UNCHANGED up
        /\ Begin([NoOp EXCEPT !.left = Rules(n, {"legacy", "blocked"}),
                              !.want[<<n, "blocked">>] = IF blocked THEN Listeners(nets, p) ELSE {}])

EnsureAccounting(n) ==
    \E p \in Port, nets \in SUBSET Net :
        /\ nets # {} /\ UNCHANGED up
        /\ Begin([NoOp EXCEPT !.left = Rules(n, {"upload", "download"}),
                              !.want[<<n, "upload">>] = Listeners(nets, p),
                              !.want[<<n, "download">>] = Listeners(nets, p)])

\* Mutant of VPNKinds: the rules in postrouting are forgotten.
VPNKindsNoNAT == {"forward", "host"}

\* Forwarding and NAT in the panel's table, and forwarding in the host's FORWARD chain.
VPNKinds == {"forward", "nat", "host"}

\* The agent starts the node with the pool its row names.
EnsureVPN(n) ==
    \E pool \in Pool :
        /\ up[n] = 0 /\ UNCHANGED up
        /\ Begin([NoOp EXCEPT !.left = Rules(n, VPNKinds),
                              !.vpn = {n}, !.pool = pool,
                              !.want[<<n, "forward">>] = Way \X {0},
                              !.want[<<n, "nat">>] = {<<"nat", 0>>},
                              !.want[<<n, "host">>] = Way \X {pool},
                              !.adds = {<<n, "host">>}])

\* When the node has stopped, did not start, or is deleted.
RemoveVPN(n) ==
    /\ up' = [up EXCEPT ![n] = 0]
    /\ Begin([NoOp EXCEPT !.left = Rules(n, VPNKinds), !.vpn = {n}])

CleanupUnknownAccounting ==
    \E active \in SUBSET Node :
        /\ UNCHANGED up
        /\ Begin([NoOp EXCEPT !.left = (Node \ active) \X {"upload", "download"}])

NftOwner == Node \X (Kind \ {"host"})

\* The whole table goes in one command, and what the chain holds in another.  A node
\* that runs is without its VPN rules until it is started again.
Cleanup ==
    /\ op = NoOp /\ ops < MaxOps /\ ops' = ops + 1
    /\ \E gone \in {Owner, NftOwner, Owner \ NftOwner} :
        /\ gone # Owner => fwFaults < MaxFaults
        /\ fwFaults' = IF gone = Owner THEN fwFaults ELSE fwFaults + 1
        /\ leaked' = IF gone = Owner THEN leaked ELSE Node
        /\ rules' = [o \in Owner |-> IF o \in gone THEN NoRules ELSE rules[o]]
        /\ body' = IF NftOwner \subseteq gone THEN [r \in DOMAIN body |-> 0] ELSE body
    /\ up' = [n \in Node |-> 0]
    /\ UNCHANGED op

-----------------------------------------------------------------------------
Rank(k) ==
    CASE k \in {"legacy", "upload", "forward"} -> 1
      [] k \in {"blocked", "download", "nat"} -> 2
      [] OTHER -> 3

\* List the rules of the next owner, in the order of the code.
List(o) ==
    /\ op.at = {} /\ o \in op.left
    /\ \A other \in op.left : Rank(o[2]) <= Rank(other[2])
    /\ op' = [op EXCEPT !.at = {o}, !.before = rules[o]]
    /\ UNCHANGED <<rules, body, up, leaked, ops, fwFaults>>

\* Mutant of Extra: a wanted rule is not looked for twice.
ExtraUnwanted(o, t) == rules[o][t] > 0 /\ t \notin op.want[o] /\ o \notin op.adds

\* A rule whose tag is not wanted, or that another rule duplicates.
Extra(o, t) == rules[o][t] > (IF t \in op.want[o] THEN 1 ELSE 0) /\ o \notin op.adds

Missing(o, t) == t \in op.want[o] /\ rules[o][t] = 0

\* The rules of EnsureVPN in nftables hold the pool they were added with.
Bodies(o, t, count) ==
    body' = IF o[2] \in {"forward", "nat"} /\ count < 2
            THEN [body EXCEPT ![<<o[1], t[1]>>] = IF count = 0 THEN 0 ELSE op.pool]
            ELSE body

Put(o, t, count) ==
    /\ rules' = [rules EXCEPT ![o][t] = count]
    /\ Bodies(o, t, count)
    /\ UNCHANGED <<op, up, leaked, ops, fwFaults>>

DeleteRule(o) ==
    /\ op.at = {o}
    /\ \E t \in Tag \ op.skip : Extra(o, t) /\ Put(o, t, rules[o][t] - 1)

AddRule(o) ==
    /\ op.at = {o}
    /\ \A t \in Tag : ~Extra(o, t)
    /\ \E t \in Tag : Missing(o, t) /\ Put(o, t, 1)

\* All of an owner's rules are as wanted, or their deletion has failed.
Served(o) ==
    /\ op.at = {o}
    /\ \A t \in Tag : ~Missing(o, t) /\ (Extra(o, t) => t \in op.skip)
    /\ op' = [op EXCEPT !.at = {}, !.left = @ \ {o}, !.skip = {}, !.before = NoRules]
    /\ UNCHANGED <<rules, body, up, leaked, ops, fwFaults>>

Finish ==
    /\ op # NoOp /\ op.left = {}
    /\ op' = NoOp
    /\ up' = [n \in Node |-> IF n \in op.vpn THEN op.pool ELSE up[n]]
    /\ UNCHANGED <<rules, body, leaked, ops, fwFaults>>

Faulty ==
    /\ op # NoOp /\ fwFaults < MaxFaults
    /\ fwFaults' = fwFaults + 1
    /\ leaked' = leaked \cup op.vpn

\* RemoveVPN goes on with the next rule of nftables when one cannot be deleted, and with
\* the next chain when one cannot be listed; everything else returns.
Fail ==
    /\ Faulty
    /\ op' \in IF op.vpn # {} /\ op.pool = 0 /\ op.left # {}
               THEN {[op EXCEPT !.skip = @ \cup {t}] : t \in {u \in Tag : \E o \in op.at \cap NftOwner : Extra(o, u)}}
                    \cup {[op EXCEPT !.at = {}, !.before = NoRules, !.skip = {}, !.left = @ \ op.at]}
               ELSE {NoOp}
    /\ UNCHANGED <<rules, body, up, ops>>

\* The agent is killed with its processes.
Die ==
    /\ fwFaults < MaxFaults /\ fwFaults' = fwFaults + 1
    /\ leaked' = leaked \cup op.vpn \cup {n \in Node : up[n] # 0}
    /\ op' = NoOp /\ up' = [n \in Node |-> 0]
    /\ UNCHANGED <<rules, body, ops>>

FirewallNext ==
    \/ \E n \in Node :
        SetBlocked(n) \/ EnsureAccounting(n) \/ EnsureVPN(n) \/ RemoveVPN(n)
    \/ CleanupUnknownAccounting \/ Cleanup
    \/ \E o \in Owner : List(o) \/ DeleteRule(o) \/ AddRule(o) \/ Served(o)
    \/ Finish \/ Fail \/ Die

FirewallSpec == FirewallInit /\ [][FirewallNext]_firewallVars

-----------------------------------------------------------------------------
\* Command by command, the code does what RuleTable does at once: an owner's rules are
\* seen as they were when they were listed until the last command has succeeded.
Table == INSTANCE RuleTable WITH
    table <- [o \in Owner |-> IF op.at = {o} THEN op.before ELSE rules[o]],
    want <- op.want, adds <- op.adds, left <- op.left

\* Operations are atomic per owner, disturb no other owner's rules, leave each wanted
\* rule exactly once when they succeed and lose no wanted rule when they fail.
ImplementsTable == Table!TableSpec

\* A node runs with forwarding and NAT for its own pool, also after the pool was
\* changed, unless an operation on its VPN rules failed or was cut short before.
VPNServes ==
    \A n \in Node : up[n] # 0 /\ n \notin leaked =>
        /\ \A r \in {"out", "in", "nat"} : body[<<n, r>>] = up[n]
        /\ \A w \in Way : rules[<<n, "host">>][<<w, up[n]>>] = 1

\* What the user guide has the administrator look for on a running node.
VPNPoolVisible ==
    \A n \in Node : up[n] # 0 => \A r \in {"out", "in", "nat"} : body[<<n, r>>] = up[n]
=============================================================================
