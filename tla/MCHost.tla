------------------------------- MODULE MCHost -------------------------------
(***************************************************************************)
(* The components that share no state with one another, for TLC in one     *)
(* run: each behaviour is one of the component "which", while the others   *)
(* rest in a state of theirs.                                              *)
(***************************************************************************)
EXTENDS Login, Firewall, Backup, Upgrade, VpnFiles, Accounts, Cidr, TLC

VARIABLE which

hostVars == <<which, loginVars, firewallVars, backupVars, upgradeVars, vpnVars, accountVars, cidrVars>>

\* One address is reserved, and two more elsewhere.
SpecialUse == <<[addr |-> 0, bits |-> 4], [addr |-> 10, bits |-> 3]>>

\* An upgrade, the files of a node, accounts, and routes at rest.
UpgradeRest == path = [candidate |-> Absent, target |-> Absent, previous |-> Absent] /\ UpgradeInit
VpnRest == copied = FALSE
\* The plans that are not rejected are interchangeable, so that one may be the first.
FirstPlan == plan = 1 /\ VpnInit
AccountsRest == title = [v \in Vpn |-> Nobody] /\ buried = {} /\ AccountsInit
CidrRest == source = [format |-> "cidr", records |-> {}] /\ stage = "refused" /\ routes = {}
FirewallRest == rules = [o \in Owner |-> NoRules] /\ FirewallInit

HostInit ==
    /\ which \in {"login", "firewall", "backup", "upgrade", "vpn", "accounts", "cidr"}
    /\ LoginInit /\ BackupInit /\ FirstPlan
    /\ IF which = "firewall" THEN FirewallInit ELSE FirewallRest
    /\ IF which = "upgrade" THEN UpgradeInit ELSE UpgradeRest
    /\ which # "vpn" => VpnRest
    /\ IF which = "accounts" THEN AccountsInit ELSE AccountsRest
    /\ IF which = "cidr" THEN CidrInit ELSE CidrRest

HostNext ==
    /\ which' = which
    /\ \/ /\ which = "login" /\ LoginNext
          /\ UNCHANGED <<firewallVars, backupVars, upgradeVars, vpnVars, accountVars, cidrVars>>
       \/ /\ which = "firewall" /\ FirewallNext
          /\ UNCHANGED <<loginVars, backupVars, upgradeVars, vpnVars, accountVars, cidrVars>>
       \/ /\ which = "backup" /\ BackupNext
          /\ UNCHANGED <<loginVars, firewallVars, upgradeVars, vpnVars, accountVars, cidrVars>>
       \/ /\ which = "upgrade" /\ UpgradeNext
          /\ UNCHANGED <<loginVars, firewallVars, backupVars, vpnVars, accountVars, cidrVars>>
       \/ /\ which = "vpn" /\ VpnNext
          /\ UNCHANGED <<loginVars, firewallVars, backupVars, upgradeVars, accountVars, cidrVars>>
       \/ /\ which = "accounts" /\ AccountsNext
          /\ UNCHANGED <<loginVars, firewallVars, backupVars, upgradeVars, vpnVars, cidrVars>>
       \/ /\ which = "cidr" /\ CidrNext
          /\ UNCHANGED <<loginVars, firewallVars, backupVars, upgradeVars, vpnVars, accountVars>>

HostSpec == HostInit /\ [][HostNext]_hostVars

\* Every variable has the type its module gives it: no record loses a field, no counter
\* is negative, and what is named exists, whatever fails or dies in between.
HostTypeOK ==
    CASE which = "login" -> LoginTypeOK
      [] which = "firewall" -> FirewallTypeOK
      [] which = "backup" -> BackupTypeOK
      [] which = "upgrade" -> UpgradeTypeOK
      [] which = "vpn" -> VpnTypeOK
      [] which = "accounts" -> AccountsTypeOK
      [] which = "cidr" -> CidrTypeOK

\* Requests, tasks and installs are interchangeable, and so are nodes, certificates and
\* names; the components share the two sets of model values, to keep the symmetries few.
HostSymmetry == Permutations(Worker) \cup Permutations(Member)
=============================================================================
