------------------------------- MODULE HostProofs ---------------------------
(***************************************************************************)
(* Theorem about MCHost: in each behaviour the variables of the component  *)
(* it is about have the types their module gives them.  It combines the    *)
(* inductive invariants of the components.                                 *)
(***************************************************************************)
EXTENDS MCHost, PanelProofs, FirewallProofs, AnyConnectProofs

HostInv ==
    /\ which \in {"login", "firewall", "backup", "upgrade", "vpn", "accounts", "cidr"}
    /\ which = "login" => LoginInv
    /\ which = "firewall" => FirewallInv
    /\ which = "backup" => JobInv
    /\ which = "upgrade" => UpgradeTypeOK
    /\ which = "vpn" => VpnTypes
    /\ which = "accounts" => AccountTypes
    /\ which = "cidr" => CidrInv

LEMMA HostStart == HostInit => HostInv
<1> SUFFICES ASSUME HostInit
             PROVE  HostInv
  OBVIOUS
<1>1. which \in {"login", "firewall", "backup", "upgrade", "vpn", "accounts", "cidr"}
  BY DEF HostInit
<1>2. /\ LoginInit /\ BackupInit
      /\ which = "firewall" => FirewallInit
      /\ which = "upgrade" => UpgradeInit
      /\ which = "vpn" => VpnInit
      /\ which = "accounts" => AccountsInit
      /\ which = "cidr" => CidrInit
  BY DEF HostInit, FirstPlan
<1>3. QED
  BY <1>1, <1>2, LoginInitInv, FirewallInitInv, BackupInitTypes, UpgradeInitTypes, VpnInitTypes,
     AccountsInitTypes, CidrStart DEF HostInv

\* A step is one of the component's, or none.
LEMMA HostCases ==
    ASSUME [HostNext]_hostVars, HostInv
    PROVE  /\ which' = which
           /\ which = "login" => [LoginNext]_loginVars
           /\ which = "firewall" => [FirewallNext]_firewallVars
           /\ which = "backup" => [BackupNext]_backupVars
           /\ which = "upgrade" => [UpgradeNext]_upgradeVars
           /\ which = "vpn" => [VpnNext]_vpnVars
           /\ which = "accounts" => [AccountsNext]_accountVars
           /\ which = "cidr" => [CidrNext]_cidrVars
<1>1. CASE HostNext
  BY <1>1 DEF HostNext
<1>2. CASE UNCHANGED hostVars
  BY <1>2 DEF hostVars
<1>3. QED
  BY <1>1, <1>2

LEMMA HostStep == HostInv /\ [HostNext]_hostVars => HostInv'
<1> SUFFICES ASSUME HostInv, [HostNext]_hostVars
             PROVE  HostInv'
  OBVIOUS
<1>1. which' = which
  BY HostCases
<1>2. which = "login" => LoginInv'
  BY HostCases, LoginStep DEF HostInv
<1>3. which = "firewall" => FirewallInv'
  BY HostCases, FirewallStep DEF HostInv
<1>4. which = "backup" => JobInv'
  BY HostCases, BackupStepTypes DEF HostInv
<1>5. which = "upgrade" => UpgradeTypeOK'
  BY HostCases, UpgradeStepTypes DEF HostInv
<1>6. which = "vpn" => VpnTypes'
  BY HostCases, VpnStepTypes DEF HostInv
<1>7. which = "accounts" => AccountTypes'
  BY HostCases, AccountsStepTypes DEF HostInv
<1>8. which = "cidr" => CidrInv'
  BY HostCases, CidrStep DEF HostInv
<1>9. QED
  BY <1>1, <1>2, <1>3, <1>4, <1>5, <1>6, <1>7, <1>8 DEF HostInv

\* Every variable keeps the type its module gives it, whichever component moves.
THEOREM HostTypeCorrect == HostSpec => []HostTypeOK
<1>1. HostInv => HostTypeOK
  <2> SUFFICES ASSUME HostInv
               PROVE  HostTypeOK
    OBVIOUS
  <2>1. /\ which = "login" => LoginTypeOK
        /\ which = "firewall" => FirewallTypeOK
        /\ which = "backup" => BackupTypeOK
        /\ which = "upgrade" => UpgradeTypeOK
    BY DEF HostInv, LoginInv, FirewallInv, JobInv
  <2>2. which = "vpn" => VpnTypeOK
    BY DEF HostInv, VpnTypes
  <2>3. which = "accounts" => AccountsTypeOK
    BY DEF HostInv, AccountTypes, AccountsTypeOK, Importing, Requests, UnderWay
  <2>4. which = "cidr" => CidrTypeOK
    BY DEF HostInv, CidrInv
  <2>5. which \in {"login", "firewall", "backup", "upgrade", "vpn", "accounts", "cidr"}
    BY DEF HostInv
  <2>6. QED
    BY <2>1, <2>2, <2>3, <2>4, <2>5 DEF HostTypeOK
<1>2. QED
  BY <1>1, HostStart, HostStep, PTL DEF HostSpec
=============================================================================
