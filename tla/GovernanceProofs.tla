-------------------------- MODULE GovernanceProofs --------------------------
(***************************************************************************)
(* The three delayed actions of Governance implement DelayedAction, for    *)
(* every set of addresses and packages and for every delay.                *)
(***************************************************************************)
EXTENDS Governance, TLAPS

-----------------------------------------------------------------------------
(* The invariant: TypeOK says nothing of the value that is left behind by  *)
(* an earlier commit.  While a deadline is set, that value is there, and   *)
(* the deadline is a whole delay after some time of the clock.             *)

Committed ==
    /\ \A role \in DelayedRoles :
        deadline[role] # 0 =>
            future[role] \in Addresses /\ deadline[role] >= AdminActionsDelay
    /\ upgradeDeadline # 0 =>
        futureWasm \in Packages /\ upgradeDeadline >= UpgradeDelay

GovInv == TypeOK /\ Committed

LEMMA GovInit == Init => GovInv
<1> SUFFICES ASSUME Init PROVE GovInv
  OBVIOUS
<1>1. TypeOK
  <2>1. instant \in [InstantRoles -> SUBSET Addresses]
    BY DEF Init
  <2> QED
    BY <2>1 DEF Init, TypeOK
<1>2. Committed
  BY DEF Init, Committed
<1> QED
  BY <1>1, <1>2 DEF GovInv

LEMMA GovStep == GovInv /\ [Next]_vars => GovInv'
<1> USE GovernanceAssumption DEF GovernanceAssumption
<1> SUFFICES ASSUME GovInv, [Next]_vars PROVE GovInv'
  OBVIOUS
<1> USE DEF GovInv, TypeOK, Committed
<1>1. ASSUME NEW caller \in Addresses, NEW role \in DelayedRoles, NEW a \in Addresses,
             CommitTransferOwnership(caller, role, a)
      PROVE  GovInv'
  BY <1>1 DEF CommitTransferOwnership, upgradeVars
<1>2. ASSUME NEW caller \in Addresses, NEW role \in DelayedRoles,
             ApplyTransferOwnership(caller, role)
      PROVE  GovInv'
  BY <1>2 DEF ApplyTransferOwnership, upgradeVars
<1>3. ASSUME NEW caller \in Addresses, NEW role \in DelayedRoles,
             RevertTransferOwnership(caller, role)
      PROVE  GovInv'
  BY <1>3 DEF RevertTransferOwnership, upgradeVars
<1>4. ASSUME NEW caller \in Addresses, NEW addrs \in OneEach,
             SetPrivilegedAddrs(caller, addrs)
      PROVE  GovInv'
  BY <1>4 DEF SetPrivilegedAddrs, OneEach, roleVars, upgradeVars
<1>5. ASSUME NEW caller \in Addresses, NEW p \in Packages, CommitUpgrade(caller, p)
      PROVE  GovInv'
  BY <1>5 DEF CommitUpgrade, roleVars
<1>6. ASSUME NEW caller \in Addresses, ApplyUpgrade(caller)
      PROVE  GovInv'
  BY <1>6 DEF ApplyUpgrade, roleVars
<1>7. ASSUME NEW caller \in Addresses, RevertUpgrade(caller)
      PROVE  GovInv'
  BY <1>7 DEF RevertUpgrade, roleVars
<1>8. ASSUME NEW caller \in Addresses, NEW value \in BOOLEAN,
             SetEmergencyMode(caller, value)
      PROVE  GovInv'
  BY <1>8 DEF SetEmergencyMode, roleVars, upgradeVars
<1>9. CASE Tick
  BY <1>9 DEF Tick, roleVars, upgradeVars
<1>10. CASE UNCHANGED vars
  BY <1>10 DEF vars
<1> QED
  BY <1>1, <1>2, <1>3, <1>4, <1>5, <1>6, <1>7, <1>8, <1>9, <1>10 DEF Next

\* The types of the governance state, through every call of the wrappers in
\* contract.rs: the admin's role is never left empty.
THEOREM TypeCorrect == Spec => []TypeOK
<1>1. GovInv => TypeOK
  BY DEF GovInv
<1> QED
  BY GovInit, GovStep, <1>1, PTL DEF Spec

LEMMA GovInvariant == Spec => []GovInv
BY GovInit, GovStep, PTL DEF Spec

-----------------------------------------------------------------------------
(* Transfers of the Admin role                                             *)

LEMMA AdminInit == Init => AdminTransfer!Init
BY GovernanceAssumption
   DEF Init, AdminTransfer!Init, Proposal, DelayedRoles

LEMMA AdminStep ==
    GovInv /\ [Next]_vars => [AdminTransfer!Next]_(AdminTransfer!vars)
<1> USE GovernanceAssumption DEF GovernanceAssumption
<1> SUFFICES ASSUME GovInv, [Next]_vars
             PROVE  AdminTransfer!Next \/ UNCHANGED AdminTransfer!vars
  OBVIOUS
<1> USE DEF GovInv, TypeOK, Committed, Proposal, DelayedRoles, AdminTransfer!vars
<1>1. ASSUME NEW caller \in Addresses, NEW role \in DelayedRoles, NEW a \in Addresses,
             CommitTransferOwnership(caller, role, a)
      PROVE  AdminTransfer!Propose(a) \/ UNCHANGED AdminTransfer!vars
  <2>1. CASE role = "Admin"
    <3>1. /\ deadline'["Admin"] = clock + AdminActionsDelay
          /\ future'["Admin"] = a
      BY <1>1, <2>1 DEF CommitTransferOwnership
    <3>2. deadline'["Admin"] # 0 /\ deadline'["Admin"] - AdminActionsDelay = clock
      BY <3>1
    <3> QED
      BY <1>1, <2>1, <3>1, <3>2 DEF CommitTransferOwnership, AdminTransfer!Propose
  <2>2. CASE role # "Admin"
    BY <1>1, <2>2 DEF CommitTransferOwnership
  <2> QED
    BY <2>1, <2>2
<1>2. ASSUME NEW caller \in Addresses, NEW role \in DelayedRoles,
             ApplyTransferOwnership(caller, role)
      PROVE  AdminTransfer!Enact \/ UNCHANGED AdminTransfer!vars
  <2>1. CASE role = "Admin"
    <3> DEFINE p == [value |-> future["Admin"],
                     since |-> deadline["Admin"] - AdminActionsDelay]
    <3>1. p \in Proposal(deadline["Admin"], future["Admin"], AdminActionsDelay)
      BY <1>2, <2>1 DEF ApplyTransferOwnership
    <3>2. clock >= p.since + AdminActionsDelay
      BY <1>2, <2>1 DEF ApplyTransferOwnership
    <3>3. holder'["Admin"] = p.value /\ deadline'["Admin"] = 0 /\ UNCHANGED clock
      BY <1>2, <2>1 DEF ApplyTransferOwnership
    <3> QED
      BY <3>1, <3>2, <3>3 DEF AdminTransfer!Enact
  <2>2. CASE role # "Admin"
    BY <1>2, <2>2 DEF ApplyTransferOwnership
  <2> QED
    BY <2>1, <2>2
<1>3. ASSUME NEW caller \in Addresses, NEW role \in DelayedRoles,
             RevertTransferOwnership(caller, role)
      PROVE  AdminTransfer!Cancel \/ UNCHANGED AdminTransfer!vars
  BY <1>3 DEF RevertTransferOwnership, AdminTransfer!Cancel
<1>4. CASE Tick
  <2>1. AdminTransfer!Tick
    BY <1>4 DEF Tick, AdminTransfer!Tick, roleVars
  <2> QED
    BY <2>1 DEF AdminTransfer!Next
<1>5. CASE UNCHANGED <<roleVars, clock>>
  BY <1>5 DEF roleVars
<1> QED
  BY <1>1, <1>2, <1>3, <1>4, <1>5
     DEF Next, AdminTransfer!Next, vars, roleVars, SetPrivilegedAddrs,
         CommitUpgrade, ApplyUpgrade, RevertUpgrade, SetEmergencyMode

\* No sequence of commits, reverts and applies gives the Admin role to an
\* address that was not the pending one for the whole delay.
THEOREM AdminTransferDelayed == Spec => AdminDelayed
BY GovInvariant, AdminInit, AdminStep, PTL
   DEF Spec, AdminDelayed, AdminTransfer!Spec

-----------------------------------------------------------------------------
(* Transfers of the EmergencyAdmin role                                    *)

LEMMA EmergencyInit == Init => EmergencyTransfer!Init
BY GovernanceAssumption
   DEF Init, EmergencyTransfer!Init, Proposal, DelayedRoles

LEMMA EmergencyStep ==
    GovInv /\ [Next]_vars => [EmergencyTransfer!Next]_(EmergencyTransfer!vars)
<1> USE GovernanceAssumption DEF GovernanceAssumption
<1> SUFFICES ASSUME GovInv, [Next]_vars
             PROVE  EmergencyTransfer!Next \/ UNCHANGED EmergencyTransfer!vars
  OBVIOUS
<1> USE DEF GovInv, TypeOK, Committed, Proposal, DelayedRoles, EmergencyTransfer!vars
<1>1. ASSUME NEW caller \in Addresses, NEW role \in DelayedRoles, NEW a \in Addresses,
             CommitTransferOwnership(caller, role, a)
      PROVE  EmergencyTransfer!Propose(a) \/ UNCHANGED EmergencyTransfer!vars
  <2>1. CASE role = "EmergencyAdmin"
    <3>1. /\ deadline'["EmergencyAdmin"] = clock + AdminActionsDelay
          /\ future'["EmergencyAdmin"] = a
      BY <1>1, <2>1 DEF CommitTransferOwnership
    <3>2. deadline'["EmergencyAdmin"] # 0 /\ deadline'["EmergencyAdmin"] - AdminActionsDelay = clock
      BY <3>1
    <3> QED
      BY <1>1, <2>1, <3>1, <3>2 DEF CommitTransferOwnership, EmergencyTransfer!Propose
  <2>2. CASE role # "EmergencyAdmin"
    BY <1>1, <2>2 DEF CommitTransferOwnership
  <2> QED
    BY <2>1, <2>2
<1>2. ASSUME NEW caller \in Addresses, NEW role \in DelayedRoles,
             ApplyTransferOwnership(caller, role)
      PROVE  EmergencyTransfer!Enact \/ UNCHANGED EmergencyTransfer!vars
  <2>1. CASE role = "EmergencyAdmin"
    <3> DEFINE p == [value |-> future["EmergencyAdmin"],
                     since |-> deadline["EmergencyAdmin"] - AdminActionsDelay]
    <3>1. p \in Proposal(deadline["EmergencyAdmin"], future["EmergencyAdmin"], AdminActionsDelay)
      BY <1>2, <2>1 DEF ApplyTransferOwnership
    <3>2. holder["EmergencyAdmin"] = Nobody \/ clock >= p.since + AdminActionsDelay
      BY <1>2, <2>1 DEF ApplyTransferOwnership
    <3>3. holder'["EmergencyAdmin"] = p.value /\ deadline'["EmergencyAdmin"] = 0 /\ UNCHANGED clock
      BY <1>2, <2>1 DEF ApplyTransferOwnership
    <3> QED
      BY <3>1, <3>2, <3>3 DEF EmergencyTransfer!Enact
  <2>2. CASE role # "EmergencyAdmin"
    BY <1>2, <2>2 DEF ApplyTransferOwnership
  <2> QED
    BY <2>1, <2>2
<1>3. ASSUME NEW caller \in Addresses, NEW role \in DelayedRoles,
             RevertTransferOwnership(caller, role)
      PROVE  EmergencyTransfer!Cancel \/ UNCHANGED EmergencyTransfer!vars
  BY <1>3 DEF RevertTransferOwnership, EmergencyTransfer!Cancel
<1>4. CASE Tick
  <2>1. EmergencyTransfer!Tick
    BY <1>4 DEF Tick, EmergencyTransfer!Tick, roleVars
  <2> QED
    BY <2>1 DEF EmergencyTransfer!Next
<1>5. CASE UNCHANGED <<roleVars, clock>>
  BY <1>5 DEF roleVars
<1> QED
  BY <1>1, <1>2, <1>3, <1>4, <1>5
     DEF Next, EmergencyTransfer!Next, vars, roleVars, SetPrivilegedAddrs,
         CommitUpgrade, ApplyUpgrade, RevertUpgrade, SetEmergencyMode

\* The same of the EmergencyAdmin role, which waives the delay of upgrades; the
\* first address given to it needs no delay (transfer.rs, has_value).
THEOREM EmergencyTransferDelayed == Spec => EmergencyAdminDelayed
BY GovInvariant, EmergencyInit, EmergencyStep, PTL
   DEF Spec, EmergencyAdminDelayed, EmergencyTransfer!Spec

-----------------------------------------------------------------------------
(* Upgrades                                                                *)

LEMMA UpgradeInit == Init => Upgrade!Init
BY DEF Init, Upgrade!Init, Proposal

LEMMA UpgradeStep ==
    GovInv /\ [Next]_vars => [Upgrade!Next]_(Upgrade!vars)
<1> USE GovernanceAssumption DEF GovernanceAssumption
<1> SUFFICES ASSUME GovInv, [Next]_vars
             PROVE  Upgrade!Next \/ UNCHANGED Upgrade!vars
  OBVIOUS
<1> USE DEF GovInv, TypeOK, Committed, Proposal
<1>1. ASSUME NEW caller \in Addresses, NEW p \in Packages, CommitUpgrade(caller, p)
      PROVE  Upgrade!Propose(p)
  <2>1. upgradeDeadline' # 0 /\ upgradeDeadline' - UpgradeDelay = clock
    BY <1>1 DEF CommitUpgrade
  <2> QED
    BY <1>1, <2>1 DEF CommitUpgrade, Upgrade!Propose
<1>2. ASSUME NEW caller \in Addresses, ApplyUpgrade(caller)
      PROVE  Upgrade!Enact
  <2> DEFINE p == [value |-> futureWasm, since |-> upgradeDeadline - UpgradeDelay]
  <2>1. p \in Proposal(upgradeDeadline, futureWasm, UpgradeDelay)
    BY <1>2 DEF ApplyUpgrade
  <2>2. emergencyMode \/ clock >= p.since + UpgradeDelay
    BY <1>2 DEF ApplyUpgrade
  <2>3. installed' = p.value /\ upgradeDeadline' = 0 /\ UNCHANGED <<clock, emergencyMode>>
    BY <1>2 DEF ApplyUpgrade
  <2> QED
    BY <2>1, <2>2, <2>3 DEF Upgrade!Enact
<1>3. ASSUME NEW caller \in Addresses, RevertUpgrade(caller)
      PROVE  Upgrade!Cancel
  <2>1. upgradeDeadline' = 0 /\ UNCHANGED <<installed, clock, emergencyMode>>
    BY <1>3 DEF RevertUpgrade
  <2> QED
    BY <2>1 DEF Upgrade!Cancel
<1>4. ASSUME NEW caller \in Addresses, NEW value \in BOOLEAN,
             SetEmergencyMode(caller, value)
      PROVE  Upgrade!Waive
  BY <1>4 DEF SetEmergencyMode, Upgrade!Waive, upgradeVars
<1>5. CASE Tick
  <2>1. Upgrade!Tick
    BY <1>5 DEF Tick, Upgrade!Tick, upgradeVars
  <2> QED
    BY <2>1 DEF Upgrade!Next
<1>6. CASE UNCHANGED <<installed, upgradeDeadline, futureWasm, emergencyMode, clock>>
  <2>1. UNCHANGED Upgrade!vars
    BY <1>6 DEF Upgrade!vars
  <2> QED
    BY <2>1
<1>7. ASSUME NEW caller \in Addresses, NEW role \in DelayedRoles, NEW a \in Addresses,
             \/ CommitTransferOwnership(caller, role, a)
             \/ ApplyTransferOwnership(caller, role)
             \/ RevertTransferOwnership(caller, role)
      PROVE  UNCHANGED <<installed, upgradeDeadline, futureWasm, emergencyMode, clock>>
  BY <1>7 DEF CommitTransferOwnership, ApplyTransferOwnership,
              RevertTransferOwnership, upgradeVars
<1>8. ASSUME NEW caller \in Addresses, NEW addrs \in OneEach,
             SetPrivilegedAddrs(caller, addrs)
      PROVE  UNCHANGED <<installed, upgradeDeadline, futureWasm, emergencyMode, clock>>
  BY <1>8 DEF SetPrivilegedAddrs, upgradeVars
<1>9. CASE UNCHANGED vars
  BY <1>6, <1>9 DEF vars
<1>10. ASSUME Next PROVE Upgrade!Next \/ UNCHANGED Upgrade!vars
  <2> USE DEF Upgrade!Next
  <2> SUFFICES ASSUME ~Tick PROVE Upgrade!Next \/ UNCHANGED Upgrade!vars
    BY <1>5
  <2>1. PICK caller \in Addresses :
          \/ \E role \in DelayedRoles :
              \/ \E a \in Addresses : CommitTransferOwnership(caller, role, a)
              \/ ApplyTransferOwnership(caller, role)
              \/ RevertTransferOwnership(caller, role)
          \/ \E addrs \in OneEach : SetPrivilegedAddrs(caller, addrs)
          \/ \E p \in Packages : CommitUpgrade(caller, p)
          \/ ApplyUpgrade(caller)
          \/ RevertUpgrade(caller)
          \/ \E value \in BOOLEAN : SetEmergencyMode(caller, value)
    BY <1>10 DEF Next
  <2> QED
    BY <2>1, <1>1, <1>2, <1>3, <1>4, <1>6, <1>7, <1>8
<1> QED
  BY <1>9, <1>10

\* The pool, its share token and its gauges only ever run a package that was
\* committed as one and stayed pending for the delay, unless the emergency
\* admin has waived it (upgrade/src/lib.rs).
THEOREM UpgradesDelayed == Spec => UpgradeDelayed
BY GovInvariant, UpgradeInit, UpgradeStep, PTL
   DEF Spec, UpgradeDelayed, Upgrade!Spec
=============================================================================
