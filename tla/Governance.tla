----------------------------- MODULE Governance -----------------------------
(***************************************************************************)
(* Who governs a pool and what runs in it: the crates access_control/src   *)
(* and upgrade/src as the pool contract (liquidity_pool/src/contract.rs)   *)
(* exposes them.  The Admin and EmergencyAdmin roles change hands, and the *)
(* code is replaced, by a commit, a delay and an apply; the other roles    *)
(* are set at once.  The emergency admin can waive the delay of upgrades.  *)
(*                                                                         *)
(* The upgraded code is taken to keep this part of the contract.           *)
(*                                                                         *)
(* An operator whose name starts with Bug is the next one with a plausible *)
(* mistake, for the mutation runs; nothing refers to it.                   *)
(***************************************************************************)
EXTENDS Naturals

CONSTANTS
    Addresses, Nobody,
    Packages,           \* wasm hashes of the pool, its share token, its gauges
    InstantRoles,       \* the roles that set_privileged_addrs sets
    AdminActionsDelay, UpgradeDelay,
    MaxClock            \* bound on the time explored

DelayedRoles == {"Admin", "EmergencyAdmin"}
Parts == {"pool", "token", "gauge"}

ASSUME GovernanceAssumption ==
    /\ Nobody \notin Addresses
    /\ Addresses # {}
    /\ \A p \in Packages : p = [part \in Parts |-> p[part]]
    /\ Nobody \notin Packages
    /\ AdminActionsDelay \in Nat \ {0}
    /\ UpgradeDelay \in Nat \ {0}
    /\ MaxClock \in Nat

VARIABLES
    holder,           \* the address with each delayed role, or Nobody
    deadline,         \* when its transfer may be applied, 0 for no transfer
    future,           \* the address last committed for it; never cleared
    instant,          \* the addresses with each of the other roles
    installed,        \* the code of each part
    upgradeDeadline,  \* when the upgrade may be applied, 0 for no upgrade
    futureWasm,       \* the code last committed for each part; never cleared
    emergencyMode,
    clock

roleVars    == <<holder, deadline, future>>
upgradeVars == <<installed, upgradeDeadline, futureWasm>>
vars == <<holder, deadline, future, instant, installed, upgradeDeadline,
          futureWasm, emergencyMode, clock>>

TypeOK ==
    /\ holder \in [DelayedRoles -> Addresses \cup {Nobody}]
    /\ holder["Admin"] # Nobody
    /\ deadline \in [DelayedRoles -> Nat]
    /\ future \in [DelayedRoles -> Addresses \cup {Nobody}]
    /\ instant \in [InstantRoles -> SUBSET Addresses]
    /\ installed \in Packages
    /\ upgradeDeadline \in Nat
    /\ futureWasm \in Packages \cup {Nobody}
    /\ emergencyMode \in BOOLEAN
    /\ clock \in Nat

\* A pool has an emergency admin from the start, the router has none yet.
Init ==
    /\ holder \in [DelayedRoles -> Addresses \cup {Nobody}]
    /\ holder["Admin"] # Nobody
    /\ deadline = [r \in DelayedRoles |-> 0]
    /\ future = [r \in DelayedRoles |-> Nobody]
    /\ instant = [r \in InstantRoles |-> {}]
    /\ installed \in Packages
    /\ upgradeDeadline = 0
    /\ futureWasm = Nobody
    /\ emergencyMode = FALSE
    /\ clock = 0

-----------------------------------------------------------------------------
(* Roles                                                                   *)

BugReplacesPending(caller, role, address) ==
    /\ caller = holder["Admin"]
    /\ deadline' = [deadline EXCEPT
                        ![role] = IF @ = 0 THEN clock + AdminActionsDelay ELSE @]
    /\ future' = [future EXCEPT ![role] = address]
    /\ UNCHANGED <<holder, instant, upgradeVars, emergencyMode, clock>>
BugSharesFutureKey(caller, role, address) ==
    /\ caller = holder["Admin"]
    /\ deadline[role] = 0
    /\ deadline' = [deadline EXCEPT ![role] = clock + AdminActionsDelay]
    /\ future' = [future EXCEPT !["Admin"] = address]
    /\ UNCHANGED <<holder, instant, upgradeVars, emergencyMode, clock>>
CommitTransferOwnership(caller, role, address) ==
    /\ caller = holder["Admin"]
    /\ deadline[role] = 0
    /\ deadline' = [deadline EXCEPT ![role] = clock + AdminActionsDelay]
    /\ future' = [future EXCEPT ![role] = address]
    /\ UNCHANGED <<holder, instant, upgradeVars, emergencyMode, clock>>

BugIgnoresNoAction(caller, role) ==
    /\ caller = holder["Admin"]
    /\ holder[role] = Nobody \/ clock >= deadline[role]
    /\ future[role] # Nobody
    /\ deadline' = [deadline EXCEPT ![role] = 0]
    /\ holder' = [holder EXCEPT ![role] = future[role]]
    /\ UNCHANGED <<future, instant, upgradeVars, emergencyMode, clock>>
ApplyTransferOwnership(caller, role) ==
    /\ caller = holder["Admin"]
    /\ holder[role] = Nobody \/ clock >= deadline[role]
    /\ deadline[role] # 0
    /\ future[role] # Nobody
    /\ deadline' = [deadline EXCEPT ![role] = 0]
    /\ holder' = [holder EXCEPT ![role] = future[role]]
    /\ UNCHANGED <<future, instant, upgradeVars, emergencyMode, clock>>

RevertTransferOwnership(caller, role) ==
    /\ caller = holder["Admin"]
    /\ deadline' = [deadline EXCEPT ![role] = 0]
    /\ UNCHANGED <<holder, future, instant, upgradeVars, emergencyMode, clock>>

\* All the other roles at once; each but EmergencyPauseAdmin gets one address.
SetPrivilegedAddrs(caller, addrs) ==
    /\ caller = holder["Admin"]
    /\ instant' = addrs
    /\ UNCHANGED <<roleVars, upgradeVars, emergencyMode, clock>>

-----------------------------------------------------------------------------
(* Upgrades                                                                *)

CommitUpgrade(caller, package) ==
    /\ caller = holder["Admin"]
    /\ upgradeDeadline = 0
    /\ upgradeDeadline' = clock + UpgradeDelay
    /\ futureWasm' = package
    /\ UNCHANGED <<roleVars, instant, installed, emergencyMode, clock>>

BugLeavesDeadline(caller) ==
    /\ caller = holder["Admin"]
    /\ emergencyMode \/ clock >= upgradeDeadline
    /\ upgradeDeadline # 0
    /\ futureWasm # Nobody
    /\ installed' = futureWasm
    /\ UNCHANGED <<roleVars, instant, upgradeDeadline, futureWasm, emergencyMode, clock>>
ApplyUpgrade(caller) ==
    /\ caller = holder["Admin"]
    /\ emergencyMode \/ clock >= upgradeDeadline
    /\ upgradeDeadline # 0
    /\ futureWasm # Nobody
    /\ upgradeDeadline' = 0
    /\ installed' = futureWasm
    /\ UNCHANGED <<roleVars, instant, futureWasm, emergencyMode, clock>>

RevertUpgrade(caller) ==
    /\ caller = holder["Admin"]
    /\ upgradeDeadline' = 0
    /\ UNCHANGED <<roleVars, instant, installed, futureWasm, emergencyMode, clock>>

SetEmergencyMode(caller, value) ==
    /\ caller = holder["EmergencyAdmin"]
    /\ emergencyMode' = value
    /\ UNCHANGED <<roleVars, instant, upgradeVars, clock>>

Tick ==
    /\ clock < MaxClock
    /\ clock' = clock + 1
    /\ UNCHANGED <<roleVars, instant, upgradeVars, emergencyMode>>

-----------------------------------------------------------------------------
OneEach ==
    {f \in [InstantRoles -> SUBSET Addresses] :
        \A r \in InstantRoles \ {"EmergencyPauseAdmin"} : \E a \in Addresses : f[r] = {a}}

Next ==
    \/ \E caller \in Addresses :
        \/ \E role \in DelayedRoles :
            \/ \E a \in Addresses : CommitTransferOwnership(caller, role, a)
            \/ ApplyTransferOwnership(caller, role)
            \/ RevertTransferOwnership(caller, role)
        \/ \E addrs \in OneEach : SetPrivilegedAddrs(caller, addrs)
        \/ \E p \in Packages : CommitUpgrade(caller, p)
        \/ ApplyUpgrade(caller)
        \/ RevertUpgrade(caller)
        \/ \E value \in BOOLEAN : SetEmergencyMode(caller, value)
    \/ Tick

Spec == Init /\ [][Next]_vars

-----------------------------------------------------------------------------
(* The promise, and how the state of the contract represents it: there is  *)
(* a proposal exactly while the deadline is not 0, whatever the address or *)
(* the code that an earlier commit left behind.                            *)

Proposal(end, value, delay) ==
    IF end = 0 THEN {} ELSE {[value |-> value, since |-> end - delay]}

AdminTransfer ==
    INSTANCE DelayedAction WITH
        Values <- Addresses,
        Delay <- AdminActionsDelay,
        active <- holder["Admin"],
        pending <- Proposal(deadline["Admin"], future["Admin"], AdminActionsDelay),
        waived <- FALSE

EmergencyTransfer ==
    INSTANCE DelayedAction WITH
        Values <- Addresses,
        Delay <- AdminActionsDelay,
        active <- holder["EmergencyAdmin"],
        pending <- Proposal(deadline["EmergencyAdmin"], future["EmergencyAdmin"], AdminActionsDelay),
        waived <- FALSE

Upgrade ==
    INSTANCE DelayedAction WITH
        Values <- Packages,
        Delay <- UpgradeDelay,
        active <- installed,
        pending <- Proposal(upgradeDeadline, futureWasm, UpgradeDelay),
        waived <- emergencyMode

\* No sequence of commits, reverts and applies, by an old admin or by a new
\* one, gives a role to an address that was not the pending one for the whole
\* delay (contract.rs, commit_transfer_ownership and its siblings).
AdminDelayed == AdminTransfer!Spec

\* The same of the emergency admin, whose role may be empty at first.
EmergencyAdminDelayed == EmergencyTransfer!Spec

\* The same of the code of the pool, its token and its gauges, which are
\* replaced together, except while the emergency admin waives the delay.
UpgradeDelayed == Upgrade!Spec

\* Time goes on; nobody has to call anything.
FairSpec == Spec /\ WF_vars(Tick)

\* Whatever is committed and neither reverted nor applied can be applied by
\* the admin of the day from some moment on and for good, in whatever state it
\* was committed and whatever is done to the other role, to the upgrade and to
\* the emergency mode meanwhile.
CommitmentsMature ==
    \A end \in 1..MaxClock :
        /\ \A role \in DelayedRoles :
             deadline[role] = end ~>
                \/ deadline[role] # end
                \/ [](deadline[role] = end
                        => ENABLED ApplyTransferOwnership(holder["Admin"], role))
        /\ upgradeDeadline = end ~>
                \/ upgradeDeadline # end
                \/ [](upgradeDeadline = end => ENABLED ApplyUpgrade(holder["Admin"]))
=============================================================================
