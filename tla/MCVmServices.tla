---------------------------- MODULE MCVmServices ----------------------------
(***************************************************************************)
(* The parts of a node that look after its VMs and their addresses, each   *)
(* checked on its own small instance.  They are modelled as sharing no     *)
(* variables: a behaviour is about the one that focus names.               *)
(***************************************************************************)
EXTENDS VmLifecycle, VmHealth, IpPools

MCRange == [p \in {1, 2} |-> IF p = 1 THEN {1, 2} ELSE {3}]
MCGateway == [p \in {1, 2} |-> IF p = 1 THEN 0 ELSE 3]
MCHint == [p \in {1, 2} |-> IF p = 1 THEN "zone" ELSE "none"]

VARIABLE focus   \* the component that this behaviour is about

vars == <<focus, vmVars, healthVars, ipVars>>

VmPart(A) ==
    /\ focus = "vm" /\ A
    /\ UNCHANGED <<focus, healthVars, ipVars>>
HealthPart(A) ==
    /\ focus = "health" /\ A
    /\ UNCHANGED <<focus, vmVars, ipVars>>
IpPart(A) ==
    /\ focus = "ip" /\ A
    /\ UNCHANGED <<focus, vmVars, healthVars>>

Init ==
    /\ focus \in {"vm", "health", "ip"}
    /\ VmInit
    /\ HealthInit
    /\ IpInit
    /\ focus # "ip" => pool = [p \in Pools |-> NoPool]

Next ==
    \/ VmPart(VmNext)
    \/ HealthPart(HealthNext)
    \/ IpPart(IpNext)

\* The steps that the code's scheduling is sure to take.
Fairness ==
    /\ WF_vars(HealthPart(HealthTick))
    /\ WF_vars(HealthPart(DropClone))
    /\ WF_vars(HealthPart(SchedulerStep))
    /\ \A c \in HealthCallers : WF_vars(HealthPart(CallStep(c)))
    /\ \A t \in Recoveries : WF_vars(HealthPart(TaskStep(t)))

Spec == Init /\ [][Next]_vars /\ Fairness

\* The variables of every part have their types.
VmTypesOK ==
    /\ VmTypeOK
    /\ HealthTypeOK
    /\ IpTypeOK
=============================================================================
