--------------------------- MODULE MCStateMachine ---------------------------
EXTENDS StateMachine, SequencesExt
CONSTANTS v1, n1, n2, t1, k1
VmCommands ==
    {[op |-> "CreateVm", vm |-> v1, node |-> n1], [op |-> "DeleteVm", vm |-> v1],
     [op |-> "StartVm", vm |-> v1],
     [op |-> "MigrateVm", vm |-> v1, node |-> n2],
     [op |-> "UpdateVmStatus", vm |-> v1, status |-> "Running", node |-> n1]}
WorkerCommands ==
    {[op |-> "RegisterWorker", node |-> n1], [op |-> "RemoveWorker", node |-> n1],
     [op |-> "UpdateWorkerStatus", node |-> n1, status |-> "Offline"],
     [op |-> "SetTenantQuota", tenant |-> k1], [op |-> "AllocateIp"]}
TaskCommands ==
    {[op |-> "AssignTask", task |-> t1, node |-> n1],
     [op |-> "ReassignTask", task |-> t1, node |-> n2],
     [op |-> "CompleteTask", task |-> t1]}
\* Without UpdateTenantUsage: every restart adds its delta again, without a bound.
AllFamilies == VmCommands \union WorkerCommands \union TaskCommands
QuotaCommands == {[op |-> "SetTenantQuota", tenant |-> k1], [op |-> "StartVm", vm |-> v1]}

\* The commands of one log are about VMs, about workers or about tasks: they
\* touch different tables.
OneFamily ==
    \E F \in {VmCommands, WorkerCommands, TaskCommands} : ToSet(FlattenSeq(log)) \subseteq F
=============================================================================
