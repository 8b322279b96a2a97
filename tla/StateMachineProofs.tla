------------------------- MODULE StateMachineProofs -------------------------
(***************************************************************************)
(* For every set of nodes, VMs, tasks, tenants and commands, any log, any   *)
(* batch size and any number of crashes and panics: the tables stay         *)
(* well-formed, the rows of a worker agree, and a node that replayed its    *)
(* log over what it had already applied ends in what the log means.         *)
(***************************************************************************)
EXTENDS StateMachine, WellFoundedInduction, TLAPS

\* Writing or removing a row of VM_STATE_TABLE (apply_vm_command and
\* apply_update_vm_status do nothing else) keeps the shape of the tables.
LEMMA RowChange ==
    ASSUME NEW d \in Tables, NEW v \in Vms,
           NEW r \in [status : VmStatus, node : Nodes] \union {NoVm}
    PROVE  /\ [d EXCEPT !.vm[v] = r] \in Tables
           /\ RowsAgree(d) => RowsAgree([d EXCEPT !.vm[v] = r])
<1>1. [d EXCEPT !.vm[v] = r] \in Tables
  BY DEF Tables
<1>2. RowsAgree(d) => RowsAgree([d EXCEPT !.vm[v] = r])
  BY DEF RowsAgree, Tables
<1>3. QED
  BY <1>1, <1>2

\* Every apply_* method keeps the shape of the tables and the agreement of the
\* rows of a worker; this is one case for each of the commands.
LEMMA ApplyKeepsTables ==
    ASSUME NEW d \in Tables, NEW c \in Commands
    PROVE  Apply(d, c) \in Tables /\ (RowsAgree(d) => RowsAgree(Apply(d, c)))
<1>0. c \in AllCommands
  BY CommandsAssumption
<1>1. CASE c \in [op : {"AssignTask"}, task : Tasks, node : Nodes]
  BY <1>1 DEF Apply, AssignTask, Tables, RowsAgree
<1>2. CASE c \in [op : {"CompleteTask"}, task : Tasks]
  BY <1>2 DEF Apply, CompleteTask, Tables, RowsAgree
<1>3. CASE c \in [op : {"ReassignTask"}, task : Tasks, node : Nodes]
  BY <1>3 DEF Apply, ReassignTask, Tables, RowsAgree
<1>4. CASE c \in [op : {"RegisterWorker"}, node : Nodes]
  <2>1. Apply(d, c) = RegisterWorker(d, c) /\ c.node \in Nodes
    BY <1>4 DEF Apply
  <2>2. RegisterWorker(d, c) \in Tables
    BY <2>1, Zenon DEF RegisterWorker, Tables, Online, WorkerStatus
  <2>3. RowsAgree(d) => RowsAgree(RegisterWorker(d, c))
    BY <2>1 DEF RegisterWorker, Tables, RowsAgree, Online, None
  <2>4. QED
    BY <2>1, <2>2, <2>3 DEF RowsAgree
<1>5. CASE c \in [op : {"UpdateWorkerStatus"}, node : Nodes, status : WorkerStatus]
  <2>1. Apply(d, c) = UpdateWorkerStatus(d, c) /\ c.node \in Nodes /\ c.status \in WorkerStatus
    BY <1>5 DEF Apply
  <2>2. UpdateWorkerStatus(d, c) \in Tables
    BY <2>1 DEF UpdateWorkerStatus, Tables
  <2>3. RowsAgree(d) => RowsAgree(UpdateWorkerStatus(d, c))
    BY <2>1 DEF UpdateWorkerStatus, Tables, RowsAgree, WorkerStatus, None
  <2>4. QED
    BY <2>1, <2>2, <2>3 DEF RowsAgree
<1>6. CASE c \in [op : {"RemoveWorker"}, node : Nodes]
  <2>1. Apply(d, c) = RemoveWorker(d, c) /\ c.node \in Nodes
    BY <1>6 DEF Apply
  <2>2. RemoveWorker(d, c) \in Tables
    BY <2>1 DEF RemoveWorker, Tables
  <2>3. RowsAgree(d) => RowsAgree(RemoveWorker(d, c))
    BY <2>1 DEF RemoveWorker, Tables, RowsAgree
  <2>4. QED
    BY <2>1, <2>2, <2>3 DEF RowsAgree
<1>7. CASE c \in [op : {"CreateVm", "MigrateVm"}, vm : Vms, node : Nodes]
  <2>1. /\ c.vm \in Vms /\ c.node \in Nodes
        /\ Apply(d, c) = CreateVm(d, c) \/ Apply(d, c) = MigrateVm(d, c)
    BY <1>7 DEF Apply
  <2>2. /\ VmRow("Creating", c.node) \in [status : VmStatus, node : Nodes]
        /\ VmRow("Stopping", c.node) \in [status : VmStatus, node : Nodes]
    BY <2>1 DEF VmRow, VmStatus
  <2>3. CreateVm(d, c) \in Tables /\ (RowsAgree(d) => RowsAgree(CreateVm(d, c)))
    BY <2>1, <2>2, RowChange DEF CreateVm
  <2>4. MigrateVm(d, c) \in Tables /\ (RowsAgree(d) => RowsAgree(MigrateVm(d, c)))
    BY <2>1, <2>2, RowChange DEF MigrateVm
  <2>5. QED
    BY <2>1, <2>3, <2>4 DEF RowsAgree
<1>8. CASE c \in [op : {"StartVm", "StopVm", "DeleteVm"}, vm : Vms]
  <2>1. /\ c.vm \in Vms
        /\ \/ Apply(d, c) = UpdateVmStatusInternal(d, c, "Starting")
           \/ Apply(d, c) = UpdateVmStatusInternal(d, c, "Stopping")
           \/ Apply(d, c) = DeleteVm(d, c)
    BY <1>8 DEF Apply
  <2>2. ASSUME NEW s \in VmStatus
        PROVE  /\ UpdateVmStatusInternal(d, c, s) \in Tables
               /\ RowsAgree(d) => RowsAgree(UpdateVmStatusInternal(d, c, s))
    <3>1. CASE d.vm[c.vm] = NoVm
      BY <3>1 DEF UpdateVmStatusInternal
    <3>2. CASE d.vm[c.vm] # NoVm
      <4>1. d.vm[c.vm] \in [status : VmStatus, node : Nodes]
        BY <2>1, <3>2 DEF Tables
      <4>2. [d.vm[c.vm] EXCEPT !.status = s] \in [status : VmStatus, node : Nodes]
        BY <4>1
      <4>3. UpdateVmStatusInternal(d, c, s)
              = [d EXCEPT !.vm[c.vm] = [d.vm[c.vm] EXCEPT !.status = s]]
        BY <3>2, <2>1 DEF UpdateVmStatusInternal, Tables
      <4>4. QED
        BY <2>1, <4>2, <4>3, RowChange
    <3>3. QED
      BY <3>1, <3>2
  <2>3. DeleteVm(d, c) \in Tables /\ (RowsAgree(d) => RowsAgree(DeleteVm(d, c)))
    BY <2>1, RowChange DEF DeleteVm
  <2>4. QED
    BY <2>1, <2>2, <2>3 DEF RowsAgree, VmStatus
<1>9. CASE c \in [op : {"UpdateVmStatus"}, vm : Vms, status : VmStatus, node : Nodes]
  <2>1. /\ Apply(d, c) = UpdateVmStatus(d, c)
        /\ c.vm \in Vms /\ VmRow(c.status, c.node) \in [status : VmStatus, node : Nodes]
    BY <1>9 DEF Apply, VmRow
  <2>2. QED
    BY <2>1, RowChange DEF UpdateVmStatus
<1>10. CASE c \in [op : {"SetTenantQuota", "RemoveTenantQuota"}, tenant : Tenants]
  BY <1>10 DEF Apply, SetTenantQuota, RemoveTenantQuota, Tables, RowsAgree
<1>11. CASE c \in [op : {"UpdateTenantUsage"}, tenant : Tenants, delta : Int]
  <2>1. Apply(d, c) = UpdateTenantUsage(d, c) /\ c.tenant \in Tenants /\ c.delta \in Int
    BY <1>11 DEF Apply
  <2>2. UpdateTenantUsage(d, c) \in Tables
    BY <2>1 DEF UpdateTenantUsage, Tables
  <2>3. RowsAgree(d) => RowsAgree(UpdateTenantUsage(d, c))
    BY <2>1 DEF UpdateTenantUsage, Tables, RowsAgree
  <2>4. QED
    BY <2>1, <2>2, <2>3 DEF RowsAgree
<1>12. CASE c \in [op : {"AllocateIp", "IpPoolCommand", "ReleaseVmIps", "OtherVmCommand"}]
  BY <1>12 DEF Apply, Tables
<1>13. QED
  BY <1>0, <1>1, <1>2, <1>3, <1>4, <1>5, <1>6, <1>7, <1>8, <1>9, <1>10, <1>11, <1>12
     DEF AllCommands

\* The invariant of the induction.  TypeOK is needed for WorkerRowsAgree: it says
\* that the cursor stands on a command, and what the tables hold.
Inv == TypeOK /\ WorkerRowsAgree

\* The command at the cursor is one of Commands.
LEMMA CursorInLog ==
    ASSUME TypeOK, next <= Len(log)
    PROVE  log[next][sub + 1] \in Commands
<1>1. next \in 1..Len(log) /\ log \in Seq(Seq(Commands) \ {<<>>})
  BY DEF TypeOK
<1>2. log[next] \in Seq(Commands)
  BY <1>1
<1>3. sub + 1 \in 1..Len(log[next])
  BY <1>2 DEF TypeOK
<1>4. QED
  BY <1>2, <1>3

\* The empty database with its bootstrap worker is well-formed.
LEMMA InitInv == Init => Inv
<1>1. ASSUME Init
      PROVE  db \in Tables /\ WorkerRowsAgree
  <2>1. /\ db.task = {} /\ db.assigned = [t \in Tasks |-> None] /\ db.result = {}
        /\ db.worker = {BootKey} /\ db.wstatus = [n \in Nodes |-> None] /\ db.topology = {}
        /\ db.vm = [v \in Vms |-> NoVm] /\ db.quota = {} /\ db.usage = [t \in Tenants |-> 0]
    BY <1>1 DEF Init, EmptyTables
  <2>2. db = [task |-> db.task, assigned |-> db.assigned, result |-> db.result,
              worker |-> db.worker, wstatus |-> db.wstatus, topology |-> db.topology,
              vm |-> db.vm, quota |-> db.quota, usage |-> db.usage]
    BY <1>1 DEF Init, EmptyTables
  <2>3. /\ db.assigned \in [Tasks -> Nodes \union {None}]
        /\ db.wstatus \in [Nodes -> WorkerStatus \union {None}]
        /\ db.vm \in [Vms -> [status : VmStatus, node : Nodes] \union {NoVm}]
        /\ db.usage \in [Tenants -> Nat]
    BY <2>1
  <2>4. db \in Tables
    BY <2>1, <2>2, <2>3 DEF Tables
  <2>5. WorkerRowsAgree
    BY <2>1, BootKeyAssumption DEF WorkerRowsAgree, RowsAgree
  <2>6. QED
    BY <2>4, <2>5
<1>2. Init => log \in Seq(Seq(Commands) \ {<<>>}) /\ Len(log) = 0
  BY DEF Init
<1>3. QED
  BY <1>1, <1>2 DEF Init, Inv, TypeOK

\* Every step keeps the tables well-formed and the rows of a worker in agreement.
LEMMA NextInv == Inv /\ [Next]_vars => Inv'
<1>1. SUFFICES ASSUME Inv, [Next]_vars
               PROVE  Inv'
  OBVIOUS
<1>2. ASSUME NEW n \in 1..MaxBatch, NEW e \in [1..n -> Commands], Commit(e)
      PROVE  Inv'
  <2>1. e \in Seq(Commands) /\ Len(e) = n /\ n \in Nat /\ n > 0 /\ e # <<>>
    BY StateMachineBounds
  <2>2. log \in Seq(Seq(Commands) \ {<<>>}) /\ log' = Append(log, e)
    BY <1>1, <1>2 DEF Inv, TypeOK, Commit
  <2>3. log' \in Seq(Seq(Commands) \ {<<>>}) /\ Len(log') = Len(log) + 1
    BY <2>1, <2>2
  <2>4. IF next <= Len(log') THEN sub < Len(log'[next]) ELSE sub = 0
    <3>1. CASE next <= Len(log)
      BY <3>1, <1>1, <2>2 DEF Inv, TypeOK
    <3>2. CASE next > Len(log)
      BY <3>2, <1>1, <2>1, <2>2 DEF Inv, TypeOK
    <3>3. QED
      BY <3>1, <3>2, <1>1, <2>2 DEF Inv, TypeOK
  <2>5. QED
    BY <1>1, <1>2, <2>3, <2>4 DEF Inv, TypeOK, Commit, WorkerRowsAgree
<1>3. CASE ApplyNext
  <2>1. log[next][sub + 1] \in Commands /\ next <= Len(log)
    BY <1>1, <1>3, CursorInLog DEF Inv, ApplyNext
  <2>2. db' \in Tables /\ RowsAgree(db')
    BY <1>1, <1>3, <2>1, ApplyKeepsTables DEF Inv, TypeOK, ApplyNext, WorkerRowsAgree
  <2>3. log' = log /\ log \in Seq(Seq(Commands) \ {<<>>}) /\ next \in Nat \ {0}
        /\ sub \in Nat /\ sub < Len(log[next]) /\ Len(log[next]) \in Nat
    BY <1>1, <1>3, <2>1 DEF Inv, TypeOK, ApplyNext
  <2>4. ASSUME next + 1 <= Len(log)
        PROVE  0 < Len(log[next + 1])
    <3>1. log[next + 1] \in Seq(Commands) \ {<<>>}
      BY <2>3, <2>4
    <3>2. QED
      BY <3>1
  <2>5. /\ next' \in Nat \ {0} /\ sub' \in Nat
        /\ IF next' <= Len(log) THEN sub' < Len(log[next']) ELSE sub' = 0
    BY <1>1, <1>3, <2>1, <2>3, <2>4 DEF Inv, TypeOK, ApplyNext
  <2>6. QED
    BY <1>1, <1>3, <2>2, <2>3, <2>5 DEF Inv, TypeOK, ApplyNext, WorkerRowsAgree
<1>4. CASE ApplyPanics
  <2>1. log[next][sub + 1] \in Commands
    BY <1>1, <1>4, CursorInLog DEF Inv, ApplyPanics
  <2>2. db' \in Tables /\ RowsAgree(db')
    BY <1>1, <1>4, <2>1, ApplyKeepsTables DEF Inv, TypeOK, ApplyPanics, WorkerRowsAgree
  <2>3. QED
    BY <1>1, <1>4, <2>2 DEF Inv, TypeOK, ApplyPanics, WorkerRowsAgree
<1>5. CASE Compact
  BY <1>1, <1>5 DEF Inv, TypeOK, Compact, WorkerRowsAgree
<1>6. CASE Crash
  BY <1>1, <1>6 DEF Inv, TypeOK, Crash, WorkerRowsAgree
<1>7. CASE Restart
  <2>1. db' \in Tables /\ RowsAgree(db')
    BY <1>1, <1>7, BootKeyAssumption DEF Inv, TypeOK, Restart, WorkerRowsAgree, Tables, RowsAgree
  <2>2. IF first <= Len(log) THEN 0 < Len(log[first]) ELSE TRUE
    <3>1. ASSUME first <= Len(log)
          PROVE  log[first] \in Seq(Commands) \ {<<>>}
      BY <1>1, <3>1 DEF Inv, TypeOK
    <3>2. QED
      BY <3>1
  <2>3. QED
    BY <1>1, <1>7, <2>1, <2>2 DEF Inv, TypeOK, Restart, WorkerRowsAgree
<1>8. CASE UNCHANGED vars
  BY <1>1, <1>8 DEF Inv, TypeOK, WorkerRowsAgree, vars
<1>9. QED
  BY <1>1, <1>2, <1>3, <1>4, <1>5, <1>6, <1>7, <1>8 DEF Next

\* In every state, during replay and between the sub-proposals of a batch too,
\* the tables and the cursor are well-formed.
THEOREM TypeCorrect == Spec => []TypeOK
<1>1. Inv => TypeOK
  BY DEF Inv
<1>2. QED
  BY InitInv, NextInv, <1>1, PTL DEF Spec

\* apply_register_worker, apply_update_worker_status and apply_remove_worker keep
\* the three tables of a worker in step, whatever is replayed over them.
THEOREM WorkerRowsAlwaysAgree == Spec => []WorkerRowsAgree
<1>1. Inv => WorkerRowsAgree
  BY DEF Inv
<1>2. QED
  BY InitInv, NextInv, <1>1, PTL DEF Spec

-----------------------------------------------------------------------------
\* What a command makes of each table: no table depends on another.
TaskOf(S, c) == IF c.op = "AssignTask" THEN S \union {c.task} ELSE S
ResultOf(S, c) == IF c.op = "CompleteTask" THEN S \union {c.task} ELSE S
AssignedOf(f, c) ==
    IF c.op \in {"AssignTask", "ReassignTask"} THEN [f EXCEPT ![c.task] = c.node]
    ELSE IF c.op = "CompleteTask" THEN [f EXCEPT ![c.task] = None] ELSE f
WorkerOf(S, c) ==
    IF c.op = "RegisterWorker" THEN S \union {c.node}
    ELSE IF c.op = "RemoveWorker" THEN S \ {c.node} ELSE S
WStatusOf(f, c) ==
    IF c.op = "RegisterWorker" THEN [f EXCEPT ![c.node] = Online]
    ELSE IF c.op = "UpdateWorkerStatus" THEN [f EXCEPT ![c.node] = c.status]
    ELSE IF c.op = "RemoveWorker" THEN [f EXCEPT ![c.node] = None] ELSE f
QuotaOf(S, c) ==
    IF c.op = "SetTenantQuota" THEN S \union {c.tenant}
    ELSE IF c.op = "RemoveTenantQuota" THEN S \ {c.tenant} ELSE S
UsageOf(f, c) == IF c.op = "RemoveTenantQuota" THEN [f EXCEPT ![c.tenant] = 0] ELSE f
RowOf(row, c) ==
    IF c.op = "CreateVm" THEN VmRow("Creating", c.node)
    ELSE IF c.op = "DeleteVm" \/ row = NoVm THEN NoVm
    ELSE IF c.op = "StartVm" THEN VmRow("Starting", row.node)
    ELSE IF c.op = "StopVm" THEN VmRow("Stopping", row.node)
    ELSE IF c.op = "MigrateVm" THEN VmRow("Stopping", c.node)
    ELSE VmRow(c.status, c.node)
VmOf(f, c) ==
    IF c.op \in {"CreateVm", "MigrateVm", "StartVm", "StopVm", "DeleteVm", "UpdateVmStatus"}
    THEN [f EXCEPT ![c.vm] = RowOf(f[c.vm], c)] ELSE f

\* The tables after a command, field by field.
LEMMA ApplyByField ==
    ASSUME NEW d \in Tables, NEW c \in Commands, c.op # "UpdateTenantUsage"
    PROVE  /\ Apply(d, c).task = TaskOf(d.task, c)
           /\ Apply(d, c).assigned = AssignedOf(d.assigned, c)
           /\ Apply(d, c).result = ResultOf(d.result, c)
           /\ Apply(d, c).worker = WorkerOf(d.worker, c)
           /\ Apply(d, c).wstatus = WStatusOf(d.wstatus, c)
           /\ Apply(d, c).topology = WorkerOf(d.topology, c)
           /\ Apply(d, c).vm = VmOf(d.vm, c)
           /\ Apply(d, c).quota = QuotaOf(d.quota, c)
           /\ Apply(d, c).usage = UsageOf(d.usage, c)
<1> USE DEF TaskOf, AssignedOf, ResultOf, WorkerOf, WStatusOf, VmOf, QuotaOf, UsageOf
<1>0. c \in AllCommands
    BY CommandsAssumption
<1>1. CASE c \in [op : {"AssignTask"}, task : Tasks, node : Nodes]
    BY <1>1 DEF Apply, AssignTask, Tables
<1>2. CASE c \in [op : {"CompleteTask"}, task : Tasks]
    BY <1>2 DEF Apply, CompleteTask, Tables
<1>3. CASE c \in [op : {"ReassignTask"}, task : Tasks, node : Nodes]
    BY <1>3 DEF Apply, ReassignTask, Tables
<1>4. CASE c \in [op : {"RegisterWorker"}, node : Nodes]
    BY <1>4 DEF Apply, RegisterWorker, Tables
<1>5. CASE c \in [op : {"UpdateWorkerStatus"}, node : Nodes, status : WorkerStatus]
    BY <1>5 DEF Apply, UpdateWorkerStatus, Tables
<1>6. CASE c \in [op : {"RemoveWorker"}, node : Nodes]
    BY <1>6 DEF Apply, RemoveWorker, Tables
<1>7. CASE \/ c \in [op : {"CreateVm", "MigrateVm"}, vm : Vms, node : Nodes]
           \/ c \in [op : {"StartVm", "StopVm", "DeleteVm"}, vm : Vms]
           \/ c \in [op : {"UpdateVmStatus"}, vm : Vms, status : VmStatus, node : Nodes]
    <2>1. c.vm \in Vms /\ c.op \in {"CreateVm", "MigrateVm", "StartVm", "StopVm", "DeleteVm", "UpdateVmStatus"}
        BY <1>7
    <2>2. d.vm \in [Vms -> [status : VmStatus, node : Nodes] \union {NoVm}]
        BY DEF Tables
    <2>3. Apply(d, c) = [d EXCEPT !.vm = [d.vm EXCEPT ![c.vm] = RowOf(d.vm[c.vm], c)]]
        <3>1. [d.vm EXCEPT ![c.vm] = d.vm[c.vm]] = d.vm /\ [d EXCEPT !.vm = d.vm] = d
            BY <2>1, <2>2 DEF Tables
        <3>2. ASSUME NEW s, d.vm[c.vm] # NoVm
              PROVE  [d.vm[c.vm] EXCEPT !.status = s] = VmRow(s, d.vm[c.vm].node)
            BY <2>1, <2>2, <3>2 DEF VmRow
        <3>3. ASSUME NEW s PROVE
                UpdateVmStatusInternal(d, c, s) =
                  [d EXCEPT !.vm = [d.vm EXCEPT ![c.vm] = IF d.vm[c.vm] = NoVm THEN NoVm
                                                         ELSE VmRow(s, d.vm[c.vm].node)]]
            <4>1. CASE d.vm[c.vm] = NoVm
                BY <3>1, <4>1 DEF UpdateVmStatusInternal
            <4>2. CASE d.vm[c.vm] # NoVm
                BY <2>1, <2>2, <3>2, <4>2 DEF UpdateVmStatusInternal, Tables
            <4> QED
                BY <4>1, <4>2
        <3>4. CASE c.op = "CreateVm"
            BY <3>4 DEF Apply, CreateVm, RowOf
        <3>5. CASE c.op = "MigrateVm"
            BY <3>1, <3>5 DEF Apply, MigrateVm, RowOf
        <3>6. CASE c.op = "StartVm"
            BY <3>3, <3>6 DEF Apply, RowOf
        <3>7. CASE c.op = "StopVm"
            BY <3>3, <3>7 DEF Apply, RowOf
        <3>8. CASE c.op = "DeleteVm"
            BY <3>8 DEF Apply, DeleteVm, RowOf
        <3>9. CASE c.op = "UpdateVmStatus"
            BY <3>1, <3>9 DEF Apply, UpdateVmStatus, RowOf
        <3> QED
            BY <2>1, <3>4, <3>5, <3>6, <3>7, <3>8, <3>9
    <2> QED
        BY <2>1, <2>3 DEF Tables
<1>8. CASE c \in [op : {"SetTenantQuota", "RemoveTenantQuota"}, tenant : Tenants]
    BY <1>8 DEF Apply, SetTenantQuota, RemoveTenantQuota, Tables
<1>9. CASE c \in [op : {"AllocateIp", "IpPoolCommand", "ReleaseVmIps", "OtherVmCommand"}]
    BY <1>9 DEF Apply, Tables
<1> QED
    BY <1>0, <1>1, <1>2, <1>3, <1>4, <1>5, <1>6, <1>7, <1>8, <1>9, Zenon DEF AllCommands

-----------------------------------------------------------------------------
\* One table: what c writes it writes whatever was there before, so that two
\* states of the table that c makes equal are still made equal after another
\* command.
LEMMA TaskOfMerge ==
    ASSUME NEW S, NEW T, NEW c, NEW x
    PROVE  /\ TaskOf(TaskOf(S, c), c) = TaskOf(S, c)
           /\ TaskOf(S, c) = TaskOf(T, c) => TaskOf(TaskOf(S, x), c) = TaskOf(TaskOf(T, x), c)
    BY DEF TaskOf

\* The same for TASK_RESULT_TABLE.
LEMMA ResultOfMerge ==
    ASSUME NEW S, NEW T, NEW c, NEW x
    PROVE  /\ ResultOf(ResultOf(S, c), c) = ResultOf(S, c)
           /\ ResultOf(S, c) = ResultOf(T, c) => ResultOf(ResultOf(S, x), c) = ResultOf(ResultOf(T, x), c)
    BY DEF ResultOf

\* The same for WORKER_TABLE.
LEMMA WorkerOfMerge ==
    ASSUME NEW S, NEW T, NEW c, NEW x
    PROVE  /\ WorkerOf(WorkerOf(S, c), c) = WorkerOf(S, c)
           /\ WorkerOf(S, c) = WorkerOf(T, c) => WorkerOf(WorkerOf(S, x), c) = WorkerOf(WorkerOf(T, x), c)
<1>1. WorkerOf(WorkerOf(S, c), c) = WorkerOf(S, c)
    BY DEF WorkerOf
<1>2. WorkerOf(S, c) = WorkerOf(T, c) => WorkerOf(WorkerOf(S, x), c) = WorkerOf(WorkerOf(T, x), c)
    BY DEF WorkerOf
<1> QED
    BY <1>1, <1>2

\* The same for the table of tenant quotas.
LEMMA QuotaOfMerge ==
    ASSUME NEW S, NEW T, NEW c, NEW x
    PROVE  /\ QuotaOf(QuotaOf(S, c), c) = QuotaOf(S, c)
           /\ QuotaOf(S, c) = QuotaOf(T, c) => QuotaOf(QuotaOf(S, x), c) = QuotaOf(QuotaOf(T, x), c)
<1>1. QuotaOf(QuotaOf(S, c), c) = QuotaOf(S, c)
    BY DEF QuotaOf
<1>2. QuotaOf(S, c) = QuotaOf(T, c) => QuotaOf(QuotaOf(S, x), c) = QuotaOf(QuotaOf(T, x), c)
    BY DEF QuotaOf
<1> QED
    BY <1>1, <1>2

\* Two writes to a column.
LEMMA WritesMerge ==
    ASSUME NEW K, NEW V, NEW f \in [K -> V], NEW g \in [K -> V], NEW k, NEW v, NEW l, NEW w
    PROVE  /\ [[f EXCEPT ![k] = v] EXCEPT ![k] = v] = [f EXCEPT ![k] = v]
           /\ [f EXCEPT ![k] = v] = [g EXCEPT ![k] = v] =>
                [[f EXCEPT ![l] = w] EXCEPT ![k] = v] = [[g EXCEPT ![l] = w] EXCEPT ![k] = v]
<1> DEFINE W(h, y, z) == [t \in K |-> IF t = y THEN z ELSE h[t]]
<1>1. \A h, y, z : DOMAIN W(h, y, z) = K /\ \A t \in K : W(h, y, z)[t] = IF t = y THEN z ELSE h[t]
    BY Zenon
<1>2. /\ [f EXCEPT ![k] = v] = W(f, k, v) /\ [g EXCEPT ![k] = v] = W(g, k, v)
      /\ [f EXCEPT ![l] = w] = W(f, l, w) /\ [g EXCEPT ![l] = w] = W(g, l, w)
    OBVIOUS
<1>3. /\ [W(f, k, v) EXCEPT ![k] = v] = W(W(f, k, v), k, v)
      /\ [W(f, l, w) EXCEPT ![k] = v] = W(W(f, l, w), k, v)
      /\ [W(g, l, w) EXCEPT ![k] = v] = W(W(g, l, w), k, v)
    BY Zenon
<1>4. W(W(f, k, v), k, v) = W(f, k, v)
    OBVIOUS
<1>5. W(f, k, v) = W(g, k, v) => W(W(f, l, w), k, v) = W(W(g, l, w), k, v)
    <2> SUFFICES ASSUME W(f, k, v) = W(g, k, v)
                 PROVE  \A t \in K : (IF t = k THEN v ELSE W(f, l, w)[t]) = (IF t = k THEN v ELSE W(g, l, w)[t])
        BY Zenon
    <2>1. \A t \in K : W(f, k, v)[t] = W(g, k, v)[t]
        OBVIOUS
    <2>2. \A t \in K : t # k => f[t] = g[t]
        BY <1>1, <2>1, Zenon
    <2> QED
        BY <1>1, <2>2, Zenon
<1> HIDE DEF W
<1> QED
    BY <1>2, <1>3, <1>4, <1>5, Zenon

\* The same for TASK_ASSIGNMENT_TABLE.
LEMMA AssignedOfMerge ==
    ASSUME NEW f \in [Tasks -> Nodes \union {None}], NEW g \in [Tasks -> Nodes \union {None}], NEW c, NEW x
    PROVE  /\ AssignedOf(AssignedOf(f, c), c) = AssignedOf(f, c)
           /\ AssignedOf(f, c) = AssignedOf(g, c) => AssignedOf(AssignedOf(f, x), c) = AssignedOf(AssignedOf(g, x), c)
    BY WritesMerge, Zenon DEF AssignedOf

\* The same for WORKER_STATUS_TABLE.
LEMMA WStatusOfMerge ==
    ASSUME NEW f \in [Nodes -> WorkerStatus \union {None}], NEW g \in [Nodes -> WorkerStatus \union {None}], NEW c, NEW x
    PROVE  /\ WStatusOf(WStatusOf(f, c), c) = WStatusOf(f, c)
           /\ WStatusOf(f, c) = WStatusOf(g, c) => WStatusOf(WStatusOf(f, x), c) = WStatusOf(WStatusOf(g, x), c)
    BY WritesMerge, Zenon DEF WStatusOf

\* The same for the table of tenant usage: it is only ever reset.
LEMMA UsageOfMerge ==
    ASSUME NEW f \in [Tenants -> Nat], NEW g \in [Tenants -> Nat], NEW c, NEW x
    PROVE  /\ UsageOf(UsageOf(f, c), c) = UsageOf(f, c)
           /\ UsageOf(f, c) = UsageOf(g, c) => UsageOf(UsageOf(f, x), c) = UsageOf(UsageOf(g, x), c)
    BY WritesMerge, Zenon DEF UsageOf

\* A row of VM_STATE_TABLE: the commands that update it agree on whether it exists.
Rows == [status : VmStatus, node : Nodes] \union {NoVm}
VmOps == {"CreateVm", "MigrateVm", "StartVm", "StopVm", "DeleteVm", "UpdateVmStatus"}

-----------------------------------------------------------------------------
\* A command on a VM turns a row of VM_STATE_TABLE into a row.
LEMMA RowType ==
    ASSUME NEW c \in Commands, c.op \in VmOps, NEW row \in Rows
    PROVE  c.vm \in Vms /\ RowOf(row, c) \in Rows
<1>0. c \in AllCommands
    BY CommandsAssumption
<1>1. CASE c \in [op : {"CreateVm", "MigrateVm"}, vm : Vms, node : Nodes]
    BY <1>1 DEF RowOf, Rows, VmRow, VmStatus
<1>2. CASE c \in [op : {"StartVm", "StopVm", "DeleteVm"}, vm : Vms]
    BY <1>2 DEF RowOf, Rows, VmRow, VmStatus
<1>3. CASE c \in [op : {"UpdateVmStatus"}, vm : Vms, status : VmStatus, node : Nodes]
    BY <1>3 DEF RowOf, Rows, VmRow
<1> QED
    BY <1>0, <1>1, <1>2, <1>3 DEF AllCommands, VmOps

\* What a row holds after a command: nothing, or a status that the command names
\* and a node that it names or finds.
StatusBy(c) ==
    IF c.op = "CreateVm" THEN "Creating" ELSE IF c.op = "StartVm" THEN "Starting"
    ELSE IF c.op \in {"StopVm", "MigrateVm"} THEN "Stopping" ELSE c.status
Empties(c, row) == c.op # "CreateVm" /\ (c.op = "DeleteVm" \/ row = NoVm)
NodeBy(c, row) == IF c.op \in {"StartVm", "StopVm"} THEN row.node ELSE c.node

\* RowOf by its parts.
LEMMA RowParts ==
    ASSUME NEW c \in Commands, c.op \in VmOps, NEW row \in Rows
    PROVE  RowOf(row, c) = IF Empties(c, row) THEN NoVm ELSE VmRow(StatusBy(c), NodeBy(c, row))
    BY DEF RowOf, Empties, StatusBy, NodeBy, VmOps

\* A row written by a command is no empty row.
LEMMA RowIsThere ==
    ASSUME NEW c \in Commands, c.op \in VmOps, NEW row \in Rows, ~Empties(c, row)
    PROVE  RowOf(row, c) # NoVm /\ RowOf(row, c).node = NodeBy(c, row)
<1>0. c \in AllCommands
    BY CommandsAssumption
<1>1. StatusBy(c) # None
  <2>1. CASE c.op = "UpdateVmStatus"
    <3>1. c.status \in VmStatus
        BY <1>0, <2>1 DEF AllCommands
    <3> QED
        BY <2>1, <3>1 DEF StatusBy, VmStatus, None
  <2>2. CASE c.op \in {"CreateVm", "StartVm", "StopVm", "MigrateVm"}
      BY <2>2 DEF StatusBy, None
  <2> QED
      BY <2>1, <2>2 DEF Empties, VmOps
<1>2. RowOf(row, c) = VmRow(StatusBy(c), NodeBy(c, row))
    BY RowParts
<1>3. \A s, n : VmRow(s, n).node = n /\ VmRow(s, n).status = s
    BY DEF VmRow
<1>4. NoVm.status = None
    BY <1>3 DEF NoVm
<1> QED
    BY <1>1, <1>2, <1>3, <1>4

\* A command on a row that it wrote writes the same again.
LEMMA RowTwice ==
    ASSUME NEW c \in Commands, c.op \in VmOps, NEW u \in Rows
    PROVE  RowOf(RowOf(u, c), c) = RowOf(u, c)
<1>1. RowOf(u, c) \in Rows
    BY RowType
<1> DEFINE w == RowOf(u, c)
<1>2. w = IF Empties(c, u) THEN NoVm ELSE VmRow(StatusBy(c), NodeBy(c, u))
    BY RowParts
<1>3. RowOf(w, c) = IF Empties(c, w) THEN NoVm ELSE VmRow(StatusBy(c), NodeBy(c, w))
    BY <1>1, RowParts
<1>4. ~Empties(c, u) => w # NoVm /\ w.node = NodeBy(c, u)
    BY RowIsThere
<1> SUFFICES RowOf(w, c) = w
    OBVIOUS
<1> HIDE DEF w
<1>5. CASE Empties(c, u)
    BY <1>2, <1>3, <1>5 DEF Empties
<1>6. CASE ~Empties(c, u)
  <2>1. w # NoVm /\ w.node = NodeBy(c, u)
      BY <1>4, <1>6
  <2>2. ~Empties(c, w)
      BY <1>6, <2>1 DEF Empties
  <2>3. NodeBy(c, w) = NodeBy(c, u)
      BY <2>1 DEF NodeBy
  <2> QED
      BY <1>2, <1>3, <1>6, <2>2, <2>3
<1> QED
    BY <1>5, <1>6

\* Two rows that a command makes equal, it makes equal after any other command.
LEMMA RowsMerge ==
    ASSUME NEW c \in Commands, c.op \in VmOps, NEW x \in Commands, x.op \in VmOps,
           NEW u \in Rows, NEW v \in Rows, RowOf(u, c) = RowOf(v, c)
    PROVE  RowOf(RowOf(u, x), c) = RowOf(RowOf(v, x), c)
<1> DEFINE a == RowOf(u, x)
           b == RowOf(v, x)
<1>1. a \in Rows /\ b \in Rows
    BY RowType
<1>2. /\ a = IF Empties(x, u) THEN NoVm ELSE VmRow(StatusBy(x), NodeBy(x, u))
      /\ b = IF Empties(x, v) THEN NoVm ELSE VmRow(StatusBy(x), NodeBy(x, v))
    BY RowParts
<1>3. /\ ~Empties(x, u) => a # NoVm /\ a.node = NodeBy(x, u)
      /\ ~Empties(x, v) => b # NoVm /\ b.node = NodeBy(x, v)
    BY RowIsThere
<1> SUFFICES RowOf(a, c) = RowOf(b, c)
    OBVIOUS
<1> HIDE DEF a, b
<1>4. /\ RowOf(a, c) = IF Empties(c, a) THEN NoVm ELSE VmRow(StatusBy(c), NodeBy(c, a))
      /\ RowOf(b, c) = IF Empties(c, b) THEN NoVm ELSE VmRow(StatusBy(c), NodeBy(c, b))
      /\ RowOf(u, c) = IF Empties(c, u) THEN NoVm ELSE VmRow(StatusBy(c), NodeBy(c, u))
      /\ RowOf(v, c) = IF Empties(c, v) THEN NoVm ELSE VmRow(StatusBy(c), NodeBy(c, v))
    BY <1>1, RowParts
<1>5. /\ ~Empties(c, u) => RowOf(u, c) # NoVm /\ RowOf(u, c).node = NodeBy(c, u)
      /\ ~Empties(c, v) => RowOf(v, c) # NoVm /\ RowOf(v, c).node = NodeBy(c, v)
    BY RowIsThere
<1>6. (Empties(c, u) <=> Empties(c, v)) /\ (~Empties(c, u) => NodeBy(c, u) = NodeBy(c, v))
    BY <1>4, <1>5
<1>7. CASE c.op = "CreateVm" \/ c.op = "DeleteVm"
  <2>1. (Empties(c, a) <=> Empties(c, b)) /\ NodeBy(c, a) = NodeBy(c, b)
      BY <1>7 DEF Empties, NodeBy
  <2> QED
      BY <1>4, <2>1
<1>8. CASE c.op # "CreateVm" /\ c.op # "DeleteVm"
  <2>1. /\ u = NoVm <=> v = NoVm
        /\ \A r : Empties(c, r) <=> r = NoVm
      BY <1>6, <1>8 DEF Empties
  <2>2. Empties(x, u) <=> Empties(x, v)
      BY <2>1 DEF Empties
  <2>3. CASE Empties(x, u)
      BY <1>2, <2>2, <2>3
  <2>4. CASE ~Empties(x, u)
    <3>1. a # NoVm /\ b # NoVm /\ a.node = NodeBy(x, u) /\ b.node = NodeBy(x, v)
        BY <1>3, <2>2, <2>4
    <3>2. NodeBy(c, a) = NodeBy(c, b)
      <4>1. CASE c.op \notin {"StartVm", "StopVm"}
          BY <4>1 DEF NodeBy
      <4>2. CASE x.op \notin {"StartVm", "StopVm"}
          BY <3>1, <4>2 DEF NodeBy
      <4>3. CASE x.op \in {"StartVm", "StopVm"} /\ c.op \in {"StartVm", "StopVm"}
        <5>1. u # NoVm
            BY <2>4, <4>3 DEF Empties
        <5>2. u.node = v.node
            BY <1>6, <2>1, <4>3, <5>1 DEF NodeBy
        <5> QED
            BY <3>1, <4>3, <5>2 DEF NodeBy
      <4> QED
          BY <4>1, <4>2, <4>3
    <3> QED
        BY <1>4, <2>1, <3>1, <3>2
  <2> QED
      BY <2>3, <2>4
<1> QED
    BY <1>7, <1>8

\* VM_STATE_TABLE, row by row.
LEMMA VmsMerge ==
    ASSUME NEW f \in [Vms -> Rows], NEW g \in [Vms -> Rows], NEW c \in Commands, NEW x \in Commands
    PROVE  /\ VmOf(VmOf(f, c), c) = VmOf(f, c)
           /\ VmOf(f, c) = VmOf(g, c) => VmOf(VmOf(f, x), c) = VmOf(VmOf(g, x), c)
<1> DEFINE Cell(h, y, v) == IF y.op \in VmOps /\ v = y.vm THEN RowOf(h[v], y) ELSE h[v]
<1>1. ASSUME NEW h \in [Vms -> Rows], NEW y \in Commands
      PROVE  VmOf(h, y) \in [Vms -> Rows] /\ \A v \in Vms : VmOf(h, y)[v] = Cell(h, y, v)
    <2>1. CASE y.op \in VmOps
        <3>1. y.vm \in Vms
            BY <2>1, RowType, Zenon DEF Rows
        <3>2. h[y.vm] \in Rows
            BY <3>1
        <3>3. RowOf(h[y.vm], y) \in Rows
            BY <2>1, <3>2, RowType, Zenon
        <3>4. VmOf(h, y) = [h EXCEPT ![y.vm] = RowOf(h[y.vm], y)]
            BY <2>1 DEF VmOf, VmOps
        <3> QED
            BY <2>1, <3>1, <3>3, <3>4
    <2>2. CASE y.op \notin VmOps
        BY <2>2 DEF VmOf, VmOps
    <2> QED
        BY <2>1, <2>2
<1>2. /\ VmOf(f, c) \in [Vms -> Rows] /\ VmOf(g, c) \in [Vms -> Rows]
      /\ VmOf(f, x) \in [Vms -> Rows] /\ VmOf(g, x) \in [Vms -> Rows]
      /\ VmOf(VmOf(f, c), c) \in [Vms -> Rows]
      /\ VmOf(VmOf(f, x), c) \in [Vms -> Rows] /\ VmOf(VmOf(g, x), c) \in [Vms -> Rows]
    BY <1>1
<1>3. ASSUME NEW v \in Vms
      PROVE  /\ VmOf(VmOf(f, c), c)[v] = VmOf(f, c)[v]
             /\ VmOf(f, c)[v] = VmOf(g, c)[v] => VmOf(VmOf(f, x), c)[v] = VmOf(VmOf(g, x), c)[v]
    <2>1. /\ VmOf(f, c)[v] = Cell(f, c, v) /\ VmOf(g, c)[v] = Cell(g, c, v)
          /\ VmOf(f, x)[v] = Cell(f, x, v) /\ VmOf(g, x)[v] = Cell(g, x, v)
          /\ VmOf(VmOf(f, c), c)[v] = Cell(VmOf(f, c), c, v)
          /\ VmOf(VmOf(f, x), c)[v] = Cell(VmOf(f, x), c, v)
          /\ VmOf(VmOf(g, x), c)[v] = Cell(VmOf(g, x), c, v)
        BY <1>1, <1>2
    <2>2. f[v] \in Rows /\ g[v] \in Rows
        OBVIOUS
    <2>3. CASE c.op \in VmOps /\ c.vm = v /\ x.op \in VmOps /\ x.vm = v
        <3>3. /\ RowOf(RowOf(f[v], c), c) = RowOf(f[v], c)
              /\ RowOf(f[v], c) = RowOf(g[v], c) =>
                   RowOf(RowOf(f[v], x), c) = RowOf(RowOf(g[v], x), c)
            BY <2>2, <2>3, RowTwice, RowsMerge
        <3> QED
            BY <2>1, <2>3, <3>3
    <2>4. CASE c.op \in VmOps /\ c.vm = v /\ ~(x.op \in VmOps /\ x.vm = v)
        <3>3. RowOf(RowOf(f[v], c), c) = RowOf(f[v], c)
            BY <2>2, <2>4, RowTwice
        <3> QED
            BY <2>1, <2>4, <3>3
    <2>5. CASE ~(c.op \in VmOps /\ c.vm = v)
        BY <2>1, <2>5
    <2> QED
        BY <2>3, <2>4, <2>5
<1> HIDE DEF Cell
<1>4. VmOf(VmOf(f, c), c) = VmOf(f, c)
    BY <1>2, <1>3
<1>5. VmOf(f, c) = VmOf(g, c) => VmOf(VmOf(f, x), c) = VmOf(VmOf(g, x), c)
    BY <1>2, <1>3
<1> QED
    BY <1>4, <1>5

\* Tables with equal fields are equal.
LEMMA SameTables ==
    ASSUME NEW d \in Tables, NEW e \in Tables,
           d.task = e.task, d.assigned = e.assigned, d.result = e.result, d.worker = e.worker,
           d.wstatus = e.wstatus, d.topology = e.topology, d.vm = e.vm, d.quota = e.quota,
           d.usage = e.usage
    PROVE  d = e
    BY DEF Tables

\* The command c makes e of the tables d, written field by field.
Written(d, c, e) ==
    /\ e.task = TaskOf(d.task, c) /\ e.assigned = AssignedOf(d.assigned, c)
    /\ e.result = ResultOf(d.result, c) /\ e.worker = WorkerOf(d.worker, c)
    /\ e.wstatus = WStatusOf(d.wstatus, c) /\ e.topology = WorkerOf(d.topology, c)
    /\ e.vm = VmOf(d.vm, c) /\ e.quota = QuotaOf(d.quota, c) /\ e.usage = UsageOf(d.usage, c)

\* Apply does.
LEMMA ApplyWrites ==
    ASSUME NEW d \in Tables, NEW c \in Commands, c.op # "UpdateTenantUsage"
    PROVE  Apply(d, c) \in Tables /\ Written(d, c, Apply(d, c))
<1>1. Apply(d, c) \in Tables
    BY ApplyKeepsTables
<1>2. Written(d, c, Apply(d, c))
    BY ApplyByField, Zenon DEF Written
<1> QED
    BY <1>1, <1>2

\* The types of the fields that are functions.
LEMMA FieldTypes ==
    ASSUME NEW d \in Tables
    PROVE  /\ d.assigned \in [Tasks -> Nodes \union {None}] /\ d.usage \in [Tenants -> Nat]
           /\ d.wstatus \in [Nodes -> WorkerStatus \union {None}] /\ d.vm \in [Vms -> Rows]
    BY Zenon DEF Tables, Rows

\* A command written twice is a command written once.
LEMMA WrittenTwice ==
    ASSUME NEW d \in Tables, NEW e \in Tables, NEW f \in Tables, NEW c \in Commands,
           Written(d, c, e), Written(e, c, f)
    PROVE  f = e
<1>1. f.task = e.task
  <2>1. e.task = TaskOf(d.task, c) /\ f.task = TaskOf(e.task, c)
      BY Zenon DEF Written
  <2> QED
      BY <2>1, TaskOfMerge
<1>2. f.result = e.result
  <2>1. e.result = ResultOf(d.result, c) /\ f.result = ResultOf(e.result, c)
      BY Zenon DEF Written
  <2> QED
      BY <2>1, ResultOfMerge
<1>3. f.worker = e.worker
  <2>1. e.worker = WorkerOf(d.worker, c) /\ f.worker = WorkerOf(e.worker, c)
      BY Zenon DEF Written
  <2> QED
      BY <2>1, WorkerOfMerge
<1>4. f.topology = e.topology
  <2>1. e.topology = WorkerOf(d.topology, c) /\ f.topology = WorkerOf(e.topology, c)
      BY Zenon DEF Written
  <2> QED
      BY <2>1, WorkerOfMerge
<1>5. f.quota = e.quota
  <2>1. e.quota = QuotaOf(d.quota, c) /\ f.quota = QuotaOf(e.quota, c)
      BY Zenon DEF Written
  <2> QED
      BY <2>1, QuotaOfMerge
<1>6. f.assigned = e.assigned
  <2>1. e.assigned = AssignedOf(d.assigned, c) /\ f.assigned = AssignedOf(e.assigned, c)
      BY Zenon DEF Written
  <2>2. d.assigned \in [Tasks -> Nodes \union {None}]
      BY FieldTypes
  <2> QED
      BY <2>1, <2>2, AssignedOfMerge
<1>7. f.wstatus = e.wstatus
  <2>1. e.wstatus = WStatusOf(d.wstatus, c) /\ f.wstatus = WStatusOf(e.wstatus, c)
      BY Zenon DEF Written
  <2>2. d.wstatus \in [Nodes -> WorkerStatus \union {None}]
      BY FieldTypes
  <2> QED
      BY <2>1, <2>2, WStatusOfMerge
<1>8. f.usage = e.usage
  <2>1. e.usage = UsageOf(d.usage, c) /\ f.usage = UsageOf(e.usage, c)
      BY Zenon DEF Written
  <2>2. d.usage \in [Tenants -> Nat]
      BY FieldTypes
  <2> QED
      BY <2>1, <2>2, UsageOfMerge
<1>9. f.vm = e.vm
  <2>1. e.vm = VmOf(d.vm, c) /\ f.vm = VmOf(e.vm, c)
      BY Zenon DEF Written
  <2>2. d.vm \in [Vms -> Rows]
      BY FieldTypes
  <2> QED
      BY <2>1, <2>2, VmsMerge
<1> QED
    BY <1>1, <1>2, <1>3, <1>4, <1>5, <1>6, <1>7, <1>8, <1>9, SameTables

\* What c makes equal it still makes equal when x comes first.
LEMMA WrittenMerges ==
    ASSUME NEW d \in Tables, NEW e \in Tables, NEW y \in Tables, NEW dx \in Tables, NEW ex \in Tables,
           NEW dxc \in Tables, NEW exc \in Tables, NEW c \in Commands, NEW x \in Commands,
           Written(d, c, y), Written(e, c, y), Written(d, x, dx), Written(e, x, ex),
           Written(dx, c, dxc), Written(ex, c, exc)
    PROVE  dxc = exc
<1>1. dxc.task = exc.task
  <2>1. /\ TaskOf(d.task, c) = TaskOf(e.task, c)
        /\ dxc.task = TaskOf(TaskOf(d.task, x), c) /\ exc.task = TaskOf(TaskOf(e.task, x), c)
      BY Zenon DEF Written
  <2> QED
      BY <2>1, TaskOfMerge
<1>2. dxc.result = exc.result
  <2>1. /\ ResultOf(d.result, c) = ResultOf(e.result, c)
        /\ dxc.result = ResultOf(ResultOf(d.result, x), c) /\ exc.result = ResultOf(ResultOf(e.result, x), c)
      BY Zenon DEF Written
  <2> QED
      BY <2>1, ResultOfMerge
<1>3. dxc.worker = exc.worker
  <2>1. /\ WorkerOf(d.worker, c) = WorkerOf(e.worker, c)
        /\ dxc.worker = WorkerOf(WorkerOf(d.worker, x), c) /\ exc.worker = WorkerOf(WorkerOf(e.worker, x), c)
      BY Zenon DEF Written
  <2> QED
      BY <2>1, WorkerOfMerge
<1>4. dxc.topology = exc.topology
  <2>1. /\ WorkerOf(d.topology, c) = WorkerOf(e.topology, c)
        /\ dxc.topology = WorkerOf(WorkerOf(d.topology, x), c) /\ exc.topology = WorkerOf(WorkerOf(e.topology, x), c)
      BY Zenon DEF Written
  <2> QED
      BY <2>1, WorkerOfMerge
<1>5. dxc.quota = exc.quota
  <2>1. /\ QuotaOf(d.quota, c) = QuotaOf(e.quota, c)
        /\ dxc.quota = QuotaOf(QuotaOf(d.quota, x), c) /\ exc.quota = QuotaOf(QuotaOf(e.quota, x), c)
      BY Zenon DEF Written
  <2> QED
      BY <2>1, QuotaOfMerge
<1>6. dxc.assigned = exc.assigned
  <2>1. /\ AssignedOf(d.assigned, c) = AssignedOf(e.assigned, c)
        /\ dxc.assigned = AssignedOf(AssignedOf(d.assigned, x), c) /\ exc.assigned = AssignedOf(AssignedOf(e.assigned, x), c)
      BY Zenon DEF Written
  <2>2. d.assigned \in [Tasks -> Nodes \union {None}] /\ e.assigned \in [Tasks -> Nodes \union {None}]
      BY FieldTypes
  <2> QED
      BY <2>1, <2>2, AssignedOfMerge
<1>7. dxc.wstatus = exc.wstatus
  <2>1. /\ WStatusOf(d.wstatus, c) = WStatusOf(e.wstatus, c)
        /\ dxc.wstatus = WStatusOf(WStatusOf(d.wstatus, x), c) /\ exc.wstatus = WStatusOf(WStatusOf(e.wstatus, x), c)
      BY Zenon DEF Written
  <2>2. d.wstatus \in [Nodes -> WorkerStatus \union {None}] /\ e.wstatus \in [Nodes -> WorkerStatus \union {None}]
      BY FieldTypes
  <2> QED
      BY <2>1, <2>2, WStatusOfMerge
<1>8. dxc.usage = exc.usage
  <2>1. /\ UsageOf(d.usage, c) = UsageOf(e.usage, c)
        /\ dxc.usage = UsageOf(UsageOf(d.usage, x), c) /\ exc.usage = UsageOf(UsageOf(e.usage, x), c)
      BY Zenon DEF Written
  <2>2. d.usage \in [Tenants -> Nat] /\ e.usage \in [Tenants -> Nat]
      BY FieldTypes
  <2> QED
      BY <2>1, <2>2, UsageOfMerge
<1>9. dxc.vm = exc.vm
  <2>1. /\ VmOf(d.vm, c) = VmOf(e.vm, c)
        /\ dxc.vm = VmOf(VmOf(d.vm, x), c) /\ exc.vm = VmOf(VmOf(e.vm, x), c)
      BY Zenon DEF Written
  <2>2. d.vm \in [Vms -> Rows] /\ e.vm \in [Vms -> Rows]
      BY FieldTypes
  <2> QED
      BY <2>1, <2>2, VmsMerge
<1> QED
    BY <1>1, <1>2, <1>3, <1>4, <1>5, <1>6, <1>7, <1>8, <1>9, SameTables

\* Every command but UpdateTenantUsage writes what does not depend on what it
\* overwrites: to apply it twice is to apply it once, and what it makes equal it
\* still makes equal when another command comes first.
LEMMA ApplyTwice ==
    ASSUME NEW d \in Tables, NEW c \in Commands, c.op # "UpdateTenantUsage"
    PROVE  Apply(Apply(d, c), c) = Apply(d, c)
<1>1. Apply(d, c) \in Tables /\ Written(d, c, Apply(d, c))
    BY ApplyWrites
<1>2. Apply(Apply(d, c), c) \in Tables /\ Written(Apply(d, c), c, Apply(Apply(d, c), c))
    BY <1>1, ApplyWrites
<1> QED
    BY <1>1, <1>2, WrittenTwice

\* Two databases that a command makes equal, it makes equal after any other
\* command too.
LEMMA ApplyMerges ==
    ASSUME NEW d \in Tables, NEW e \in Tables, NEW c \in Commands, NEW x \in Commands,
           c.op # "UpdateTenantUsage", x.op # "UpdateTenantUsage", Apply(d, c) = Apply(e, c)
    PROVE  Apply(Apply(d, x), c) = Apply(Apply(e, x), c)
<1>1. /\ Apply(d, c) \in Tables /\ Written(d, c, Apply(d, c)) /\ Written(e, c, Apply(d, c))
      /\ Apply(d, x) \in Tables /\ Written(d, x, Apply(d, x))
      /\ Apply(e, x) \in Tables /\ Written(e, x, Apply(e, x))
    BY ApplyWrites
<1>2. /\ Apply(Apply(d, x), c) \in Tables /\ Written(Apply(d, x), c, Apply(Apply(d, x), c))
      /\ Apply(Apply(e, x), c) \in Tables /\ Written(Apply(e, x), c, Apply(Apply(e, x), c))
    BY <1>1, ApplyWrites
<1> QED
    BY <1>1, <1>2, WrittenMerges, Zenon

-----------------------------------------------------------------------------
\* The least element, for a relation that contains <.
LEMMA LeastByRelation ==
    ASSUME NEW R, IsWellFoundedOn(R, Nat),
           \A x, y \in Nat : y < x => <<y, x>> \in R,
           NEW S, S \subseteq Nat, S # {}
    PROVE  \E x \in S : \A y \in S : x <= y
<1>1. PICK x \in S : \A y \in S : ~(<<y, x>> \in R)
    BY WFMin
<1>2. \A y \in S : ~(y < x)
    BY <1>1
<1>3. \A y \in S : x <= y
    BY <1>2, SMT
<1> QED
    BY <1>3

\* Induction, stated for a set: one that holds 0 and with every number the next
\* holds them all.
LEMMA SetInduction ==
    ASSUME NEW S, 0 \in S, \A n \in Nat : n \in S => n + 1 \in S
    PROVE  Nat \subseteq S
<1> SUFFICES ASSUME Nat \ S # {} PROVE FALSE
    OBVIOUS
<1> DEFINE R == OpToRel(<, Nat)
<1>1. IsWellFoundedOn(R, Nat)
    BY NatLessThanWellFounded
<1>2. \A x, y \in Nat : y < x => <<y, x>> \in R
    BY DEF OpToRel
<1> HIDE DEF R
<1>3. PICK x \in Nat \ S : \A y \in Nat \ S : x <= y
    BY <1>1, <1>2, LeastByRelation, Zenon
<1>4. x # 0 /\ x - 1 \in Nat /\ x - 1 \in S
    BY <1>3
<1> QED
    BY <1>3, <1>4

-----------------------------------------------------------------------------
\* The tables while the commands at lo + 1, ..., hi are applied.
Run(R, cs, lo, hi) ==
    R \in [lo..hi -> Tables] /\ \A i \in (lo + 1)..hi : R[i] = Apply(R[i - 1], cs[i])

\* There is a run from every state of the tables.
LEMMA RunExists ==
    ASSUME NEW n \in Nat, NEW cs \in [1..n -> Commands], NEW lo \in 0..n, NEW hi \in lo..n,
           NEW d \in Tables
    PROVE  \E R : Run(R, cs, lo, hi) /\ R[lo] = d
<1> DEFINE S == {m \in Nat : lo + m <= n => \E R : Run(R, cs, lo, lo + m) /\ R[lo] = d}
<1>1. 0 \in S
    <2> DEFINE R == [i \in lo..lo |-> d]
    <2>1. R \in [lo..lo -> Tables] /\ R[lo] = d
        OBVIOUS
    <2>2. (lo + 1)..lo = {} /\ lo + 0 = lo
        OBVIOUS
    <2> HIDE DEF R
    <2> QED
        BY <2>1, <2>2 DEF Run
<1>2. ASSUME NEW m \in Nat, m \in S PROVE m + 1 \in S
    <2> SUFFICES ASSUME lo + (m + 1) <= n
                 PROVE  \E R : Run(R, cs, lo, lo + (m + 1)) /\ R[lo] = d
        OBVIOUS
    <2>1. lo + m <= n
        OBVIOUS
    <2>2. PICK R : Run(R, cs, lo, lo + m) /\ R[lo] = d
        BY <1>2, <2>1
    <2> DEFINE k == lo + m
               new == Apply(R[k], cs[k + 1])
               Q == [i \in lo..(k + 1) |-> IF i <= k THEN R[i] ELSE new]
    <2>3. k \in lo..n /\ k + 1 \in 1..n /\ k + 1 = lo + (m + 1)
        OBVIOUS
    <2> HIDE DEF k
    <2>4. R \in [lo..k -> Tables] /\ \A i \in (lo + 1)..k : R[i] = Apply(R[i - 1], cs[i])
        BY <2>2 DEF Run, k
    <2>5. new \in Tables
        BY <2>3, <2>4, ApplyKeepsTables
    <2> HIDE DEF new
    <2>6. Q \in [lo..(k + 1) -> Tables] /\ Q[lo] = d
        BY <2>2, <2>3, <2>4, <2>5
    <2>7. \A i \in lo..(k + 1) : Q[i] = IF i <= k THEN R[i] ELSE new
        OBVIOUS
    <2> HIDE DEF Q
    <2>8. \A i \in (lo + 1)..(k + 1) : Q[i] = Apply(Q[i - 1], cs[i])
        <3> SUFFICES ASSUME NEW i \in (lo + 1)..(k + 1) PROVE Q[i] = Apply(Q[i - 1], cs[i])
            OBVIOUS
        <3>1. i - 1 \in lo..k /\ Q[i - 1] = R[i - 1]
            BY <2>3, <2>7
        <3>2. CASE i <= k
            BY <2>3, <2>4, <2>7, <3>1, <3>2
        <3>3. CASE i = k + 1
            <4>1. i - 1 = k /\ Q[i] = new
                BY <2>3, <2>7, <3>3
            <4> QED
                BY <3>1, <3>3, <4>1 DEF new
        <3> QED
            BY <2>3, <3>2, <3>3
    <2>9. Run(Q, cs, lo, k + 1) /\ Q[lo] = d
        BY <2>6, <2>8 DEF Run
    <2> QED
        BY <2>3, <2>9
<1> HIDE DEF S
<1>3. Nat \subseteq S
    BY <1>1, <1>2, SetInduction
<1>4. hi - lo \in Nat /\ lo + (hi - lo) = hi /\ hi <= n
    OBVIOUS
<1>5. hi - lo \in S
    BY <1>3, <1>4
<1> QED
    BY <1>4, <1>5 DEF S

\* None of the commands adds to what it finds.
Overwrites(cs, n) == \A i \in 1..n : cs[i].op # "UpdateTenantUsage"

\* Two runs that start from tables which the command at p makes equal end in the
\* same tables.
LEMMA RunsMerge ==
    ASSUME NEW n \in Nat, NEW cs \in [1..n -> Commands], NEW lo \in 0..n, NEW hi \in lo..n,
           Overwrites(cs, n),
           NEW R, NEW Q, Run(R, cs, lo, hi), Run(Q, cs, lo, hi), NEW p \in (lo + 1)..hi,
           Apply(R[lo], cs[p]) = Apply(Q[lo], cs[p])
    PROVE  R[hi] = Q[hi]
<1>1. /\ \A i \in lo..hi : R[i] \in Tables /\ Q[i] \in Tables
      /\ \A i \in (lo + 1)..hi : R[i] = Apply(R[i - 1], cs[i]) /\ Q[i] = Apply(Q[i - 1], cs[i])
    BY DEF Run
<1>2. cs[p] \in Commands /\ cs[p].op # "UpdateTenantUsage"
    BY DEF Overwrites
<1> DEFINE S == {m \in Nat : lo + m < p => Apply(R[lo + m], cs[p]) = Apply(Q[lo + m], cs[p])}
<1>3. 0 \in S
    OBVIOUS
<1>4. ASSUME NEW m \in Nat, m \in S PROVE m + 1 \in S
    <2> SUFFICES ASSUME lo + (m + 1) < p
                 PROVE  Apply(R[lo + (m + 1)], cs[p]) = Apply(Q[lo + (m + 1)], cs[p])
        OBVIOUS
    <2> DEFINE k == lo + m
    <2>1. k \in lo..hi /\ k < p /\ k + 1 = lo + (m + 1) /\ k + 1 \in (lo + 1)..hi /\ k + 1 \in 1..n
          /\ (k + 1) - 1 = k
        OBVIOUS
    <2>2. Apply(R[k], cs[p]) = Apply(Q[k], cs[p])
        BY <1>4, <2>1
    <2> HIDE DEF k
    <2>3. R[k + 1] = Apply(R[k], cs[k + 1]) /\ Q[k + 1] = Apply(Q[k], cs[k + 1])
          /\ R[k] \in Tables /\ Q[k] \in Tables
          /\ cs[k + 1] \in Commands /\ cs[k + 1].op # "UpdateTenantUsage"
        BY <1>1, <2>1, Zenon DEF Overwrites
    <2>4. Apply(R[k + 1], cs[p]) = Apply(Q[k + 1], cs[p])
        BY <1>2, <2>2, <2>3, ApplyMerges
    <2> QED
        BY <2>1, <2>4
<1> HIDE DEF S
<1>5. Nat \subseteq S
    BY <1>3, <1>4, SetInduction
<1>6. R[p] = Q[p]
    <2>1. (p - 1) - lo \in Nat /\ lo + ((p - 1) - lo) = p - 1 /\ p - 1 < p
        OBVIOUS
    <2>2. Apply(R[p - 1], cs[p]) = Apply(Q[p - 1], cs[p])
        BY <1>5, <2>1 DEF S
    <2> QED
        BY <1>1, <2>2
<1> DEFINE T == {m \in Nat : p + m <= hi => R[p + m] = Q[p + m]}
<1>7. 0 \in T
    BY <1>6
<1>8. ASSUME NEW m \in Nat, m \in T PROVE m + 1 \in T
    <2> SUFFICES ASSUME p + (m + 1) <= hi PROVE R[p + (m + 1)] = Q[p + (m + 1)]
        OBVIOUS
    <2>1. p + m <= hi /\ R[p + m] = Q[p + m]
        BY <1>8
    <2>2. p + (m + 1) \in (lo + 1)..hi /\ (p + (m + 1)) - 1 = p + m
        OBVIOUS
    <2> QED
        BY <1>1, <2>1, <2>2
<1> HIDE DEF T
<1>9. Nat \subseteq T
    BY <1>7, <1>8, SetInduction
<1>10. hi - p \in Nat /\ p + (hi - p) = hi
    OBVIOUS
<1>11. hi - p \in T
    BY <1>9, <1>10
<1> QED
    BY <1>10, <1>11 DEF T

-----------------------------------------------------------------------------
\* What is left of the log up to hi leads from d to the tables D[hi], wherever
\* between lo and k it is started.
Converges(d, cs, D, lo, k, hi) ==
    \A j \in lo..k : \E R : Run(R, cs, j, hi) /\ R[j] = d /\ R[hi] = D[hi]

\* The same for one command more.
LEMMA ConvergesFurther ==
    ASSUME NEW n \in Nat, NEW cs \in [1..n -> Commands], NEW D, Run(D, cs, 0, n),
           NEW lo \in Nat, NEW k \in Nat, NEW hi \in k..(n - 1), NEW d, Converges(d, cs, D, lo, k, hi)
    PROVE  Converges(d, cs, D, lo, k, hi + 1)
<1> SUFFICES ASSUME NEW j \in lo..k
             PROVE  \E R : Run(R, cs, j, hi + 1) /\ R[j] = d /\ R[hi + 1] = D[hi + 1]
    BY DEF Converges
<1>1. PICK R : Run(R, cs, j, hi) /\ R[j] = d /\ R[hi] = D[hi]
    BY DEF Converges
<1>2. j \in Nat /\ j <= hi /\ hi \in j..hi /\ hi + 1 \in 1..n /\ hi \in Nat /\ (hi + 1) - 1 = hi
    OBVIOUS
<1>3. R \in [j..hi -> Tables] /\ \A i \in (j + 1)..hi : R[i] = Apply(R[i - 1], cs[i])
    BY <1>1 DEF Run
<1>4. D[hi + 1] = Apply(D[hi], cs[hi + 1]) /\ D[hi + 1] \in Tables
    BY <1>2 DEF Run
<1> DEFINE Q == [i \in j..(hi + 1) |-> IF i <= hi THEN R[i] ELSE D[hi + 1]]
<1>5. Q \in [j..(hi + 1) -> Tables] /\ \A i \in j..(hi + 1) : Q[i] = IF i <= hi THEN R[i] ELSE D[hi + 1]
    BY <1>2, <1>3, <1>4
<1> HIDE DEF Q
<1>6. ASSUME NEW i \in (j + 1)..(hi + 1) PROVE Q[i] = Apply(Q[i - 1], cs[i])
    <2>1. i - 1 \in j..hi /\ Q[i - 1] = R[i - 1]
        BY <1>2, <1>5
    <2>2. CASE i <= hi
        BY <1>2, <1>3, <1>5, <2>1, <2>2
    <2>3. CASE i = hi + 1
        <3>1. i - 1 = hi /\ Q[i] = D[hi + 1]
            BY <1>2, <1>5, <2>3
        <3> QED
            BY <1>1, <1>4, <2>1, <2>3, <3>1
    <2> QED
        BY <1>2, <2>2, <2>3
<1>7. Run(Q, cs, j, hi + 1)
    BY <1>5, <1>6 DEF Run
<1>8. Q[j] = d /\ Q[hi + 1] = D[hi + 1]
    BY <1>1, <1>2, <1>5
<1> QED
    BY <1>7, <1>8

\* A command that the rest of the log holds may be applied first: when it is
\* reached it writes the same again.
LEMMA ConvergesApplied ==
    ASSUME NEW n \in Nat, NEW cs \in [1..n -> Commands], NEW D,
           Overwrites(cs, n),
           NEW lo \in Nat, NEW k \in Nat, lo <= k, NEW hi \in (k + 1)..n, NEW d \in Tables,
           Converges(d, cs, D, lo, k, hi)
    PROVE  Converges(Apply(d, cs[k + 1]), cs, D, lo, k + 1, hi)
<1> DEFINE c == cs[k + 1]
           e == Apply(d, c)
<1>1. c \in Commands /\ c.op # "UpdateTenantUsage" /\ k + 1 \in 1..n
    BY DEF Overwrites
<1>2. e \in Tables /\ Apply(e, c) = e
    BY <1>1, ApplyKeepsTables, ApplyTwice
<1> HIDE DEF c, e
<1> SUFFICES ASSUME NEW j \in lo..(k + 1)
             PROVE  \E R : Run(R, cs, j, hi) /\ R[j] = e /\ R[hi] = D[hi]
    BY DEF Converges, e, c
<1>3. CASE j <= k
    <2>1. j \in lo..k /\ j \in 0..n /\ hi \in j..n /\ k + 1 \in (j + 1)..hi
        BY <1>3
    <2>2. PICK R : Run(R, cs, j, hi) /\ R[j] = d /\ R[hi] = D[hi]
        BY <2>1 DEF Converges
    <2>3. PICK Q : Run(Q, cs, j, hi) /\ Q[j] = e
        BY <1>2, <2>1, RunExists
    <2>0. PICK p \in (j + 1)..hi : p = k + 1
        BY <2>1
    <2>4. Apply(R[j], cs[p]) = Apply(Q[j], cs[p])
        BY <1>2, <2>0, <2>2, <2>3 DEF c, e
    <2>5. R[hi] = Q[hi]
        BY <2>1, <2>2, <2>3, <2>4, RunsMerge
    <2> QED
        BY <2>2, <2>3, <2>5
<1>4. CASE j = k + 1
    <2>1. PICK R : Run(R, cs, k, hi) /\ R[k] = d /\ R[hi] = D[hi]
        BY DEF Converges
    <2>2. R \in [k..hi -> Tables] /\ \A i \in (k + 1)..hi : R[i] = Apply(R[i - 1], cs[i])
        BY <2>1 DEF Run
    <2> DEFINE Q == [i \in (k + 1)..hi |-> R[i]]
    <2>3. Q \in [(k + 1)..hi -> Tables] /\ \A i \in (k + 1)..hi : Q[i] = R[i]
        BY <2>2
    <2> HIDE DEF Q
    <2>4. \A i \in (k + 2)..hi : Q[i] = Apply(Q[i - 1], cs[i])
        BY <2>2, <2>3
    <2>5. Run(Q, cs, k + 1, hi)
        BY <2>3, <2>4 DEF Run
    <2>6. R[k + 1] = Apply(R[(k + 1) - 1], cs[k + 1])
        BY <2>2
    <2>7. Q[k + 1] = e /\ Q[hi] = D[hi]
        BY <2>1, <2>3, <2>6 DEF e, c
    <2> QED
        BY <1>4, <2>5, <2>7
<1> QED
    BY <1>3, <1>4

-----------------------------------------------------------------------------
\* Applied and Meaning are recursive functions; each is the end of a run.
LEMMA AppliedIsRun ==
    ASSUME NEW entry \in Seq(Commands), NEW d \in Tables, NEW R, Run(R, entry, 0, Len(entry)),
           R[0] = d
    PROVE  Applied(d, entry) = R[Len(entry)]
<1> DEFINE n == Len(entry)
           Is(f) == f = [i \in 0..n |-> IF i = 0 THEN d ELSE Apply(f[i - 1], entry[i])]
           after == CHOOSE f : Is(f)
<1>1. n \in Nat
    OBVIOUS
<1>2. Applied(d, entry) = after[n]
    BY DEF Applied
<1> HIDE DEF n
<1>3. R \in [0..n -> Tables] /\ \A i \in 1..n : R[i] = Apply(R[i - 1], entry[i])
    BY DEF Run, n
<1>4. Is(R)
    <2>1. DOMAIN R = 0..n /\ R = [i \in 0..n |-> R[i]]
        BY <1>3
    <2>2. \A i \in 0..n : R[i] = IF i = 0 THEN d ELSE Apply(R[i - 1], entry[i])
        BY <1>1, <1>3
    <2> QED
        BY <2>1, <2>2, Zenon
<1>5. Is(after)
    BY <1>4, Zenon
<1> DEFINE S == {i \in Nat : i <= n => after[i] = R[i]}
<1>6. \A i \in 0..n : after[i] = IF i = 0 THEN d ELSE Apply(after[i - 1], entry[i])
    BY <1>5, Zenon
<1> HIDE DEF after, Is
<1>7. 0 \in S
    BY <1>1, <1>6
<1>8. ASSUME NEW i \in Nat, i \in S PROVE i + 1 \in S
    <2> SUFFICES ASSUME i + 1 <= n PROVE after[i + 1] = R[i + 1]
        OBVIOUS
    <2>1. i \in 0..n /\ i + 1 \in 1..n /\ i + 1 \in 0..n /\ i + 1 # 0 /\ (i + 1) - 1 = i
        BY <1>1
    <2>2. after[i] = R[i]
        BY <1>8, <2>1
    <2>3. after[i + 1] = Apply(after[i], entry[i + 1])
        BY <1>6, <2>1
    <2>4. R[i + 1] = Apply(R[i], entry[i + 1])
        BY <1>3, <2>1
    <2> QED
        BY <2>2, <2>3, <2>4
<1> HIDE DEF S
<1>9. n \in S
    BY <1>1, <1>7, <1>8, SetInduction
<1> QED
    BY <1>1, <1>2, <1>9 DEF S, n

-----------------------------------------------------------------------------
Fresh == [EmptyTables EXCEPT !.worker = {BootKey}]

\* The commands of the log in one sequence cs of n, the entry i from start[i] + 1 on.
Layout(n, cs, start) ==
    /\ n \in Nat /\ cs \in [1..n -> Commands] /\ start \in [1..(Len(log) + 1) -> 0..n]
    /\ start[1] = 0 /\ start[Len(log) + 1] = n
    /\ \A i, j \in 1..(Len(log) + 1) : i <= j => start[i] <= start[j]
    /\ \A i \in 1..Len(log) :
         /\ start[i + 1] = start[i] + Len(log[i])
         /\ \A s \in 1..Len(log[i]) : cs[start[i] + s] = log[i][s]

\* No command of the log adds to what it finds.
Steady == \A i \in 1..Len(log) : \A s \in 1..Len(log[i]) : log[i][s].op # "UpdateTenantUsage"

\* The tables D[j] are what the first j commands mean.  The database has seen
\* the first hi of them, and applying the rest of these leads to D[hi] from the
\* cursor as from the first entry of the log and any place between the two.
Traced(n, cs, start, D, hi) ==
    /\ Layout(n, cs, start) /\ Overwrites(cs, n)
    /\ Run(D, cs, 0, n) /\ D[0] = Fresh
    /\ hi \in (start[next] + sub)..n
    /\ Converges(db, cs, D, start[first], start[next] + sub, hi)

Placed == Inv /\ next <= Len(log) + 1 /\ first <= next /\ BootKey \in db.worker

Tracked ==
    /\ Inv /\ next <= Len(log) + 1 /\ first <= next /\ BootKey \in db.worker
    /\ \E n, cs, start, D, hi : Traced(n, cs, start, D, hi)

\* The last of the tables is what the log means.
LEMMA MeaningIsEnd ==
    ASSUME TypeOK, NEW n, NEW cs, NEW start, NEW D, Layout(n, cs, start), Run(D, cs, 0, n),
           D[0] = Fresh
    PROVE  Meaning(log) = D[n]
<1> DEFINE m == Len(log)
           Is(f) == f = [i \in 0..m |-> IF i = 0 THEN Fresh ELSE Applied(f[i - 1], log[i])]
           after == CHOOSE f : Is(f)
           F == [i \in 0..m |-> D[start[i + 1]]]
<1>1. m \in Nat /\ log \in Seq(Seq(Commands) \ {<<>>}) /\ n \in Nat
    BY DEF TypeOK, Layout
<1>2. Meaning(log) = after[m]
    BY DEF Meaning, Fresh
<1> HIDE DEF m
<1>3. D \in [0..n -> Tables] /\ \A i \in 1..n : D[i] = Apply(D[i - 1], cs[i])
    BY DEF Run
<1>4. /\ start \in [1..(m + 1) -> 0..n] /\ start[1] = 0 /\ start[m + 1] = n
      /\ \A i \in 1..m : start[i + 1] = start[i] + Len(log[i])
                         /\ \A s \in 1..Len(log[i]) : cs[start[i] + s] = log[i][s]
    BY DEF Layout, m
<1>5. \A i \in 0..m : F[i] = D[start[i + 1]]
    OBVIOUS
<1>a. F = [i \in 0..m |-> F[i]]
    OBVIOUS
<1> HIDE DEF F
<1>6. F[0] = Fresh /\ F[m] = D[n]
    BY <1>1, <1>4, <1>5
<1>7. ASSUME NEW i \in 1..m PROVE F[i] = Applied(F[i - 1], log[i])
    <2> DEFINE entry == log[i]
               a == start[i]
               R == [s \in 0..Len(entry) |-> D[a + s]]
    <2>1. entry \in Seq(Commands) /\ Len(entry) \in Nat
        BY <1>1 DEF m
    <2>2. /\ a \in 0..n /\ start[i + 1] = a + Len(entry) /\ a + Len(entry) <= n
          /\ \A s \in 1..Len(entry) : cs[a + s] = entry[s]
        BY <1>1, <1>4
    <2> HIDE DEF entry, a
    <2>3. R \in [0..Len(entry) -> Tables] /\ \A s \in 0..Len(entry) : R[s] = D[a + s]
        BY <1>1, <1>3, <2>1, <2>2
    <2> HIDE DEF R
    <2>4. ASSUME NEW s \in 1..Len(entry) PROVE R[s] = Apply(R[s - 1], entry[s])
        <3>1. s - 1 \in 0..Len(entry) /\ a + s \in 1..n /\ (a + s) - 1 = a + (s - 1)
            BY <1>1, <2>1, <2>2
        <3> QED
            BY <1>3, <2>1, <2>2, <2>3, <3>1
    <2>5. Run(R, entry, 0, Len(entry))
        BY <2>3, <2>4 DEF Run
    <2>6. R[0] = D[a] /\ R[Len(entry)] = D[start[i + 1]] /\ D[a] \in Tables
        BY <1>3, <2>1, <2>2, <2>3
    <2>7. Applied(D[a], entry) = D[start[i + 1]]
        BY <2>1, <2>5, <2>6, AppliedIsRun
    <2>8. F[i] = D[start[i + 1]] /\ F[i - 1] = D[a]
        BY <1>1, <1>5 DEF a
    <2> QED
        BY <2>7, <2>8 DEF entry
<1>8. Is(F)
    <2>1. \A i \in 0..m : F[i] = IF i = 0 THEN Fresh ELSE Applied(F[i - 1], log[i])
        BY <1>1, <1>6, <1>7
    <2> QED
        BY <1>a, <2>1, Zenon
<1>9. Is(after)
    BY <1>8, Zenon
<1>10. \A i \in 0..m : after[i] = IF i = 0 THEN Fresh ELSE Applied(after[i - 1], log[i])
    BY <1>9, Zenon
<1> HIDE DEF after, Is
<1> DEFINE S == {i \in Nat : i <= m => after[i] = F[i]}
<1>11. 0 \in S
    BY <1>1, <1>6, <1>10
<1>12. ASSUME NEW i \in Nat, i \in S PROVE i + 1 \in S
    <2> SUFFICES ASSUME i + 1 <= m PROVE after[i + 1] = F[i + 1]
        OBVIOUS
    <2>1. i \in 0..m /\ i + 1 \in 1..m /\ i + 1 \in 0..m /\ i + 1 # 0 /\ (i + 1) - 1 = i
        BY <1>1
    <2>2. after[i] = F[i]
        BY <1>12, <2>1
    <2>3. after[i + 1] = Applied(after[i], log[i + 1])
        BY <1>10, <2>1
    <2>4. F[i + 1] = Applied(F[i], log[i + 1])
        BY <1>7, <2>1
    <2> QED
        BY <2>2, <2>3, <2>4
<1> HIDE DEF S
<1>13. m \in S
    BY <1>1, <1>11, <1>12, SetInduction
<1> QED
    BY <1>1, <1>2, <1>6, <1>13 DEF S

\* Where the cursor stands in the sequence.
LEMMA CursorPlace ==
    ASSUME TypeOK, next <= Len(log) + 1, first <= next, NEW n, NEW cs, NEW start, Layout(n, cs, start)
    PROVE  /\ start[next] + sub \in 0..n /\ start[first] \in 0..n
           /\ start[first] <= start[next] + sub
           /\ next <= Len(log) =>
                /\ start[next] + sub + 1 \in 1..n
                /\ cs[start[next] + sub + 1] = log[next][sub + 1]
                /\ sub + 1 = Len(log[next]) => start[next + 1] = start[next] + sub + 1
<1>1. /\ Len(log) \in Nat /\ next \in 1..(Len(log) + 1) /\ first \in 1..(Len(log) + 1) /\ sub \in Nat
      /\ n \in Nat /\ start \in [1..(Len(log) + 1) -> 0..n]
    BY DEF TypeOK, Layout
<1>2. start[first] <= start[next] /\ start[first] \in 0..n /\ start[next] \in 0..n
    BY <1>1 DEF Layout
<1>3. CASE next > Len(log)
    BY <1>1, <1>2, <1>3 DEF TypeOK
<1>4. CASE next <= Len(log)
    <2>1. next \in 1..Len(log) /\ next + 1 \in 1..(Len(log) + 1)
        BY <1>1, <1>4
    <2>2. log[next] \in Seq(Commands) /\ Len(log[next]) \in Nat /\ sub < Len(log[next])
        BY <1>4, <2>1 DEF TypeOK
    <2>3. start[next + 1] = start[next] + Len(log[next]) /\ start[next + 1] \in 0..n
        BY <1>1, <2>1 DEF Layout
    <2>4. sub + 1 \in 1..Len(log[next])
        BY <1>1, <2>2
    <2>5. cs[start[next] + (sub + 1)] = log[next][sub + 1]
        BY <2>1, <2>4 DEF Layout
    <2>6. start[next] + (sub + 1) = start[next] + sub + 1
        BY <1>1, <1>2
    <2>7. /\ start[next] + sub \in 0..n /\ start[first] <= start[next] + sub
          /\ start[next] + sub + 1 \in 1..n
          /\ sub + 1 = Len(log[next]) => start[next + 1] = start[next] + sub + 1
        <3> DEFINE a == start[next]
                   b == start[first]
                   z == start[next + 1]
                   l == Len(log[next])
        <3>1. a \in 0..n /\ b \in 0..n /\ z \in 0..n /\ l \in Nat /\ b <= a /\ z = a + l /\ sub < l
            BY <1>2, <2>2, <2>3
        <3> HIDE DEF a, b, z, l
        <3>2. a + sub \in 0..n /\ b <= a + sub /\ a + sub + 1 \in 1..n
              /\ (sub + 1 = l => z = a + sub + 1)
            BY <1>1, <3>1
        <3> QED
            BY <3>2 DEF a, b, z, l
    <2> QED
        BY <1>2, <2>5, <2>6, <2>7, Zenon
<1> QED
    BY <1>1, <1>3, <1>4

-----------------------------------------------------------------------------
\* The empty log and the fresh database.
LEMMA TrackedInit == Init => Tracked
<1> SUFFICES ASSUME Init PROVE Tracked
    OBVIOUS
<1>1. Inv /\ db \in Tables
    BY InitInv DEF Inv, TypeOK
<1>2. db = Fresh /\ log = <<>> /\ Len(log) = 0 /\ first = 1 /\ next = 1 /\ sub = 0
    BY DEF Init, Fresh
<1>3. BootKey \in db.worker
    BY <1>2 DEF Fresh, EmptyTables
<1> DEFINE cs == [i \in 1..0 |-> db]
           start == [i \in 1..1 |-> 0]
           D == [i \in 0..0 |-> db]
<1>4. /\ cs \in [1..0 -> Commands] /\ start \in [1..1 -> 0..0] /\ start[1] = 0
      /\ D \in [0..0 -> Tables] /\ D[0] = db
    BY <1>1
<1> HIDE DEF cs, start, D
<1>5. Layout(0, cs, start)
    <2>1. 1..(Len(log) + 1) = 1..1 /\ 1..Len(log) = {} /\ Len(log) + 1 = 1
        BY <1>2
    <2> QED
        BY <1>4, <2>1 DEF Layout
<1>6. Run(D, cs, 0, 0)
    BY <1>4 DEF Run
<1>7. start[next] + sub = 0 /\ start[first] = 0
    BY <1>2, <1>4
<1>8. Converges(db, cs, D, 0, 0, 0)
    BY <1>4, <1>6 DEF Converges
<1>9. Traced(0, cs, start, D, 0)
    BY <1>2, <1>4, <1>5, <1>6, <1>7, <1>8 DEF Traced, Overwrites
<1> QED
    BY <1>1, <1>2, <1>3, <1>9 DEF Tracked

\* No command touches the row of register_bootstrap_worker.
LEMMA BootRowStays ==
    ASSUME NEW d \in Tables, NEW c \in Commands, BootKey \in d.worker
    PROVE  BootKey \in Apply(d, c).worker
<1>0. c \in AllCommands
    BY CommandsAssumption
<1>1. c.op = "RemoveWorker" => c.node \in Nodes
    BY <1>0 DEF AllCommands
<1>2. CASE c.op = "UpdateTenantUsage"
    <2>1. Apply(d, c) = UpdateTenantUsage(d, c)
        BY <1>2 DEF Apply
    <2> QED
        BY <2>1 DEF UpdateTenantUsage, Tables
<1>3. CASE c.op # "UpdateTenantUsage"
    BY <1>1, <1>3, ApplyByField, BootKeyAssumption, Zenon DEF WorkerOf
<1> QED
    BY <1>2, <1>3

\* A new entry comes after what is there.
LEMMA TrackedCommit ==
    ASSUME Tracked, Inv', NEW m \in Nat, NEW e \in [1..m -> Commands], Commit(e),
           \A s \in 1..m : e[s].op # "UpdateTenantUsage"
    PROVE  Tracked'
<1>1. TypeOK /\ next <= Len(log) + 1 /\ first <= next
    BY DEF Tracked, Inv
<1>2. PICK n, cs, start, D, hi : Traced(n, cs, start, D, hi)
    BY DEF Tracked
<1> DEFINE l == Len(log)
           k == start[next] + sub
<1>3. /\ n \in Nat /\ cs \in [1..n -> Commands] /\ start \in [1..(l + 1) -> 0..n]
      /\ start[1] = 0 /\ start[l + 1] = n
      /\ \A i, j \in 1..(l + 1) : i <= j => start[i] <= start[j]
      /\ \A i \in 1..l :
           /\ start[i + 1] = start[i] + Len(log[i])
           /\ \A s \in 1..Len(log[i]) : cs[start[i] + s] = log[i][s]
    BY <1>2, Zenon DEF Traced, Layout
<1>4. log \in Seq(Seq(Commands) \ {<<>>}) /\ l \in Nat
    BY <1>1 DEF TypeOK
<1>5. e \in Seq(Commands) /\ Len(e) = m
    OBVIOUS
<1>6. log' = Append(log, e) /\ UNCHANGED <<first, db, next, sub>>
    BY DEF Commit
<1>7. Len(log') = l + 1 /\ log'[l + 1] = e /\ \A i \in 1..l : log'[i] = log[i]
    BY <1>4, <1>6
<1>8. k \in 0..n /\ start[first] \in 0..n /\ start[first] <= k /\ hi \in k..n
      /\ Converges(db, cs, D, start[first], k, hi) /\ Run(D, cs, 0, n) /\ D[0] = Fresh
      /\ Overwrites(cs, n)
    BY <1>1, <1>2, CursorPlace, Zenon DEF Traced
<1> HIDE DEF l
<1> DEFINE n2 == n + m
           csNew == [i \in 1..n2 |-> IF i <= n THEN cs[i] ELSE e[i - n]]
           startNew == [i \in 1..(l + 2) |-> IF i <= l + 1 THEN start[i] ELSE n2]
<1>9. n2 \in Nat /\ n <= n2 /\ n \in 0..n2
    BY <1>3
<1>10. PICK cs2 : /\ cs2 \in [1..n2 -> Commands]
                  /\ \A i \in 1..n2 : cs2[i] = IF i <= n THEN cs[i] ELSE e[i - n]
    <2>1. /\ csNew \in [1..n2 -> Commands]
          /\ \A i \in 1..n2 : csNew[i] = IF i <= n THEN cs[i] ELSE e[i - n]
        BY <1>3, <1>9
    <2> QED
        BY <2>1, Zenon
<1>11. PICK start2 : /\ start2 \in [1..(l + 2) -> 0..n2]
                     /\ \A i \in 1..(l + 2) : start2[i] = IF i <= l + 1 THEN start[i] ELSE n2
    <2>1. /\ startNew \in [1..(l + 2) -> 0..n2]
          /\ \A i \in 1..(l + 2) : startNew[i] = IF i <= l + 1 THEN start[i] ELSE n2
        BY <1>3, <1>4, <1>9
    <2> QED
        BY <2>1
<1> HIDE DEF csNew, startNew
<1>12. Layout(n2, cs2, start2)'
    <2>1. start2[1] = 0 /\ start2[l + 2] = n2
        BY <1>3, <1>4, <1>11
    <2>2. ASSUME NEW i \in 1..(l + 2), NEW j \in 1..(l + 2), i <= j
          PROVE  start2[i] <= start2[j]
        <3>1. CASE j <= l + 1
            <4>1. i \in 1..(l + 1) /\ j \in 1..(l + 1)
                BY <1>4, <2>2, <3>1
            <4>2. start2[i] = start[i] /\ start2[j] = start[j]
                BY <1>4, <1>11, <4>1
            <4> QED
                BY <1>3, <2>2, <4>1, <4>2
        <3>2. CASE j = l + 2
            <4>1. start2[j] = n2 /\ start2[i] \in 0..n2
                BY <1>4, <1>11, <3>2
            <4> QED
                BY <1>9, <4>1
        <3> QED
            BY <1>4, <3>1, <3>2
    <2>3. ASSUME NEW i \in 1..(l + 1)
          PROVE  /\ start2[i + 1] = start2[i] + Len(log'[i])
                 /\ \A s \in 1..Len(log'[i]) : cs2[start2[i] + s] = log'[i][s]
        <3>1. CASE i <= l
            <4>1. start2[i] = start[i] /\ start2[i + 1] = start[i + 1] /\ log'[i] = log[i]
                  /\ start[i + 1] = start[i] + Len(log[i]) /\ start[i + 1] \in 0..n /\ start[i] \in 0..n
                BY <1>3, <1>4, <1>7, <1>11, <3>1
            <4>2. log[i] \in Seq(Commands)
                BY <1>4, <3>1 DEF l
            <4>3. ASSUME NEW s \in 1..Len(log[i]) PROVE cs2[start[i] + s] = log[i][s]
                <5>1. start[i] + s \in 1..n
                    BY <1>3, <4>1, <4>2
                <5>2. cs2[start[i] + s] = cs[start[i] + s]
                    BY <1>3, <1>9, <1>10, <5>1
                <5> QED
                    BY <1>3, <3>1, <5>2
            <4> QED
                BY <4>1, <4>3
        <3>2. CASE i = l + 1
            <4>1. start2[i] = n /\ start2[i + 1] = n2 /\ log'[i] = e
                BY <1>3, <1>4, <1>7, <1>11, <3>2
            <4>2. \A s \in 1..m : n + s \in 1..n2 /\ ~(n + s <= n) /\ (n + s) - n = s
                BY <1>3
            <4>3. \A s \in 1..m : cs2[n + s] = e[s]
                BY <1>10, <4>2
            <4> QED
                BY <1>5, <4>1, <4>3
        <3> QED
            BY <1>4, <3>1, <3>2
    <2>4. Len(log') = l + 1 /\ (l + 1) + 1 = l + 2
        BY <1>4, <1>7
    <2> QED
        BY <1>9, <1>10, <1>11, <2>1, <2>2, <2>3, <2>4, Zenon DEF Layout
<1>13. PICK Q : Run(Q, cs2, n, n2) /\ Q[n] = D[n]
    <2>1. D[n] \in Tables /\ n2 \in n..n2
        BY <1>3, <1>8, <1>9 DEF Run
    <2> HIDE DEF n2
    <2> QED
        BY <1>9, <1>10, <2>1, RunExists, Zenon
<1> DEFINE DNew == [i \in 0..n2 |-> IF i <= n THEN D[i] ELSE Q[i]]
<1>14. /\ D \in [0..n -> Tables] /\ \A i \in 1..n : D[i] = Apply(D[i - 1], cs[i])
       /\ Q \in [n..n2 -> Tables] /\ \A i \in (n + 1)..n2 : Q[i] = Apply(Q[i - 1], cs2[i])
    BY <1>8, <1>13 DEF Run
<1>15. PICK D2 : /\ D2 \in [0..n2 -> Tables]
                 /\ \A i \in 0..n2 : D2[i] = IF i <= n THEN D[i] ELSE Q[i]
    <2>1. DNew \in [0..n2 -> Tables] /\ \A i \in 0..n2 : DNew[i] = IF i <= n THEN D[i] ELSE Q[i]
        BY <1>3, <1>9, <1>14
    <2> QED
        BY <2>1
<1> HIDE DEF DNew
<1>16. Run(D2, cs2, 0, n2)
    <2> SUFFICES ASSUME NEW i \in 1..n2 PROVE D2[i] = Apply(D2[i - 1], cs2[i])
        BY <1>15 DEF Run
    <2>1. CASE i <= n
        BY <1>3, <1>9, <1>10, <1>14, <1>15, <2>1
    <2>2. CASE i > n
        <3>1. i \in (n + 1)..n2 /\ i - 1 \in n..n2 /\ i - 1 \in 0..n2 /\ D2[i] = Q[i]
            BY <1>3, <1>9, <1>15, <2>2
        <3>2. D2[i - 1] = Q[i - 1]
            BY <1>3, <1>13, <1>15, <3>1
        <3> QED
            BY <1>14, <3>1, <3>2
    <2> QED
        BY <1>3, <1>9, <2>1, <2>2
<1>17. start2[next] = start[next] /\ start2[first] = start[first]
    BY <1>1, <1>4, <1>11 DEF TypeOK, l
<1>18. Converges(db, cs2, D2, start[first], k, hi)
    <2> SUFFICES ASSUME NEW j \in start[first]..k
                 PROVE  \E R : Run(R, cs2, j, hi) /\ R[j] = db /\ R[hi] = D2[hi]
        BY DEF Converges
    <2>1. PICK R : Run(R, cs, j, hi) /\ R[j] = db /\ R[hi] = D[hi]
        BY <1>8 DEF Converges
    <2>2. \A i \in (j + 1)..hi : i \in 1..n2 /\ cs2[i] = cs[i]
        BY <1>3, <1>8, <1>9, <1>10
    <2>3. D2[hi] = D[hi]
        BY <1>3, <1>8, <1>9, <1>15
    <2> QED
        BY <2>1, <2>2, <2>3 DEF Run
<1>19. D2[0] = Fresh /\ hi \in k..n2
    BY <1>3, <1>8, <1>9, <1>15
<1>a. Overwrites(cs2, n2)
    <2> SUFFICES ASSUME NEW i \in 1..n2 PROVE cs2[i].op # "UpdateTenantUsage"
        BY DEF Overwrites
    <2>1. CASE i <= n
        BY <1>3, <1>8, <1>10, <2>1 DEF Overwrites
    <2>2. CASE i > n
        <3>1. i - n \in 1..m /\ ~(i <= n)
            BY <1>3, <2>2
        <3> QED
            BY <1>10, <3>1
    <2> QED
        BY <1>3, <2>1, <2>2
<1>20. Traced(n2, cs2, start2, D2, hi)'
    BY <1>a, <1>6, <1>12, <1>16, <1>17, <1>18, <1>19, Zenon DEF Traced
<1>21. next' <= Len(log') + 1 /\ first' <= next' /\ BootKey \in db'.worker
    BY <1>1, <1>4, <1>6, <1>7 DEF Tracked, TypeOK, l
<1> QED
    BY <1>20, <1>21, Zenon DEF Tracked

\* The steps that leave the log and the database: the cursor moves back to the
\* first entry, or the first entry moves towards the cursor.
LEMMA TrackedMoves ==
    ASSUME Tracked, Inv', UNCHANGED <<log, db>>, next' <= Len(log) + 1, first' <= next',
           next' <= next /\ first <= first', (next' = next /\ sub' = sub) \/ sub' = 0
    PROVE  Tracked'
<1>1. TypeOK /\ next <= Len(log) + 1 /\ first <= next /\ TypeOK'
    BY DEF Tracked, Inv
<1>2. PICK n, cs, start, D, hi : Traced(n, cs, start, D, hi)
    BY DEF Tracked
<1>3. /\ Layout(n, cs, start) /\ Run(D, cs, 0, n) /\ D[0] = Fresh
      /\ Overwrites(cs, n)
      /\ hi \in (start[next] + sub)..n
      /\ Converges(db, cs, D, start[first], start[next] + sub, hi)
    BY <1>2 DEF Traced
<1>4. Layout(n, cs, start)'
    BY <1>3, Zenon DEF Layout
<1>5. /\ start[next] + sub \in 0..n /\ start[first] \in 0..n
      /\ start[next'] + sub' \in 0..n /\ start[first'] \in 0..n
    <2>1. start[next] + sub \in 0..n /\ start[first] \in 0..n
        BY <1>1, <1>3, CursorPlace, Zenon
    <2>2. /\ next' \in 1..(Len(log) + 1) /\ first' \in 1..(Len(log) + 1) /\ sub' \in Nat
          /\ next \in 1..(Len(log) + 1) /\ sub \in Nat
        BY <1>1 DEF TypeOK
    <2>3. n \in Nat /\ start \in [1..(Len(log) + 1) -> 0..n]
        BY <1>3 DEF Layout
    <2>4. start[next'] \in 0..n /\ start[first'] \in 0..n /\ start[next] \in 0..n
        BY <2>2, <2>3
    <2> QED
        BY <2>1, <2>2, <2>3, <2>4
<1>6. start[next'] + sub' <= start[next] + sub /\ start[first] <= start[first']
    <2>1. /\ Len(log) \in Nat
          /\ next \in 1..(Len(log) + 1) /\ next' \in 1..(Len(log) + 1)
          /\ first \in 1..(Len(log) + 1) /\ first' \in 1..(Len(log) + 1)
          /\ sub \in Nat /\ sub' \in Nat
        BY <1>1 DEF TypeOK
    <2>2. start[next'] <= start[next] /\ start[first] <= start[first']
        BY <1>3, <2>1, Zenon DEF Layout
    <2>3. start[next] \in Nat /\ start[next'] \in Nat
        <3>1. n \in Nat /\ start \in [1..(Len(log) + 1) -> 0..n]
            BY <1>3, Zenon DEF Layout
        <3> QED
            BY <2>1, <3>1
    <2> QED
        BY <2>1, <2>2, <2>3
<1>7. Converges(db', cs, D, start[first'], start[next'] + sub', hi)
    <2>1. start[first']..(start[next'] + sub') \subseteq start[first]..(start[next] + sub)
        BY <1>5, <1>6
    <2> QED
        BY <1>3, <2>1 DEF Converges
<1>8. hi \in (start[next'] + sub')..n
    BY <1>3, <1>5, <1>6
<1>9. Traced(n, cs, start, D, hi)'
    BY <1>3, <1>4, <1>7, <1>8 DEF Traced
<1> QED
    BY <1>9 DEF Tracked

\* A command is applied, and the cursor passes it or, after a panic, does not.
LEMMA TrackedApplies ==
    ASSUME Tracked, Inv', UNCHANGED <<log, first>>,
           next <= Len(log), db' = Apply(db, log[next][sub + 1]),
           \/ UNCHANGED <<next, sub>>
           \/ sub + 1 = Len(log[next]) /\ next' = next + 1 /\ sub' = 0
           \/ next' = next /\ sub' = sub + 1
    PROVE  Tracked'
<1>1. TypeOK /\ next <= Len(log) + 1 /\ first <= next /\ BootKey \in db.worker
    BY DEF Tracked, Inv
<1>2. PICK n, cs, start, D, top : Traced(n, cs, start, D, top)
    BY DEF Tracked
<1> DEFINE k == start[next] + sub
           lo == start[first]
<1>3. /\ Layout(n, cs, start) /\ Run(D, cs, 0, n) /\ D[0] = Fresh
      /\ Overwrites(cs, n)
      /\ top \in k..n /\ Converges(db, cs, D, lo, k, top)
    BY <1>2, Zenon DEF Traced
<1>4. Layout(n, cs, start)'
    BY <1>3, Zenon DEF Layout
<1>5. /\ k \in 0..n /\ lo \in 0..n /\ lo <= k /\ k + 1 \in 1..n
      /\ cs[k + 1] = log[next][sub + 1]
      /\ sub + 1 = Len(log[next]) => start[next + 1] = k + 1
    BY <1>1, <1>3, CursorPlace, SMTT(30)
<1>6. n \in Nat /\ cs \in [1..n -> Commands] /\ start[next] \in Nat /\ sub \in Nat
      /\ next \in Nat /\ first \in Nat /\ Len(log) \in Nat
    <2>1. sub \in Nat /\ next \in 1..(Len(log) + 1) /\ first \in Nat /\ Len(log) \in Nat
        BY <1>1 DEF TypeOK
    <2>2. n \in Nat /\ cs \in [1..n -> Commands] /\ start \in [1..(Len(log) + 1) -> 0..n]
        BY <1>3, Zenon DEF Layout
    <2> QED
        BY <2>1, <2>2
<1>7. db \in Tables
    BY <1>1 DEF TypeOK
<1>8. start[next'] + sub' \in {k, k + 1}
    BY <1>5, <1>6
<1> HIDE DEF k, lo
<1>9. PICK hi \in (k + 1)..n : Converges(db, cs, D, lo, k, hi)
    <2>1. CASE top = k
        <3>1. k \in k..(n - 1) /\ k \in Nat /\ lo \in Nat /\ k + 1 \in (k + 1)..n
            BY <1>5, <1>6
        <3>2. Converges(db, cs, D, lo, k, k + 1)
            BY <1>3, <1>6, <2>1, <3>1, ConvergesFurther, Zenon
        <3> QED
            BY <3>1, <3>2
    <2>2. CASE top # k
        <3>1. top \in (k + 1)..n
            BY <1>3, <1>5, <1>6, <2>2
        <3> QED
            BY <1>3, <3>1, Zenon
    <2> QED
        BY <2>1, <2>2
<1>10. Converges(db', cs, D, lo, k + 1, hi)
    <2>1. k \in Nat /\ lo \in Nat
        BY <1>5, <1>6
    <2> QED
        BY <1>3, <1>5, <1>6, <1>7, <1>9, <2>1, ConvergesApplied, Zenon
<1>11. Converges(db', cs, D, start[first'], start[next'] + sub', hi)
    <2>1. start[first'] = lo
        BY DEF lo
    <2>2. lo..(start[next'] + sub') \subseteq lo..(k + 1)
        BY <1>5, <1>6, <1>8
    <2> QED
        BY <1>10, <2>1, <2>2 DEF Converges
<1>12. hi \in (start[next'] + sub')..n
    BY <1>5, <1>6, <1>8, <1>9
<1>13. Traced(n, cs, start, D, hi)'
    BY <1>3, <1>4, <1>11, <1>12, Zenon DEF Traced
<1>14. BootKey \in db'.worker
    <2>1. cs[k + 1] \in Commands
        BY <1>5, <1>6
    <2> QED
        BY <1>1, <1>5, <1>7, <2>1, BootRowStays
<1>15. next' <= Len(log') + 1 /\ first' <= next'
    BY <1>1, <1>6
<1> QED
    BY <1>13, <1>14, <1>15 DEF Tracked

\* Every step keeps the trace, while no counting command is committed.
LEMMA TrackedStep ==
    ASSUME Tracked, Steady', [Next]_vars
    PROVE  Tracked'
<1>1. Inv /\ Inv' /\ TypeOK /\ next <= Len(log) + 1 /\ first <= next /\ BootKey \in db.worker
    BY NextInv DEF Tracked, Inv
<1>2. next \in Nat /\ first \in Nat /\ sub \in Nat /\ Len(log) \in Nat
    BY <1>1 DEF TypeOK
<1>3. CASE \E n \in 1..MaxBatch : \E e \in [1..n -> Commands] : Commit(e)
    <2>1. PICK n \in 1..MaxBatch : \E e \in [1..n -> Commands] : Commit(e)
        BY <1>3
    <2>2. PICK e \in [1..n -> Commands] : Commit(e)
        BY <2>1
    <2>3. n \in Nat
        OBVIOUS
    <2>4. \A s \in 1..n : e[s].op # "UpdateTenantUsage"
        <3>1. log' = Append(log, e) /\ log \in Seq(Seq(Commands) \ {<<>>})
            BY <1>1, <2>2 DEF Commit, TypeOK
        <3>2. Len(log') = Len(log) + 1 /\ log'[Len(log) + 1] = e /\ Len(e) = n
            BY <2>3, <3>1
        <3>3. Len(log) + 1 \in 1..Len(log')
            BY <1>2, <3>2
        <3>4. \A s \in 1..Len(log'[Len(log) + 1]) : log'[Len(log) + 1][s].op # "UpdateTenantUsage"
            BY <3>3, Zenon DEF Steady
        <3> QED
            BY <3>2, <3>4
    <2> QED
        BY <1>1, <2>2, <2>3, <2>4, TrackedCommit
<1>4. CASE ApplyNext
    BY <1>1, <1>4, TrackedApplies DEF ApplyNext
<1>5. CASE ApplyPanics
    BY <1>1, <1>5, TrackedApplies DEF ApplyPanics
<1>6. CASE Compact
    BY <1>1, <1>2, <1>6, TrackedMoves DEF Compact
<1>7. CASE Crash
    BY <1>1, <1>2, <1>7, TrackedMoves DEF Crash
<1>8. CASE Restart
    <2>1. db' = db
        BY <1>1, <1>8 DEF Restart, TypeOK, Tables
    <2> QED
        BY <1>1, <1>2, <1>8, <2>1, TrackedMoves DEF Restart
<1>9. CASE UNCHANGED vars
    BY <1>1, <1>2, <1>9, TrackedMoves DEF vars
<1> QED
    BY <1>3, <1>4, <1>5, <1>6, <1>7, <1>8, <1>9 DEF Next

-----------------------------------------------------------------------------
\* What the cursor has passed: whole entries, and the head of the next.
PassedSafely ==
    /\ \A i \in 1..Len(log) : i < next => \A s \in 1..Len(log[i]) : ~Panics(log[i][s])
    /\ next <= Len(log) => \A s \in 1..sub : ~Panics(log[next][s])

ReplayInv == Placed /\ PassedSafely /\ (Steady => Tracked)

\* The cursor stays in the log, after its first entry, and the row of the
\* bootstrap worker stays.
LEMMA PlacedStep ==
    ASSUME Placed, [Next]_vars
    PROVE  Placed'
<1>1. Inv' /\ TypeOK /\ db \in Tables /\ log \in Seq(Seq(Commands) \ {<<>>})
    BY NextInv DEF Placed, Inv, TypeOK
<1>2. next \in Nat /\ first \in Nat /\ sub \in Nat /\ Len(log) \in Nat
    BY <1>1 DEF TypeOK
<1>3. ASSUME NEW e, Commit(e) PROVE Placed'
  <2>1. Len(log') = Len(log) + 1
      BY <1>1, <1>3 DEF Commit
  <2> QED
      BY <1>1, <1>2, <1>3, <2>1 DEF Commit, Placed
<1>4. ASSUME next <= Len(log) PROVE log[next][sub + 1] \in Commands
  <2>1. next \in 1..Len(log) /\ log[next] \in Seq(Commands) /\ sub + 1 \in 1..Len(log[next])
      BY <1>1, <1>2, <1>4 DEF TypeOK
  <2> QED
      BY <2>1
<1>5. CASE ApplyNext
    BY <1>1, <1>2, <1>4, <1>5, BootRowStays DEF ApplyNext, Placed
<1>6. CASE ApplyPanics
    BY <1>1, <1>2, <1>4, <1>6, BootRowStays DEF ApplyPanics, Placed
<1>7. CASE Compact \/ Crash
    BY <1>1, <1>2, <1>7 DEF Compact, Crash, Placed
<1>8. CASE Restart
    BY <1>1, <1>2, <1>8 DEF Restart, Placed, Tables
<1>9. CASE UNCHANGED vars
    BY <1>1, <1>9 DEF vars, Placed
<1> QED
    BY <1>3, <1>5, <1>6, <1>7, <1>8, <1>9 DEF Next

\* The cursor passes a command only after applying it without a panic.
LEMMA PassedStep ==
    ASSUME Placed, PassedSafely, [Next]_vars
    PROVE  PassedSafely'
<1>1. TypeOK /\ log \in Seq(Seq(Commands) \ {<<>>}) /\ next <= Len(log) + 1 /\ first <= next
    BY DEF Placed, Inv, TypeOK
<1>2. next \in Nat \ {0} /\ first \in Nat \ {0} /\ sub \in Nat /\ Len(log) \in Nat
    BY <1>1 DEF TypeOK
<1>3. ASSUME NEW e, Commit(e) PROVE PassedSafely'
  <2>1. /\ Len(log') = Len(log) + 1 /\ \A i \in 1..Len(log) : log'[i] = log[i]
        /\ UNCHANGED <<next, sub>>
      BY <1>1, <1>3 DEF Commit
  <2>2. ASSUME NEW i \in 1..Len(log'), i < next PROVE \A s \in 1..Len(log'[i]) : ~Panics(log'[i][s])
    <3>1. i \in 1..Len(log)
        BY <1>1, <1>2, <2>1, <2>2
    <3> QED
        BY <2>1, <2>2, <3>1 DEF PassedSafely
  <2>3. ASSUME next <= Len(log') PROVE \A s \in 1..sub : ~Panics(log'[next][s])
    <3>1. CASE next <= Len(log)
        BY <1>2, <2>1, <3>1 DEF PassedSafely
    <3>2. CASE next > Len(log)
        BY <1>1, <3>2 DEF TypeOK
    <3> QED
        BY <1>2, <3>1, <3>2
  <2> QED
      BY <2>1, <2>2, <2>3, Zenon DEF PassedSafely
<1>4. CASE ApplyNext
  <2>1. /\ next \in 1..Len(log) /\ ~Panics(log[next][sub + 1]) /\ log' = log
        /\ \/ sub + 1 = Len(log[next]) /\ next' = next + 1 /\ sub' = 0
           \/ next' = next /\ sub' = sub + 1
      BY <1>2, <1>4 DEF ApplyNext
  <2>2. \A s \in 1..(sub + 1) : ~Panics(log[next][s])
    <3> SUFFICES ASSUME NEW s \in 1..(sub + 1) PROVE ~Panics(log[next][s])
        OBVIOUS
    <3>1. s \in 1..sub \/ s = sub + 1
        BY <1>2
    <3>2. next <= Len(log)
        BY <2>1
    <3> QED
        BY <2>1, <3>1, <3>2, Zenon DEF PassedSafely
  <2>3. CASE next' = next /\ sub' = sub + 1
      BY <2>1, <2>2, <2>3, Zenon DEF PassedSafely
  <2>4. CASE sub + 1 = Len(log[next]) /\ next' = next + 1 /\ sub' = 0
    <3>1. \A s \in 1..Len(log[next]) : ~Panics(log[next][s])
        BY <2>2, <2>4
    <3>2. ASSUME NEW i \in 1..Len(log), i < next + 1 PROVE \A s \in 1..Len(log[i]) : ~Panics(log[i][s])
      <4>1. i < next \/ i = next
          BY <1>2, <3>2
      <4> QED
          BY <3>1, <4>1, Zenon DEF PassedSafely
    <3>3. 1..0 = {}
        OBVIOUS
    <3> QED
        BY <2>1, <2>4, <3>2, <3>3, Zenon DEF PassedSafely
  <2> QED
      BY <2>1, <2>3, <2>4
<1>5. CASE ApplyPanics \/ Compact \/ Crash \/ UNCHANGED vars
  <2>1. UNCHANGED <<log, next, sub>>
      BY <1>5 DEF ApplyPanics, Compact, Crash, vars
  <2> QED
      BY <2>1, Zenon DEF PassedSafely
<1>6. CASE Restart
  <2>1. log' = log /\ next' = first /\ sub' = 0 /\ 1..0 = {}
      BY <1>6 DEF Restart
  <2>2. ASSUME NEW i \in 1..Len(log), i < first PROVE \A s \in 1..Len(log[i]) : ~Panics(log[i][s])
    <3>1. i < next
        BY <1>1, <1>2, <2>2
    <3> QED
        BY <3>1 DEF PassedSafely
  <2> QED
      BY <2>1, <2>2, Zenon DEF PassedSafely
<1> QED
    BY <1>3, <1>4, <1>5, <1>6 DEF Next

\* What is in the log stays there.
LEMMA SteadyBefore ==
    ASSUME TypeOK, Steady', [Next]_vars
    PROVE  Steady
<1>1. log \in Seq(Seq(Commands) \ {<<>>}) /\ Len(log) \in Nat
    BY DEF TypeOK
<1>2. ASSUME NEW e, Commit(e) PROVE Steady
  <2>1. \A i \in 1..Len(log) : i \in 1..Len(log') /\ log'[i] = log[i]
      BY <1>1, <1>2 DEF Commit
  <2> QED
      BY <2>1, Zenon DEF Steady
<1>3. CASE log' = log
    BY <1>3, Zenon DEF Steady
<1>4. CASE ApplyNext \/ ApplyPanics \/ Compact \/ Crash \/ Restart \/ UNCHANGED vars
    BY <1>3, <1>4 DEF ApplyNext, ApplyPanics, Compact, Crash, Restart, vars
<1> QED
    BY <1>2, <1>4 DEF Next

\* Every step keeps the invariant of the replay.
LEMMA ReplayStep ==
    ASSUME ReplayInv, [Next]_vars
    PROVE  ReplayInv'
<1>1. Placed /\ PassedSafely /\ TypeOK
    BY DEF ReplayInv, Placed, Inv
<1>2. Placed' /\ PassedSafely'
    BY <1>1, PlacedStep, PassedStep
<1>3. ASSUME Steady' PROVE Tracked'
  <2>1. Tracked
      BY <1>1, <1>3, SteadyBefore DEF ReplayInv
  <2> QED
      BY <1>3, <2>1, TrackedStep
<1> QED
    BY <1>2, <1>3, Zenon DEF ReplayInv

\* The invariant at the start.
LEMMA ReplayInit == Init => ReplayInv
<1> SUFFICES ASSUME Init PROVE ReplayInv
    OBVIOUS
<1>1. Tracked
    BY TrackedInit
<1>2. Placed
    BY <1>1 DEF Tracked, Placed
<1>3. log = <<>> /\ Len(log) = 0 /\ next = 1
    BY DEF Init
<1>4. PassedSafely
    BY <1>3 DEF PassedSafely
<1> QED
    BY <1>1, <1>2, <1>4 DEF ReplayInv

\* At the end of a log without counting commands the trace is the property.
LEMMA TrackedEnds ==
    ASSUME Tracked, next > Len(log)
    PROVE  db = Meaning(log)
<1>1. TypeOK /\ next <= Len(log) + 1 /\ first <= next
    BY DEF Tracked, Inv
<1>2. PICK n, cs, start, D, hi : Traced(n, cs, start, D, hi)
    BY DEF Tracked
<1>3. next = Len(log) + 1 /\ sub = 0
    BY <1>1 DEF TypeOK
<1>4. /\ Layout(n, cs, start) /\ Run(D, cs, 0, n) /\ D[0] = Fresh
      /\ hi \in (start[next] + sub)..n
      /\ Converges(db, cs, D, start[first], start[next] + sub, hi)
    BY <1>2 DEF Traced
<1>5. n \in Nat /\ start[next] = n /\ start[first] \in 0..n
    <2>1. start[first] \in 0..n
        BY <1>1, <1>4, CursorPlace, Zenon
    <2> QED
        BY <1>3, <1>4, <2>1 DEF Layout
<1>6. start[next] + sub = n /\ hi = n /\ n \in start[first]..n
    BY <1>3, <1>4, <1>5
<1>7. PICK R : Run(R, cs, n, n) /\ R[n] = db /\ R[n] = D[n]
    BY <1>4, <1>6 DEF Converges
<1> QED
    BY <1>1, <1>4, <1>7, MeaningIsEnd

\* At the end of the log the invariant is the property: a log that was passed to
\* its end holds no command that panics, and so none that counts.
LEMMA ReplayInvEnds == ReplayInv => ReplayConverges
<1> SUFFICES ASSUME ReplayInv, next > Len(log) PROVE db = Meaning(log)
    BY DEF ReplayConverges
<1>1. next \in Nat /\ Len(log) \in Nat
    BY DEF ReplayInv, Placed, Inv, TypeOK
<1>2. ASSUME NEW i \in 1..Len(log), NEW s \in 1..Len(log[i]) PROVE log[i][s].op # "UpdateTenantUsage"
  <2>1. i < next
      BY <1>1
  <2>2. ~Panics(log[i][s])
      BY <2>1, Zenon DEF ReplayInv, PassedSafely
  <2> QED
      BY <2>2 DEF Panics
<1>3. Tracked
    BY <1>2, Zenon DEF ReplayInv, Steady
<1> QED
    BY <1>3, TrackedEnds

\* Whatever was committed, in whatever batches, and however often the node crashed
\* in the middle of one, was restarted and replayed the log from its first entry
\* over tables that already held its effects: a node that has applied the whole
\* log holds exactly the tables that the log means.  The commands it can get past
\* write what they say and not what they find.
THEOREM ReplayAlwaysConverges == Spec => []ReplayConverges
<1>1. Init => ReplayInv
    BY ReplayInit
<1>2. ReplayInv /\ [Next]_vars => ReplayInv'
    BY ReplayStep
<1>3. ReplayInv => ReplayConverges
    BY ReplayInvEnds
<1> QED
    BY <1>1, <1>2, <1>3, PTL DEF Spec

\* A command whose handler calls Handle::block_on is never passed, however often
\* the node is restarted: nothing that was committed after the first of them is
\* ever applied.
THEOREM PoisonIsNeverPassed == Spec => []PassedSafely
<1>1. Init => ReplayInv
    BY ReplayInit
<1>2. ReplayInv /\ [Next]_vars => ReplayInv'
    BY ReplayStep
<1>3. ReplayInv => PassedSafely
    BY DEF ReplayInv
<1> QED
    BY <1>1, <1>2, <1>3, PTL DEF Spec
=============================================================================
