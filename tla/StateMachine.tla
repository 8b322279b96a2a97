---------------------------- MODULE StateMachine ----------------------------
(***************************************************************************)
(* RaftStateMachine (raft/state_machine.rs): the tables of the redb         *)
(* database as committed entries change them, each sub-proposal of an entry *)
(* in a transaction of its own.  RaftManager::new starts the library with   *)
(* applied = 0, so a restart replays the log that compaction has left over  *)
(* tables that already hold its effects.                                    *)
(*                                                                         *)
(* The quota and IP methods call Handle::block_on on a runtime thread,      *)
(* where it panics: the task of the RaftManager (in a release build, which  *)
(* aborts, the process) ends there.                                         *)
(***************************************************************************)
EXTENDS Integers, Sequences, FiniteSets

CONSTANTS
    Vms, Nodes, Tasks, Tenants,
    Commands,     \* the ProposalData that clients propose
    BootKey,      \* key under which register_bootstrap_worker stores its row
    MaxLog,       \* bound: entries of the log
    MaxBatch,     \* bound: sub-proposals of an entry
    MaxCrashes    \* bound: crashes

None == "none"
Online == "Online"
WorkerStatus == {"Online", "Busy", "Offline", "Failed"}
VmStatus == {"Creating", "Starting", "Running", "Stopping", "Stopped", "Failed"}

AllCommands ==
    [op : {"AssignTask"}, task : Tasks, node : Nodes]
    \union [op : {"CompleteTask"}, task : Tasks]
    \union [op : {"ReassignTask"}, task : Tasks, node : Nodes]
    \union [op : {"RegisterWorker"}, node : Nodes]
    \union [op : {"UpdateWorkerStatus"}, node : Nodes, status : WorkerStatus]
    \union [op : {"RemoveWorker"}, node : Nodes]
    \union [op : {"CreateVm", "MigrateVm"}, vm : Vms, node : Nodes]
    \union [op : {"StartVm", "StopVm", "DeleteVm"}, vm : Vms]
    \union [op : {"UpdateVmStatus"}, vm : Vms, status : VmStatus, node : Nodes]
    \union [op : {"SetTenantQuota", "RemoveTenantQuota"}, tenant : Tenants]
    \union [op : {"UpdateTenantUsage"}, tenant : Tenants, delta : Int]
    \union [op : {"AllocateIp", "IpPoolCommand", "ReleaseVmIps", "OtherVmCommand"}]

ASSUME CommandsAssumption == Commands \subseteq AllCommands
\* The row of register_bootstrap_worker has a big-endian key, which no command
\* addresses.
ASSUME BootKeyAssumption == BootKey \notin Nodes
ASSUME StateMachineBounds == MaxLog \in Nat /\ MaxBatch \in Nat \ {0} /\ MaxCrashes \in Nat

VARIABLES
    log,      \* committed entries, each a sequence of (sub-)proposals
    first,    \* first entry that compaction has left
    db,       \* the tables, durable
    next,     \* entry that is applied next
    sub,      \* sub-proposals of it that are committed
    phase,    \* "up", or "down" after a crash or a panic
    crashes   \* crashes so far; panics are not counted

vars == <<log, first, db, next, sub, phase, crashes>>

-----------------------------------------------------------------------------
(* The apply_* methods, as functions from tables to tables.                 *)

VmRow(s, n) == [status |-> s, node |-> n]
NoVm == VmRow(None, None)

EmptyTables ==
    [task |-> {}, assigned |-> [t \in Tasks |-> None], result |-> {},
     worker |-> {}, wstatus |-> [n \in Nodes |-> None], topology |-> {},
     vm |-> [v \in Vms |-> NoVm],
     quota |-> {}, usage |-> [t \in Tenants |-> 0]]

AssignTask(d, c) == [d EXCEPT !.task = @ \union {c.task}, !.assigned[c.task] = c.node]
CompleteTask(d, c) == [d EXCEPT !.result = @ \union {c.task}, !.assigned[c.task] = None]
ReassignTask(d, c) == [d EXCEPT !.assigned[c.task] = c.node]

RegisterWorker(d, c) ==
    [d EXCEPT !.worker = @ \union {c.node}, !.wstatus[c.node] = Online,
              !.topology = @ \union {c.node}]
UpdateWorkerStatus(d, c) == [d EXCEPT !.wstatus[c.node] = c.status]
RemoveWorkerHalf(d, c) == [d EXCEPT !.wstatus[c.node] = None, !.topology = @ \ {c.node}]
RemoveWorker(d, c) ==
    [d EXCEPT !.worker = @ \ {c.node}, !.wstatus[c.node] = None, !.topology = @ \ {c.node}]

CreateVmOnce(d, c) ==
    IF d.vm[c.vm] # NoVm THEN d ELSE [d EXCEPT !.vm[c.vm] = VmRow("Creating", c.node)]
CreateVm(d, c) == [d EXCEPT !.vm[c.vm] = VmRow("Creating", c.node)]
DeleteVm(d, c) == [d EXCEPT !.vm[c.vm] = NoVm]
UpdateVmStatusInternal(d, c, s) ==
    IF d.vm[c.vm] = NoVm THEN d ELSE [d EXCEPT !.vm[c.vm].status = s]
UpdateVmStatus(d, c) ==
    IF d.vm[c.vm] = NoVm THEN d ELSE [d EXCEPT !.vm[c.vm] = VmRow(c.status, c.node)]
MigrateVm(d, c) ==
    IF d.vm[c.vm] = NoVm THEN d ELSE [d EXCEPT !.vm[c.vm] = VmRow("Stopping", c.node)]

SetTenantQuota(d, c) == [d EXCEPT !.quota = @ \union {c.tenant}]
RemoveTenantQuota(d, c) == [d EXCEPT !.quota = @ \ {c.tenant}, !.usage[c.tenant] = 0]
\* The counters are clamped at zero.
UpdateTenantUsage(d, c) ==
    [d EXCEPT !.usage[c.tenant] = IF @ + c.delta < 0 THEN 0 ELSE @ + c.delta]

\* apply_entry for a proposal that is not a Batch.  AllocateIp and IpPoolCommand
\* panic before they write anything, ReleaseVmIps finds no row to remove, and the
\* other VmCommands are not handled.
Apply(d, c) ==
    CASE c.op = "AssignTask" -> AssignTask(d, c)
      [] c.op = "CompleteTask" -> CompleteTask(d, c)
      [] c.op = "ReassignTask" -> ReassignTask(d, c)
      [] c.op = "RegisterWorker" -> RegisterWorker(d, c)
      [] c.op = "UpdateWorkerStatus" -> UpdateWorkerStatus(d, c)
      [] c.op = "RemoveWorker" -> RemoveWorker(d, c)
      [] c.op = "CreateVm" -> CreateVm(d, c)
      [] c.op = "StartVm" -> UpdateVmStatusInternal(d, c, "Starting")
      [] c.op = "StopVm" -> UpdateVmStatusInternal(d, c, "Stopping")
      [] c.op = "DeleteVm" -> DeleteVm(d, c)
      [] c.op = "MigrateVm" -> MigrateVm(d, c)
      [] c.op = "UpdateVmStatus" -> UpdateVmStatus(d, c)
      [] c.op = "SetTenantQuota" -> SetTenantQuota(d, c)
      [] c.op = "RemoveTenantQuota" -> RemoveTenantQuota(d, c)
      [] c.op = "UpdateTenantUsage" -> UpdateTenantUsage(d, c)
      [] OTHER -> d

\* The calls of Handle::block_on: in the IP methods before the commit of their
\* transaction, in the quota methods after it.
Panics(c) ==
    c.op \in {"SetTenantQuota", "RemoveTenantQuota", "UpdateTenantUsage",
              "AllocateIp", "IpPoolCommand"}

-----------------------------------------------------------------------------
Init ==
    /\ log = <<>> /\ first = 1 /\ next = 1 /\ sub = 0
    /\ db = [EmptyTables EXCEPT !.worker = {BootKey}]
    /\ phase = "up" /\ crashes = 0

\* The library commits an entry: one proposal, or a Batch of them.
Commit(e) ==
    /\ Len(log) < MaxLog
    /\ log' = Append(log, e)
    /\ UNCHANGED <<first, db, next, sub, phase, crashes>>

ApplyNextNoReset ==
    /\ phase = "up" /\ next <= Len(log)
    /\ ~Panics(log[next][sub + 1])
    /\ db' = Apply(db, log[next][sub + 1])
    /\ sub' = sub + 1
    /\ IF sub + 1 = Len(log[next]) THEN next' = next + 1 ELSE UNCHANGED next
    /\ UNCHANGED <<log, first, phase, crashes>>

\* apply_entry: the next sub-proposal in its own transaction.
ApplyNext ==
    /\ phase = "up" /\ next <= Len(log)
    /\ ~Panics(log[next][sub + 1])
    /\ db' = Apply(db, log[next][sub + 1])
    /\ IF sub + 1 = Len(log[next])
       THEN next' = next + 1 /\ sub' = 0
       ELSE sub' = sub + 1 /\ UNCHANGED next
    /\ UNCHANGED <<log, first, phase, crashes>>

\* apply_entry reaches a call of block_on.
ApplyPanics ==
    /\ phase = "up" /\ next <= Len(log)
    /\ Panics(log[next][sub + 1])
    /\ db' = Apply(db, log[next][sub + 1])
    /\ phase' = "down"
    /\ UNCHANGED <<log, first, next, sub, crashes>>

\* compact_log_before(applied): the entry at the applied index stays.
Compact ==
    /\ phase = "up" /\ sub = 0 /\ first < next - 1
    /\ first' = next - 1
    /\ UNCHANGED <<log, db, next, sub, phase, crashes>>

\* The process dies.
Crash ==
    /\ phase = "up" /\ crashes < MaxCrashes
    /\ phase' = "down" /\ crashes' = crashes + 1
    /\ UNCHANGED <<log, first, db, next, sub>>

\* The process starts: register_bootstrap_worker writes its row, and the library
\* hands out the log from its first entry on.
Restart ==
    /\ phase = "down"
    /\ phase' = "up" /\ next' = first /\ sub' = 0
    /\ db' = [db EXCEPT !.worker = @ \union {BootKey}]
    /\ UNCHANGED <<log, first, crashes>>

Next ==
    \/ \E n \in 1..MaxBatch : \E e \in [1..n -> Commands] : Commit(e)
    \/ ApplyNext \/ ApplyPanics \/ Compact \/ Crash \/ Restart

Spec == Init /\ [][Next]_vars
FairSpec == Spec /\ WF_vars(ApplyNext) /\ WF_vars(ApplyPanics) /\ WF_vars(Restart)

-----------------------------------------------------------------------------
Tables ==
    [task : SUBSET Tasks, assigned : [Tasks -> Nodes \union {None}], result : SUBSET Tasks,
     worker : SUBSET (Nodes \union {BootKey}), wstatus : [Nodes -> WorkerStatus \union {None}],
     topology : SUBSET Nodes, vm : [Vms -> [status : VmStatus, node : Nodes] \union {NoVm}],
     quota : SUBSET Tenants, usage : [Tenants -> Nat]]

\* The type invariant: every row has the shape its table holds.
TypeOK ==
    /\ log \in Seq(Seq(Commands) \ {<<>>}) /\ first \in Nat \ {0} /\ next \in Nat \ {0}
    /\ sub \in Nat /\ (IF next <= Len(log) THEN sub < Len(log[next]) ELSE sub = 0)
    /\ phase \in {"up", "down"} /\ crashes \in Nat
    /\ db \in Tables

\* What the log says: every entry applied once, in order, to empty tables.
Applied(d, entry) ==
    LET after[i \in 0..Len(entry)] == IF i = 0 THEN d ELSE Apply(after[i - 1], entry[i])
    IN after[Len(entry)]
Meaning(entries) ==
    LET after[i \in 0..Len(entries)] ==
          IF i = 0 THEN [EmptyTables EXCEPT !.worker = {BootKey}]
          ELSE Applied(after[i - 1], entries[i])
    IN after[Len(entries)]

\* Replaying the log over tables that already hold all or part of its effects,
\* from any compaction point and after a crash in the middle of a batch, ends in
\* the tables that the log means.  UpdateTenantUsage alone adds to what it finds, a
\* counter: it panics after its commit, every restart adds the delta again, and a
\* log that holds it is never passed to its end.
ReplayConverges == phase = "up" /\ next > Len(log) => db = Meaning(log)

RowsAgree(d) == \A n \in Nodes : n \in d.worker => d.wstatus[n] # None /\ n \in d.topology

\* A registered worker has its status and its topology in every state, between
\* the sub-proposals of a batch and during a replay too.
WorkerRowsAgree == RowsAgree(db)

\* A node that is restarted whenever it fails applies everything committed.
CatchesUp == []<>(next > Len(log))
=============================================================================
