---------------------------- MODULE VmLifecycle ----------------------------
(***************************************************************************)
(* VMs on one node: MicrovmBackend with its VmProcessManager (systemd user  *)
(* services), VmConfigConverter and IpAddressPool, the rows that            *)
(* VmStatePersistence keeps in VM_STATE_TABLE, the replicated commands that *)
(* write the same rows, and recover_vms after a restart of the node.        *)
(*                                                                         *)
(* The services belong to systemd: they outlive the node's process.         *)
(***************************************************************************)
EXTENDS Integers, FiniteSets, FiniteSetsExt

CONSTANTS
    Vms,       \* names
    FirstIp,   \* allocation_start
    LastIp,    \* the last address of the subnet
    MaxTries,  \* calculate_max_ips
    MaxEvents  \* bound: requests, commands and faults of a behaviour

ASSUME IpAssumption == FirstIp \in Nat \ {0} /\ LastIp \in Nat /\ FirstIp <= LastIp
ASSUME TriesAssumption == MaxTries \in Nat /\ MaxTries > LastIp - FirstIp
ASSUME EventsAssumption == MaxEvents \in Nat

VARIABLES
    row,        \* VM_STATE_TABLE of this node
    config,     \* vm_configs with vm_metadata: the address, and who gave it
    flakes,     \* VMs that have a flake directory
    allocated,  \* allocated_ips
    nextIp,     \* next_ip
    service,    \* what systemd says of blixard-vm-<name>
    usedIp,     \* the address a running VM was started with
    writes,     \* update_vm_status between its read and its write
    nodePhase,  \* the node: "up", "down", "recovering"
    toRecover,  \* VMs that recover_vms has still to create
    toRestart,  \* VMs that it has still to start
    events      \* requests, commands and faults so far

vmVars == <<row, config, flakes, allocated, nextIp, service, usedIp, writes, nodePhase,
            toRecover, toRestart, events>>

Addresses == FirstIp..LastIp
NoIp == 0
NoRow == [status |-> "absent", node |-> "none"]
NoConfig == [ip |-> NoIp, from |-> "absent"]
Statuses == {"Creating", "Starting", "Running", "Stopping", "Stopped", "Failed"}

VmInit ==
    /\ row = [v \in Vms |-> NoRow] /\ config = [v \in Vms |-> NoConfig]
    /\ flakes = {} /\ allocated = {} /\ nextIp = FirstIp
    /\ service = [v \in Vms |-> "inactive"] /\ usedIp = [v \in Vms |-> NoIp]
    /\ writes = {} /\ nodePhase = "up" /\ toRecover = {} /\ toRestart = {}
    /\ events = 0

\* Something that comes from outside; the bound is the model's.
Event == events < MaxEvents /\ events' = events + 1

-----------------------------------------------------------------------------
(* IpAddressPool. *)

\* advance_next_ip, n times.
Advance(ip, n) == FirstIp + ((ip - FirstIp + n) % (LastIp - FirstIp + 1))

\* Mutant: an allocator that does not wrap around.
SkippedNoWrap == {n \in 0..(LastIp - nextIp) : nextIp + n \notin allocated}

\* allocate_ip: how many candidates are passed over before a free one is met.
SkippedBeforeFree == {n \in 0..(MaxTries - 1) : Advance(nextIp, n) \notin allocated}

CanAllocate == SkippedBeforeFree # {}
Candidate == Advance(nextIp, Min(SkippedBeforeFree))
\* Mutant: the counter does not wrap around.
NextAfterNoWrap(ip) == ip + 1

NextAfter(ip) == Advance(ip, 1)

\* No address is free: next_ip has been moved on by every try.
PoolExhausted ==
    /\ ~CanAllocate
    /\ nextIp' = Advance(nextIp, MaxTries)
    /\ UNCHANGED allocated

-----------------------------------------------------------------------------
(* The operations of the backend. *)

\* Mutant: the address is not recorded as allocated.
TakeIpUnrecorded(from) ==
    \/ /\ from = "central"
       /\ UNCHANGED <<allocated, nextIp>>
    \/ /\ from = "pool" /\ CanAllocate
       /\ UNCHANGED allocated
       /\ nextIp' = NextAfter(Candidate)

\* The address convert_config gives: the one that came with the configuration, or
\* one from the pool.
TakeIp(from) ==
    \/ /\ from = "central"
       /\ UNCHANGED <<allocated, nextIp>>
    \/ /\ from = "pool" /\ CanAllocate
       /\ allocated' = allocated \union {Candidate}
       /\ nextIp' = NextAfter(Candidate)

ConfigFrom(from) == [ip |-> IF from = "pool" THEN Candidate ELSE NoIp, from |-> from]

\* create_vm, also of a VM that exists: the address of the old configuration is
\* not given back.
CreateVm(v, from, node) ==
    /\ TakeIp(from)
    /\ config' = [config EXCEPT ![v] = ConfigFrom(from)]
    /\ flakes' = flakes \union {v}
    /\ row' = [row EXCEPT ![v] = [status |-> "Creating", node |-> node]]

\* No address is free; or write_flake fails after one was taken; or
\* persist_vm_state, when the configuration is stored too.
CreateStopsShort(v, from) ==
    \/ from = "pool" /\ PoolExhausted /\ UNCHANGED <<config, flakes>>
    \/ /\ TakeIp(from)
       /\ \/ UNCHANGED <<config, flakes>>
          \/ /\ config' = [config EXCEPT ![v] = ConfigFrom(from)]
             /\ flakes' = flakes \union {v}

CreateFails(v, from) ==
    /\ Event
    /\ nodePhase = "up"
    /\ CreateStopsShort(v, from)
    /\ UNCHANGED <<row, service, usedIp, writes, nodePhase, toRecover, toRestart>>

CreateByRequest(v, from) ==
    /\ Event
    /\ nodePhase = "up"
    /\ CreateVm(v, from, "self")
    /\ UNCHANGED <<service, usedIp, writes, nodePhase, toRecover, toRestart>>

\* validate_vm_for_start_impl.
CanStart(v) == v \in flakes /\ config[v] # NoConfig

\* systemctl start: nothing happens to a service that is active.
StartService(v, conf) ==
    /\ service' = [service EXCEPT ![v] = "active"]
    /\ usedIp' = [usedIp EXCEPT ![v] = IF service[v] = "active" THEN @ ELSE conf.ip]

\* update_vm_status reads the row, and writes it back whole in a later
\* transaction.
ReadForUpdate(v, status) ==
    writes' = writes \union
        (IF row[v] = NoRow THEN {} ELSE {[vm |-> v, status |-> status, node |-> row[v].node]})

StartVm(v) ==
    /\ Event
    /\ nodePhase = "up" /\ CanStart(v)
    /\ StartService(v, config[v])
    /\ ReadForUpdate(v, "Running")
    /\ UNCHANGED <<row, config, flakes, allocated, nextIp, nodePhase, toRecover, toRestart>>

StartFails(v) ==
    /\ Event
    /\ nodePhase = "up" /\ CanStart(v) /\ service[v] # "active"
    /\ service' = [service EXCEPT ![v] = "failed"]
    /\ UNCHANGED <<row, config, flakes, allocated, nextIp, usedIp, writes, nodePhase, toRecover, toRestart>>

\* stop_vm.  A systemctl that reports failure is logged and the VM counts as stopped.
StopService(v) ==
    \/ /\ service' = [service EXCEPT ![v] = "inactive"]
       /\ usedIp' = [usedIp EXCEPT ![v] = NoIp]
    \/ UNCHANGED <<service, usedIp>>

StopVm(v) ==
    /\ Event
    /\ nodePhase = "up"
    /\ StopService(v)
    /\ ReadForUpdate(v, "Stopped")
    /\ UNCHANGED <<row, config, flakes, allocated, nextIp, nodePhase, toRecover, toRestart>>

FinishUpdate(w) ==
    /\ w \in writes /\ writes' = writes \ {w}
    /\ row' = [row EXCEPT ![w.vm] = [status |-> w.status, node |-> w.node]]
    /\ UNCHANGED <<config, flakes, allocated, nextIp, service, usedIp, nodePhase, toRecover,
                   toRestart, events>>

\* delete_vm stops an active VM and gives back an address of the pool.  When a
\* directory cannot be removed, the row stays.
Released(v) == IF config[v].from = "pool" THEN {config[v].ip} ELSE {}

DeleteVm(v) ==
    /\ Event
    /\ nodePhase = "up"
    /\ IF service[v] = "active" THEN StopService(v) ELSE UNCHANGED <<service, usedIp>>
    /\ allocated' = allocated \ Released(v)
    /\ config' = [config EXCEPT ![v] = NoConfig]
    /\ \/ flakes' = flakes \ {v} /\ row' = [row EXCEPT ![v] = NoRow]
       \/ v \in flakes /\ UNCHANGED <<flakes, row>>
    /\ UNCHANGED <<nextIp, writes, nodePhase, toRecover, toRestart>>

-----------------------------------------------------------------------------
(* Commands that Raft applies to the same table; no backend is called. *)
ApplyCreate(v, node) ==
    row' = [row EXCEPT ![v] = [status |-> "Creating", node |-> node]]

ApplyStatus(v, status) ==
    /\ row[v] # NoRow
    /\ row' = [row EXCEPT ![v].status = status]

ApplyMigrate(v) ==
    /\ row[v] # NoRow
    /\ row' = [row EXCEPT ![v] = [status |-> "Stopping", node |-> "other"]]

ApplyDelete(v) == row' = [row EXCEPT ![v] = NoRow]

ApplyCommand(v) ==
    /\ Event
    /\ nodePhase = "up"
    /\ \/ \E node \in {"self", "other"} : ApplyCreate(v, node)
       \/ \E status \in {"Starting", "Stopping"} : ApplyStatus(v, status)
       \/ ApplyMigrate(v)
       \/ ApplyDelete(v)
    /\ UNCHANGED <<config, flakes, allocated, nextIp, service, usedIp, writes, nodePhase, toRecover, toRestart>>

-----------------------------------------------------------------------------
(* Faults and the recovery of the node. *)

ServiceDies(v) ==
    /\ Event
    /\ service[v] = "active"
    /\ service' = [service EXCEPT ![v] = "failed"]
    /\ usedIp' = [usedIp EXCEPT ![v] = NoIp]
    /\ UNCHANGED <<row, config, flakes, allocated, nextIp, writes, nodePhase, toRecover, toRestart>>

\* The process of the node ends.  A reboot of the machine ends the services too.
Crash(reboot) ==
    /\ Event
    /\ nodePhase # "down" /\ nodePhase' = "down"
    /\ config' = [v \in Vms |-> NoConfig]
    /\ allocated' = {} /\ nextIp' = FirstIp
    /\ writes' = {} /\ toRecover' = {} /\ toRestart' = {}
    /\ IF reboot
       THEN /\ service' = [v \in Vms |-> "inactive"]
            /\ usedIp' = [v \in Vms |-> NoIp]
       ELSE UNCHANGED <<service, usedIp>>
    /\ UNCHANGED <<row, flakes>>

\* recover_vms: the VMs whose row says Running or Starting, on whatever node.
NeedsRecovery(v) == row[v].status \in {"Running", "Starting"}

Restart ==
    /\ nodePhase = "down" /\ nodePhase' = "recovering"
    /\ toRecover' = {v \in Vms : NeedsRecovery(v)}
    /\ UNCHANGED <<row, config, flakes, allocated, nextIp, service, usedIp, writes, toRestart,
                   events>>

\* For each VM of a batch, in parallel: create_vm, whose error is ignored ...  No
\* configuration of the table carries an address here.
RecreateVm(v) ==
    /\ nodePhase = "recovering" /\ v \in toRecover
    /\ toRecover' = toRecover \ {v} /\ toRestart' = toRestart \union {v}
    /\ \/ CreateVm(v, "pool", row[v].node)
       \/ CreateStopsShort(v, "pool") /\ UNCHANGED row
    /\ UNCHANGED <<service, usedIp, writes, nodePhase, events>>

\* ... and start_vm.  Nothing else writes the table before recovery is over.
RestartVm(v) ==
    /\ nodePhase = "recovering" /\ v \in toRestart
    /\ toRestart' = toRestart \ {v}
    /\ \/ /\ CanStart(v)
          /\ StartService(v, config[v])
          /\ row' = [row EXCEPT ![v].status = "Running"]
       \/ /\ CanStart(v) /\ service[v] # "active"
          /\ service' = [service EXCEPT ![v] = "failed"]
          /\ UNCHANGED <<row, usedIp>>
       \/ ~CanStart(v) /\ UNCHANGED <<row, service, usedIp>>
    /\ UNCHANGED <<config, flakes, allocated, nextIp, writes, nodePhase, toRecover, events>>

RecoveryEnds ==
    /\ nodePhase = "recovering" /\ toRecover = {} /\ toRestart = {}
    /\ nodePhase' = "up"
    /\ UNCHANGED <<row, config, flakes, allocated, nextIp, service, usedIp, writes, toRecover,
                   toRestart, events>>

VmNext ==
    \/ \E v \in Vms :
          \/ \E from \in {"central", "pool"} : CreateByRequest(v, from) \/ CreateFails(v, from)
          \/ StartVm(v) \/ StartFails(v) \/ StopVm(v) \/ DeleteVm(v)
          \/ ApplyCommand(v) \/ ServiceDies(v) \/ RecreateVm(v) \/ RestartVm(v)
    \/ \E w \in writes : FinishUpdate(w)
    \/ \E reboot \in BOOLEAN : Crash(reboot)
    \/ Restart \/ RecoveryEnds

VmSpec == VmInit /\ [][VmNext]_vmVars

-----------------------------------------------------------------------------
(* Properties. *)

\* The variables have their types.
VmTypeOK ==
    /\ row \in [Vms -> [status : Statuses, node : {"self", "other"}] \union {NoRow}]
    /\ config \in [Vms -> [ip : Addresses \union {NoIp}, from : {"absent", "central", "pool"}]]
    /\ flakes \subseteq Vms /\ allocated \subseteq Addresses /\ nextIp \in Addresses
    /\ service \in [Vms -> {"active", "inactive", "failed"}]
    /\ usedIp \in [Vms -> Addresses \union {NoIp}]
    /\ writes \subseteq [vm : Vms, status : Statuses, node : {"self", "other"}]
    /\ nodePhase \in {"up", "down", "recovering"} 
    /\ toRecover \subseteq Vms /\ toRestart \subseteq Vms
    /\ events \in 0..MaxEvents

\* Two VMs configured from the pool have different addresses, and the pool holds
\* each of them as allocated, through deletions, failures and restarts.
LocalIpsDistinct ==
    \A v, w \in {x \in Vms : config[x].from = "pool"} :
        /\ config[v].ip \in allocated
        /\ v # w => config[v].ip # config[w].ip

\* allocate_ip finds an address whenever one is free, wherever next_ip stands.
AllocationComplete == CanAllocate <=> Addresses \ allocated # {}
=============================================================================
