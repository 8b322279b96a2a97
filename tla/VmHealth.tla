------------------------------ MODULE VmHealth ------------------------------
(***************************************************************************)
(* The VM health monitor of a node: the cycle of HealthCheckScheduler, the  *)
(* RecoveryCoordinator with its slots, and VmAutoRecovery, which both call. *)
(*                                                                         *)
(* VmAutoRecovery keeps its states behind one RwLock.  A call that finds    *)
(* the restart attempts used up asks for the write lock it already holds,   *)
(* and waits until it is dropped: the scheduler sets no timeout, the        *)
(* coordinator does.                                                        *)
(***************************************************************************)
EXTENDS Integers, FiniteSets

CONSTANTS
    HealthVms,      \* VMs of this node
    Recoveries,     \* bound: recovery tasks of the coordinator at one time
    MaxRecoveries,  \* max_concurrent_recoveries
    MaxAttempts,    \* max_restart_attempts
    RestartDelay,   \* restart_delay
    MaxBackoff,     \* max_backoff_delay
    Migration       \* enable_migration

ASSUME RecoveryAssumption ==
    /\ HealthVms # {} /\ {"scheduler", "nobody"} \intersect Recoveries = {}
    /\ MaxRecoveries \in Nat \ {0} /\ MaxAttempts \in Nat \ {0}
    /\ RestartDelay \in Nat /\ MaxBackoff \in Nat /\ RestartDelay <= MaxBackoff
    /\ Migration \in BOOLEAN

VARIABLES
    tableStatus,  \* status of the rows of VM_STATE_TABLE
    alive,        \* VMs whose process runs
    monitor,      \* who holds the started monitor
    unchecked,    \* the scheduler's list: VMs with the status read with the list
    recovery,     \* recovery_states
    lockHolder,   \* who holds the write lock of recovery_states across an await
    call,         \* trigger_recovery of each caller
    operation,    \* active_recoveries
    recoverer     \* the coordinator's tasks

healthVars == <<tableStatus, alive, monitor, unchecked, recovery, lockHolder, call,
                operation, recoverer>>

Scheduler == "scheduler"
HealthCallers == {Scheduler} \union Recoveries
TableStatuses == {"Running", "Stopping"}
Nobody == "nobody"

NoState == [attempts |-> 0, delay |-> 0, since |-> 0, exists |-> FALSE]
NewState == [attempts |-> 0, delay |-> RestartDelay, since |-> RestartDelay, exists |-> TRUE]
NoCall(v) == [vm |-> v, at |-> "none"]
AnyVm == CHOOSE v \in HealthVms : TRUE
FreeTask == [vm |-> AnyVm, at |-> "free"]

HealthInit ==
    /\ tableStatus = [v \in HealthVms |-> "Running"] /\ alive = HealthVms
    /\ monitor = "off" /\ unchecked = {}
    /\ recovery = [v \in HealthVms |-> NoState] /\ lockHolder = Nobody
    /\ call = [c \in HealthCallers |-> NoCall(AnyVm)]
    /\ operation = [v \in HealthVms |-> "none"]
    /\ recoverer = [t \in Recoveries |-> FreeTask]

-----------------------------------------------------------------------------
(* The VMs. *)
ProcessDies(v) ==
    /\ v \in alive /\ alive' = alive \ {v}
    /\ UNCHANGED <<tableStatus, monitor, unchecked, recovery, lockHolder, call, operation,
                   recoverer>>

\* A Stop command, and a later start by a user.
UserStops(v) ==
    /\ tableStatus[v] = "Running"
    /\ tableStatus' = [tableStatus EXCEPT ![v] = "Stopping"] /\ alive' = alive \ {v}
    /\ UNCHANGED <<monitor, unchecked, recovery, lockHolder, call, operation, recoverer>>

UserStarts(v) ==
    /\ tableStatus[v] = "Stopping"
    /\ tableStatus' = [tableStatus EXCEPT ![v] = "Running"] /\ alive' = alive \union {v}
    /\ UNCHANGED <<monitor, unchecked, recovery, lockHolder, call, operation, recoverer>>

\* Time passes since the last attempts.
HealthTick ==
    /\ \E v \in HealthVms : recovery[v].exists /\ recovery[v].since < MaxBackoff
    /\ recovery' = [v \in HealthVms |->
          IF recovery[v].exists /\ recovery[v].since < MaxBackoff
          THEN [recovery[v] EXCEPT !.since = @ + 1] ELSE recovery[v]]
    /\ UNCHANGED <<tableStatus, alive, monitor, unchecked, lockHolder, call, operation,
                   recoverer>>

-----------------------------------------------------------------------------
(* VmAutoRecovery.  Lock free means that no call holds it across an await. *)
LockFree == lockHolder = Nobody

Returned(c) == [call EXCEPT ![c].at = "none"]
InCall(c) == call[c].at # "none"
CallRecovery(c, v) == [call EXCEPT ![c] = [vm |-> v, at |-> "begin"]]

\* The first block of trigger_recovery: in backoff, or an attempt.  exhausted is
\* never true: handle_restart_exhausted sets it under the lock it waits for.
\* attempts stays at MaxAttempts once it has got there: only >= is asked of it.
InBackoff(s) == s.since < s.delay
Counted(n) == IF n < MaxAttempts THEN n + 1 ELSE n
BeginRecovery(c, v) ==
    LET s == IF recovery[v].exists THEN recovery[v] ELSE NewState IN
    IF InBackoff(s)
    THEN recovery' = [recovery EXCEPT ![v] = s] /\ call' = [call EXCEPT ![c].at = "ok"]
    ELSE /\ recovery' = [recovery EXCEPT ![v] = [s EXCEPT !.attempts = Counted(@), !.since = 0]]
         /\ call' = [call EXCEPT ![c].at = "restart"]

Begin(c) ==
    /\ call[c].at = "begin" /\ LockFree
    /\ BeginRecovery(c, call[c].vm)
    /\ UNCHANGED <<tableStatus, alive, monitor, unchecked, lockHolder, operation, recoverer>>

\* attempt_local_restart, without the lock.
LocalRestart(c) ==
    /\ call[c].at = "restart"
    /\ \/ /\ alive' = alive \union {call[c].vm}
          /\ tableStatus' = [tableStatus EXCEPT ![call[c].vm] = "Running"]
          /\ call' = [call EXCEPT ![c].at = "restarted"]
       \/ /\ call' = [call EXCEPT ![c].at = "notRestarted"]
          /\ UNCHANGED <<alive, tableStatus>>
    /\ UNCHANGED <<monitor, unchecked, recovery, lockHolder, operation, recoverer>>

RestartSuccess(c) ==
    /\ call[c].at = "restarted" /\ LockFree
    /\ recovery' = [recovery EXCEPT ![call[c].vm] = NoState]
    /\ call' = [call EXCEPT ![c].at = "ok"]
    /\ UNCHANGED <<tableStatus, alive, monitor, unchecked, lockHolder, operation, recoverer>>

\* handle_restart_failure: the state may be gone, the attempts used up, or the
\* delay doubles.
Doubled(d) == IF 2 * d < MaxBackoff THEN 2 * d ELSE MaxBackoff
RestartFailure(c) ==
    LET v == call[c].vm
        s == recovery[v] IN
    /\ call[c].at = "notRestarted" /\ LockFree
    /\ IF s.exists /\ s.attempts >= MaxAttempts
       THEN /\ lockHolder' = c
            /\ call' = [call EXCEPT ![c].at = IF Migration THEN "migrate" ELSE "relock"]
            /\ UNCHANGED recovery
       ELSE /\ recovery' = [recovery EXCEPT ![v].delay = IF s.exists THEN Doubled(@) ELSE @]
            /\ call' = [call EXCEPT ![c].at = "error"]
            /\ UNCHANGED lockHolder
    /\ UNCHANGED <<tableStatus, alive, monitor, unchecked, operation, recoverer>>

\* attempt_migration, under the lock: no other node is found, or one is found and
\* migrate_vm fails with NotImplemented.  In the second case the call waits for
\* the lock it holds ("relock"): no step of its own leads out of there.
AttemptMigration(c) ==
    /\ call[c].at = "migrate"
    /\ \/ call' = [call EXCEPT ![c].at = "error"] /\ lockHolder' = Nobody
       \/ call' = [call EXCEPT ![c].at = "relock"] /\ UNCHANGED lockHolder
    /\ UNCHANGED <<tableStatus, alive, monitor, unchecked, recovery, operation, recoverer>>

\* reset_recovery_state, after manual intervention.
ResetRecovery(v) ==
    /\ LockFree /\ recovery[v].exists
    /\ recovery' = [recovery EXCEPT ![v] = NoState]
    /\ UNCHANGED <<tableStatus, alive, monitor, unchecked, lockHolder, call, operation, recoverer>>

\* Dropping the future of a call drops the guard it holds.
ReleasedBy(c) == IF lockHolder = c THEN Nobody ELSE lockHolder

-----------------------------------------------------------------------------
(* The monitor and its scheduler. *)

\* LifecycleManager::start on the monitor, and the start that Node::start calls,
\* which starts a clone and drops it with the task.
StartMonitor(by) ==
    /\ monitor = "off" /\ monitor' = by
    /\ UNCHANGED <<tableStatus, alive, unchecked, recovery, lockHolder, call, operation,
                   recoverer>>

\* The scheduler's task is aborted: by stop, or by the Drop of the clone.
StopMonitor ==
    /\ monitor # "off" /\ monitor' = "off"
    /\ unchecked' = {}
    /\ call' = Returned(Scheduler) /\ lockHolder' = ReleasedBy(Scheduler)
    /\ UNCHANGED <<tableStatus, alive, recovery, operation, recoverer>>

DropClone == monitor = "node" /\ StopMonitor
StopByUser == monitor = "lifecycle" /\ StopMonitor

\* The interval ticks: list_vms reads the table.
StartCycle ==
    /\ monitor # "off" /\ unchecked = {} /\ ~InCall(Scheduler)
    /\ unchecked' = {[vm |-> v, stored |-> tableStatus[v]] : v \in HealthVms}
    /\ UNCHANGED <<tableStatus, alive, monitor, recovery, lockHolder, call, operation, recoverer>>

\* One VM of the list.  Its "process status" is read from the same table, and the
\* update_vm_status_through_raft that follows is not implemented.  The
\* detailed checks start from a fresh VmHealthStatus, whose count of failures is
\* at most 1 after update_state.
ConsecutiveFailures(v) == IF v \in alive THEN 0 ELSE 1
NoticesStopped(e) == tableStatus[e.vm] # "Running" /\ e.stored = "Running"
NoticesUnhealthy(e) == tableStatus[e.vm] = "Running" /\ ConsecutiveFailures(e.vm) >= 3

CheckVm(e) ==
    /\ ~InCall(Scheduler) /\ e \in unchecked
    /\ unchecked' = unchecked \ {e}
    /\ call' = IF NoticesStopped(e) \/ NoticesUnhealthy(e)
               THEN CallRecovery(Scheduler, e.vm) ELSE call
    /\ UNCHANGED <<tableStatus, alive, monitor, recovery, lockHolder, operation, recoverer>>

\* get_vm_status fails: the rest of the cycle is skipped.
CycleFails ==
    /\ ~InCall(Scheduler) /\ unchecked # {}
    /\ unchecked' = {}
    /\ UNCHANGED <<tableStatus, alive, monitor, recovery, lockHolder, call, operation, recoverer>>

RecoveryReturns ==
    /\ call[Scheduler].at \in {"ok", "error"}
    /\ call' = Returned(Scheduler)
    /\ UNCHANGED <<tableStatus, alive, monitor, unchecked, recovery, lockHolder, operation,
                   recoverer>>

-----------------------------------------------------------------------------
(* RecoveryCoordinator. *)
Active == {"Pending", "InProgress"}
InUse == {t \in Recoveries : recoverer[t].at = "running"}
HealthPermits == MaxRecoveries - Cardinality(InUse)

\* trigger_recovery reads active_recoveries ...
CheckActive(t, v) ==
    /\ recoverer[t].at = "free" /\ operation[v] \notin Active
    /\ recoverer' = [recoverer EXCEPT ![t] = [vm |-> v, at |-> "checked"]]
    /\ UNCHANGED <<tableStatus, alive, monitor, unchecked, recovery, lockHolder, call, operation>>

\* ... and later writes it and spawns execute_recovery.
Trigger(t) ==
    /\ recoverer[t].at = "checked"
    /\ operation' = [operation EXCEPT ![recoverer[t].vm] = "Pending"]
    /\ recoverer' = [recoverer EXCEPT ![t].at = "queued"]
    /\ UNCHANGED <<tableStatus, alive, monitor, unchecked, recovery, lockHolder, call>>

\* Mutant: the permit is dropped as soon as it is acquired.
AcquireSlotDropped(t) ==
    /\ recoverer[t].at = "queued"
    /\ operation' = [operation EXCEPT ![recoverer[t].vm] = IF @ = "none" THEN @ ELSE "InProgress"]
    /\ recoverer' = [recoverer EXCEPT ![t].at = "running"]
    /\ call' = CallRecovery(t, recoverer[t].vm)
    /\ UNCHANGED <<tableStatus, alive, monitor, unchecked, recovery, lockHolder>>

AcquireSlot(t) ==
    /\ recoverer[t].at = "queued" /\ HealthPermits > 0
    /\ operation' = [operation EXCEPT ![recoverer[t].vm] = IF @ = "none" THEN @ ELSE "InProgress"]
    /\ recoverer' = [recoverer EXCEPT ![t].at = "running"]
    /\ call' = CallRecovery(t, recoverer[t].vm)
    /\ UNCHANGED <<tableStatus, alive, monitor, unchecked, recovery, lockHolder>>

\* Mutant: a timeout that forgets to record its outcome.
EndTaskSilently(t, outcome) ==
    /\ operation' = [operation EXCEPT ![recoverer[t].vm] =
                        IF outcome = "TimedOut" THEN @ ELSE outcome]
    /\ recoverer' = [recoverer EXCEPT ![t].at = "free"]

EndTask(t, outcome) ==
    /\ operation' = [operation EXCEPT ![recoverer[t].vm] = IF @ = "none" THEN @ ELSE outcome]
    /\ recoverer' = [recoverer EXCEPT ![t].at = "free"]

SlotTimeout(t) ==
    /\ recoverer[t].at = "queued" /\ HealthPermits <= 0
    /\ EndTask(t, "Failed")
    /\ UNCHANGED <<tableStatus, alive, monitor, unchecked, recovery, lockHolder, call>>

\* The outcome of the call.  The migration that follows a failure is not implemented.
FinishRecovery(t) ==
    /\ recoverer[t].at = "running" /\ call[t].at \in {"ok", "error"}
    /\ EndTask(t, IF call[t].at = "ok" THEN "Completed" ELSE "Failed")
    /\ call' = Returned(t)
    /\ UNCHANGED <<tableStatus, alive, monitor, unchecked, recovery, lockHolder>>

RecoveryTimeout(t) ==
    /\ recoverer[t].at = "running" /\ call[t].at \notin {"ok", "error"}
    /\ EndTask(t, "TimedOut")
    /\ call' = Returned(t) /\ lockHolder' = ReleasedBy(t)
    /\ UNCHANGED <<tableStatus, alive, monitor, unchecked, recovery>>

CleanupCompleted ==
    /\ \E v \in HealthVms : operation[v] \in {"Completed", "Failed", "TimedOut"}
    /\ operation' = [v \in HealthVms |-> IF operation[v] \in Active THEN operation[v] ELSE "none"]
    /\ UNCHANGED <<tableStatus, alive, monitor, unchecked, recovery, lockHolder, call, recoverer>>

-----------------------------------------------------------------------------
CallStep(c) ==
    Begin(c) \/ LocalRestart(c) \/ RestartSuccess(c) \/ RestartFailure(c) \/ AttemptMigration(c)

TaskStep(t) ==
    Trigger(t) \/ AcquireSlot(t) \/ SlotTimeout(t) \/ FinishRecovery(t) \/ RecoveryTimeout(t)

SchedulerStep == StartCycle \/ (\E e \in unchecked : CheckVm(e)) \/ RecoveryReturns

HealthNext ==
    \/ \E v \in HealthVms : ProcessDies(v) \/ UserStops(v) \/ UserStarts(v) \/ ResetRecovery(v)
    \/ HealthTick
    \/ \E by \in {"lifecycle", "node"} : StartMonitor(by)
    \/ DropClone \/ StopByUser
    \/ StartCycle \/ (\E e \in unchecked : CheckVm(e)) \/ CycleFails \/ RecoveryReturns
    \/ \E c \in HealthCallers :
          \/ Begin(c) \/ LocalRestart(c) \/ RestartSuccess(c) \/ RestartFailure(c)
          \/ AttemptMigration(c)
    \/ \E t \in Recoveries :
          \/ \E v \in HealthVms : CheckActive(t, v)
          \/ Trigger(t) \/ AcquireSlot(t) \/ SlotTimeout(t) \/ FinishRecovery(t)
          \/ RecoveryTimeout(t)
    \/ CleanupCompleted

\* Every task of the runtime goes on, timers fire, time passes.
HealthFair ==
    /\ WF_healthVars(HealthTick) /\ WF_healthVars(DropClone) /\ WF_healthVars(SchedulerStep)
    /\ \A c \in HealthCallers : WF_healthVars(CallStep(c))
    /\ \A t \in Recoveries : WF_healthVars(TaskStep(t))

HealthSpec == HealthInit /\ [][HealthNext]_healthVars /\ HealthFair

-----------------------------------------------------------------------------
(* Properties. *)

\* The variables have their types.
HealthTypeOK ==
    /\ tableStatus \in [HealthVms -> TableStatuses] /\ alive \subseteq HealthVms
    /\ monitor \in {"off", "node", "lifecycle"}
    /\ unchecked \subseteq [vm : HealthVms, stored : TableStatuses]
    /\ recovery \in [HealthVms -> [attempts : 0..MaxAttempts, delay : 0..MaxBackoff,
                                   since : 0..MaxBackoff, exists : BOOLEAN]]
    /\ lockHolder \in HealthCallers \union {Nobody}
    /\ call \in [HealthCallers -> [vm : HealthVms, at : {"none", "begin", "restart", "restarted",
                    "notRestarted", "migrate", "relock", "ok", "error"}]]
    /\ operation \in [HealthVms -> Active \union {"none", "Completed", "Failed", "TimedOut"}]
    /\ recoverer \in [Recoveries -> [vm : HealthVms, at : {"free", "checked", "queued", "running"}]]

\* A VM that active_recoveries shows as pending or in progress has a task that
\* will end it: else trigger_recovery would skip the VM for ever.
NoPhantomRecovery ==
    \A v \in HealthVms : operation[v] \in Active =>
        \E t \in Recoveries : recoverer[t].vm = v /\ recoverer[t].at \in {"queued", "running"}

\* At most max_concurrent_recoveries recoveries run, whatever timeouts interrupt,
\* and the lock of VmAutoRecovery is held by a call that is under way.
RecoveriesWithinLimit ==
    /\ Cardinality(InUse) <= MaxRecoveries
    /\ lockHolder # Nobody => call[lockHolder].at \in {"migrate", "relock"}

\* A recovery that the coordinator has started comes to an end, also when the
\* lock it needs is never released.
RecoveriesEnd ==
    \A v \in HealthVms : operation[v] \in Active ~> operation[v] \notin Active
=============================================================================
