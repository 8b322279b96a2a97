-------------------------- MODULE VmServicesProofs --------------------------
(***************************************************************************)
(* The VMs of a node, the monitor of their health and the IP pools, for any *)
(* number of VMs, callers and recovery tasks and for any range of addresses.*)
(***************************************************************************)
EXTENDS MCVmServices, FiniteSetTheorems, WellFoundedInduction, TLAPS

(***************************************************************************)
(* VmLifecycle: the local address pool.                                     *)
(***************************************************************************)

\* The least element, for a relation that contains <.
LEMMA LeastByRelation ==
    ASSUME NEW R, IsWellFoundedOn(R, Nat),
           \A x, y \in Nat : y < x => <<y, x>> \in R,
           NEW S, S \subseteq Nat, S # {}
    PROVE  \E x \in S : \A y \in S : x <= y
<1>1. PICK x \in S : \A y \in S : ~(<<y, x>> \in R)
    BY WFMin
<1>2. \A y \in S : ~(y < x)
    BY <1>1
<1>3. \A y \in S : x <= y
    BY <1>2, SMT
<1> QED
    BY <1>3

\* A set of natural numbers that is not empty has a least element.
LEMMA LeastNatural ==
    ASSUME NEW S, S \subseteq Nat, S # {}
    PROVE  \E x \in S : \A y \in S : x <= y
<1> DEFINE R == OpToRel(<, Nat)
<1>1. IsWellFoundedOn(R, Nat)
    BY NatLessThanWellFounded
<1>2. \A x, y \in Nat : y < x => <<y, x>> \in R
    BY DEF OpToRel
<1> HIDE DEF R
<1> QED
    BY <1>1, <1>2, LeastByRelation

\* Remainders of numbers that pass a bound at most once.
LEMMA ModRange ==
    ASSUME NEW a \in Nat, NEW k \in Nat \ {0}
    PROVE  /\ a % k \in 0..(k - 1)
           /\ a < k => a % k = a
           /\ a >= k /\ a < 2 * k => a % k = a - k
    OBVIOUS

\* advance_next_ip stays inside the range and reaches every address of it within
\* one round.
LEMMA AdvanceCovers ==
    ASSUME NEW ip \in Addresses
    PROVE  /\ \A n \in Nat : Advance(ip, n) \in Addresses
           /\ \A a \in Addresses : \E n \in 0..(LastIp - FirstIp) : Advance(ip, n) = a
<1> DEFINE k == LastIp - FirstIp + 1
<1>1. k \in Nat \ {0}
    BY IpAssumption
<1> HIDE DEF k
<1>2. /\ LastIp = FirstIp + k - 1 /\ FirstIp \in Nat
      /\ \A i, n : Advance(i, n) = FirstIp + ((i - FirstIp + n) % k)
    BY <1>1, IpAssumption DEF k, Advance
<1>3. ip - FirstIp \in 0..(k - 1)
    BY <1>1, <1>2 DEF Addresses
<1>4. ASSUME NEW n \in Nat PROVE Advance(ip, n) \in Addresses
    <2>1. (ip - FirstIp + n) % k \in 0..(k - 1)
        BY <1>1, <1>3, ModRange
    <2> QED
        BY <1>1, <1>2, <2>1 DEF Addresses
<1>5. ASSUME NEW a \in Addresses PROVE \E n \in 0..(LastIp - FirstIp) : Advance(ip, n) = a
    <2>1. a - FirstIp \in 0..(k - 1)
        BY <1>1, <1>2 DEF Addresses
    <2>2. CASE a >= ip
        <3>1. (ip - FirstIp + (a - ip)) % k = a - FirstIp
            <4>1. ip - FirstIp + (a - ip) = a - FirstIp
                BY <1>1, <1>2, <2>1, <2>2 DEF Addresses
            <4>2. \A d \in 0..(k - 1) : d % k = d
                BY <1>1, ModRange
            <4>3. (a - FirstIp) % k = a - FirstIp
                BY <2>1, <4>2, Zenon
            <4> QED
                BY <4>1, <4>3, Zenon
        <3>2. Advance(ip, a - ip) = a
            BY <1>1, <1>2, <2>1, <3>1 DEF Addresses
        <3>3. a - ip \in 0..(LastIp - FirstIp)
            BY <1>1, <1>2, <1>3, <2>1, <2>2 DEF Addresses
        <3> QED
            BY <3>2, <3>3
    <2>3. CASE a < ip
        <3>1. (ip - FirstIp + (a - ip + k)) % k = a - FirstIp
            <4>1. ip - FirstIp + (a - ip + k) = (a - FirstIp) + k
                BY <1>1, <1>2, <2>1, <2>3 DEF Addresses
            <4> QED
                BY <1>1, <2>1, <4>1, ModRange
        <3>2. Advance(ip, a - ip + k) = a
            BY <1>1, <1>2, <2>1, <3>1 DEF Addresses
        <3>3. a - ip + k \in 0..(LastIp - FirstIp)
            BY <1>1, <1>2, <1>3, <2>1, <2>3 DEF Addresses
        <3> QED
            BY <3>2, <3>3
    <2> QED
        BY <2>2, <2>3 DEF Addresses
<1> QED
    BY <1>4, <1>5

\* allocate_ip tries every address of the range, so it fails only when all of
\* them are allocated.
LEMMA TriesCoverRange ==
    ASSUME nextIp \in Addresses
    PROVE  AllocationComplete
<1>1. 0..(LastIp - FirstIp) \subseteq 0..(MaxTries - 1) /\ 0..(MaxTries - 1) \subseteq Nat
    BY IpAssumption, TriesAssumption
<1>2. ASSUME CanAllocate PROVE Addresses \ allocated # {}
    BY <1>1, <1>2, AdvanceCovers DEF CanAllocate, SkippedBeforeFree
<1>3. ASSUME NEW a \in Addresses \ allocated PROVE CanAllocate
    <2>1. PICK n \in 0..(LastIp - FirstIp) : Advance(nextIp, n) = a
        BY AdvanceCovers
    <2> QED
        BY <1>1, <2>1 DEF CanAllocate, SkippedBeforeFree
<1> QED
    BY <1>2, <1>3 DEF AllocationComplete

\* The address that allocate_ip returns is one of the range, and free.
LEMMA CandidateIsFree ==
    ASSUME nextIp \in Addresses, CanAllocate
    PROVE  Candidate \in Addresses \ allocated
<1>1. SkippedBeforeFree \subseteq Nat /\ SkippedBeforeFree # {}
    BY TriesAssumption DEF SkippedBeforeFree, CanAllocate
<1>2. \E x \in SkippedBeforeFree : \A y \in SkippedBeforeFree : x <= y
    BY <1>1, LeastNatural
<1>3. Min(SkippedBeforeFree) \in SkippedBeforeFree
    BY <1>2, Zenon DEF Min
<1>4. Advance(nextIp, Min(SkippedBeforeFree)) \notin allocated
    BY <1>3 DEF SkippedBeforeFree
<1>5. Advance(nextIp, Min(SkippedBeforeFree)) \in Addresses
    BY <1>1, <1>3, AdvanceCovers
<1> QED
    BY <1>4, <1>5 DEF Candidate

\* Between the end of the process and the end of recovery nothing is half
\* written, and the VMs that recover_vms works on keep their rows.
VmInv ==
    /\ VmTypeOK
    /\ LocalIpsDistinct
    /\ nodePhase # "up" => writes = {}
    /\ nodePhase # "recovering" => toRecover = {} /\ toRestart = {}
    /\ \A v \in toRecover \union toRestart : row[v] # NoRow

\* A node without VMs satisfies the invariant.
LEMMA VmInitInv == VmInit => VmInv
<1> SUFFICES ASSUME VmInit PROVE VmInv
    OBVIOUS
<1>1. VmTypeOK
    BY IpAssumption, EventsAssumption DEF VmInit, VmTypeOK, NoConfig, NoIp, Addresses
<1>2. LocalIpsDistinct
    BY DEF VmInit, LocalIpsDistinct, NoConfig
<1> QED
    BY <1>1, <1>2 DEF VmInit, VmInv

VmRows == [status : Statuses, node : {"self", "other"}]
VmConfigs == [ip : Addresses \union {NoIp}, from : {"absent", "central", "pool"}]

\* The pool and the configurations: their types and the distinct addresses.
VmPool ==
    /\ config \in [Vms -> VmConfigs]
    /\ allocated \subseteq Addresses /\ nextIp \in Addresses
    /\ LocalIpsDistinct

\* Taking an address for one VM, kept in a configuration or lost on the way,
\* leaves the addresses of the others distinct.
LEMMA TakenIpIsNew ==
    ASSUME VmPool, NEW v \in Vms, NEW from \in {"central", "pool"}, TakeIp(from),
           config' \in {config, [config EXCEPT ![v] = ConfigFrom(from)]}
    PROVE  VmPool'
<1> USE DEF VmPool, LocalIpsDistinct
<1>1. CASE from = "central"
    <2>1. ConfigFrom(from) = [ip |-> NoIp, from |-> "central"]
        BY <1>1 DEF ConfigFrom
    <2>2. UNCHANGED <<allocated, nextIp>>
        BY <1>1 DEF TakeIp
    <2>3. config' \in [Vms -> VmConfigs]
        BY <2>1 DEF VmConfigs
    <2> QED
        BY <2>1, <2>2, <2>3
<1>2. CASE from = "pool"
    <2>1. CanAllocate /\ allocated' = allocated \union {Candidate} /\ nextIp' = NextAfter(Candidate)
        BY <1>2 DEF TakeIp
    <2>2. Candidate \in Addresses \ allocated
        BY <2>1, CandidateIsFree
    <2>3. NextAfter(Candidate) \in Addresses
        BY <2>2, AdvanceCovers DEF NextAfter
    <2>4. ConfigFrom(from) = [ip |-> Candidate, from |-> "pool"]
        BY <1>2 DEF ConfigFrom
    <2>5. config' \in [Vms -> VmConfigs]
        BY <2>2, <2>4 DEF VmConfigs
    <2> HIDE DEF LocalIpsDistinct
    <2>6. LocalIpsDistinct'
        <3> USE DEF LocalIpsDistinct
        <3>1. CASE config' = config
            BY <2>1, <3>1
        <3>2. CASE config' = [config EXCEPT ![v] = ConfigFrom(from)]
            BY <2>1, <2>2, <2>4, <3>2
        <3> QED
            BY <3>1, <3>2
    <2> QED
        BY <2>1, <2>2, <2>3, <2>5, <2>6
<1> QED
    BY <1>1, <1>2

\* create_vm that is given up half way does so too.
LEMMA StoppedShort ==
    ASSUME VmPool, NEW v \in Vms, NEW from \in {"central", "pool"}, CreateStopsShort(v, from)
    PROVE  VmPool'
<1>1. CASE PoolExhausted /\ UNCHANGED config
    <2>1. Advance(nextIp, MaxTries) \in Addresses
        BY AdvanceCovers, TriesAssumption DEF VmPool
    <2> QED
        BY <1>1, <2>1 DEF PoolExhausted, VmPool, LocalIpsDistinct
<1>2. CASE TakeIp(from) /\ config' \in {config, [config EXCEPT ![v] = ConfigFrom(from)]}
    BY <1>2, TakenIpIsNew
<1> QED
    BY <1>1, <1>2 DEF CreateStopsShort

\* Every request, command, fault and step of recovery preserves the invariant.
LEMMA VmStepInv == VmInv /\ [VmNext]_vmVars => VmInv'
<1> SUFFICES ASSUME VmInv, [VmNext]_vmVars PROVE VmInv'
    OBVIOUS
<1> DEFINE Rest ==
        /\ row \in [Vms -> VmRows \union {NoRow}]
        /\ flakes \subseteq Vms
        /\ service \in [Vms -> {"active", "inactive", "failed"}]
        /\ usedIp \in [Vms -> Addresses \union {NoIp}]
        /\ writes \subseteq [vm : Vms, status : Statuses, node : {"self", "other"}]
        /\ nodePhase \in {"up", "down", "recovering"}
        /\ toRecover \subseteq Vms /\ toRestart \subseteq Vms
        /\ events \in 0..MaxEvents
        /\ nodePhase # "up" => writes = {}
        /\ nodePhase # "recovering" => toRecover = {} /\ toRestart = {}
        /\ \A v \in toRecover \union toRestart : row[v] # NoRow
<1>a. VmPool /\ Rest
    BY DEF VmInv, VmTypeOK, VmPool, VmRows, VmConfigs
<1>b. SUFFICES VmPool' /\ Rest'
    BY DEF VmInv, VmTypeOK, VmPool, VmRows, VmConfigs
<1>c. UNCHANGED <<config, allocated, nextIp>> => VmPool'
    BY <1>a DEF VmPool, LocalIpsDistinct
<1>d. Event => events' \in 0..MaxEvents
    BY <1>a, EventsAssumption DEF Event
<1>e. \A node \in {"self", "other"}, s \in Statuses :
         [status |-> s, node |-> node] \in VmRows /\ [status |-> s, node |-> node] # NoRow
    BY DEF VmRows, Statuses, NoRow
<1>f. NoRow \notin VmRows
    BY DEF VmRows, NoRow, Statuses
<1> HIDE DEF VmRows
<1>1. ASSUME NEW v \in Vms, NEW from \in {"central", "pool"}, CreateByRequest(v, from)
      PROVE  VmPool' /\ Rest'
    <2>1. VmPool'
        BY <1>1, <1>a, TakenIpIsNew DEF CreateByRequest, CreateVm
    <2> QED
        BY <1>1, <1>a, <1>d, <1>e, <2>1 DEF CreateByRequest, CreateVm, Statuses
<1>2. ASSUME NEW v \in Vms, NEW from \in {"central", "pool"}, CreateFails(v, from)
      PROVE  VmPool' /\ Rest'
    <2>1. VmPool'
        BY <1>2, <1>a, StoppedShort DEF CreateFails
    <2> QED
        BY <1>2, <1>a, <1>d, <2>1 DEF CreateFails, CreateStopsShort
<1>3. ASSUME NEW v \in Vms, StartVm(v) PROVE VmPool' /\ Rest'
    <2>1. VmPool'
        BY <1>3, <1>c DEF StartVm
    <2>2. config[v].ip \in Addresses \union {NoIp}
        BY <1>a DEF VmPool, VmConfigs
    <2>3. writes' \subseteq [vm : Vms, status : Statuses, node : {"self", "other"}]
        BY <1>3, <1>a DEF StartVm, ReadForUpdate, VmRows, Statuses
    <2> QED
        BY <1>3, <1>a, <1>d, <2>1, <2>2, <2>3 DEF StartVm, StartService
<1>4. ASSUME NEW v \in Vms, StartFails(v) PROVE VmPool' /\ Rest'
    BY <1>4, <1>a, <1>c, <1>d DEF StartFails
<1>5. ASSUME NEW v \in Vms, StopVm(v) PROVE VmPool' /\ Rest'
    <2>1. writes' \subseteq [vm : Vms, status : Statuses, node : {"self", "other"}]
        BY <1>5, <1>a DEF StopVm, ReadForUpdate, VmRows, Statuses
    <2> QED
        BY <1>5, <1>a, <1>c, <1>d, <2>1 DEF StopVm, StopService
<1>6. ASSUME NEW v \in Vms, DeleteVm(v) PROVE VmPool' /\ Rest'
    <2>1. config' = [config EXCEPT ![v] = NoConfig] /\ allocated' = allocated \ Released(v)
          /\ nextIp' = nextIp
        BY <1>6 DEF DeleteVm
    <2>2. VmPool'
        BY <1>a, <2>1 DEF VmPool, LocalIpsDistinct, VmConfigs, NoConfig, Released
    <2> QED
        BY <1>6, <1>a, <1>d, <2>2 DEF DeleteVm, StopService
<1>7. ASSUME NEW v \in Vms, ApplyCommand(v) PROVE VmPool' /\ Rest'
    <2>1. ASSUME row[v] # NoRow, NEW s \in Statuses
          PROVE  [row[v] EXCEPT !.status = s] \in VmRows
        BY <1>a, <2>1 DEF VmRows
    <2>2. row' \in [Vms -> VmRows \union {NoRow}]
        BY <1>7, <1>a, <1>e, <2>1
        DEF ApplyCommand, ApplyCreate, ApplyStatus, ApplyMigrate, ApplyDelete, Statuses
    <2> QED
        BY <1>7, <1>a, <1>c, <1>d, <2>2 DEF ApplyCommand
<1>8. ASSUME NEW v \in Vms, ServiceDies(v) PROVE VmPool' /\ Rest'
    BY <1>8, <1>a, <1>c, <1>d DEF ServiceDies
<1>9. ASSUME NEW v \in Vms, RecreateVm(v) PROVE VmPool' /\ Rest'
    <2>1. VmPool'
        BY <1>9, <1>a, TakenIpIsNew, StoppedShort DEF RecreateVm, CreateVm
    <2>2. row[v].node \in {"self", "other"}
        BY <1>9, <1>a DEF RecreateVm, VmRows
    <2>3. [status |-> "Creating", node |-> row[v].node] \in VmRows
        BY <1>e, <2>2 DEF Statuses
    <2> QED
        BY <1>9, <1>a, <1>f, <2>1, <2>3 DEF RecreateVm, CreateVm, CreateStopsShort
<1>10. ASSUME NEW v \in Vms, RestartVm(v) PROVE VmPool' /\ Rest'
    <2>1. [row[v] EXCEPT !.status = "Running"] \in VmRows
        BY <1>10, <1>a DEF RestartVm, VmRows, Statuses
    <2>2. config[v].ip \in Addresses \union {NoIp}
        BY <1>a DEF VmPool, VmConfigs
    <2> QED
        BY <1>10, <1>a, <1>c, <1>f, <2>1, <2>2 DEF RestartVm, StartService
<1>11. ASSUME NEW w \in writes, FinishUpdate(w) PROVE VmPool' /\ Rest'
    <2>1. w.vm \in Vms /\ [status |-> w.status, node |-> w.node] \in VmRows
        BY <1>a, <1>e
    <2> QED
        BY <1>11, <1>a, <1>c, <2>1 DEF FinishUpdate
<1>12. ASSUME NEW reboot \in BOOLEAN, Crash(reboot) PROVE VmPool' /\ Rest'
    <2>1. VmPool'
        BY <1>12, <1>a, IpAssumption DEF Crash, VmPool, LocalIpsDistinct, VmConfigs, NoConfig, Addresses
    <2> QED
        BY <1>12, <1>a, <1>d, <2>1 DEF Crash
<1>13. CASE Restart
    <2>1. \A v \in Vms : NeedsRecovery(v) => row[v] # NoRow
        BY DEF NeedsRecovery, NoRow
    <2> QED
        BY <1>13, <1>a, <1>c, <2>1 DEF Restart
<1>14. CASE RecoveryEnds
    BY <1>14, <1>a, <1>c DEF RecoveryEnds
<1>15. CASE UNCHANGED vmVars
    BY <1>15, <1>a, <1>c DEF vmVars
<1> QED
    BY <1>1, <1>2, <1>3, <1>4, <1>5, <1>6, <1>7, <1>8, <1>9, <1>10, <1>11, <1>12, <1>13,
       <1>14, <1>15 DEF VmNext

\* VMs configured from the local pool never share an address, and the pool knows
\* of every one of them, for any number of VMs and any range.
THEOREM PoolIpsAreDistinct == VmSpec => []LocalIpsDistinct
<1>1. VmInv => LocalIpsDistinct
    BY DEF VmInv
<1> QED
    BY <1>1, VmInitInv, VmStepInv, PTL DEF VmSpec

\* allocate_ip gives up only when the range is used up, wherever next_ip stands.
THEOREM AllocationIsComplete == VmSpec => []AllocationComplete
<1>1. VmInv => AllocationComplete
    BY TriesCoverRange DEF VmInv, VmTypeOK
<1> QED
    BY <1>1, VmInitInv, VmStepInv, PTL DEF VmSpec

-----------------------------------------------------------------------------
(***************************************************************************)
(* VmHealth: the recovery of VMs.                                           *)
(***************************************************************************)

CallPlaces == {"none", "begin", "restart", "restarted", "notRestarted", "migrate", "relock",
               "ok", "error"}

\* Only a task that runs has a call of VmAutoRecovery, and only a call that found
\* its attempts used up holds the lock: a timeout that ends the task drops both.
HealthInv ==
    /\ HealthTypeOK
    /\ NoPhantomRecovery
    /\ IsFiniteSet(InUse) /\ RecoveriesWithinLimit
    /\ \A t \in Recoveries : recoverer[t].at # "running" => call[t].at = "none"

\* A monitor that was never started satisfies the invariant.
LEMMA HealthInitInv == HealthInit => HealthInv
<1> SUFFICES ASSUME HealthInit PROVE HealthInv
    OBVIOUS
<1>1. AnyVm \in HealthVms
    BY RecoveryAssumption, Zenon DEF AnyVm
<1>2. NoState \in [attempts : 0..MaxAttempts, delay : 0..MaxBackoff, since : 0..MaxBackoff,
                   exists : BOOLEAN]
    BY RecoveryAssumption DEF NoState
<1>3. HealthTypeOK
    BY <1>1, <1>2 DEF HealthInit, HealthTypeOK, TableStatuses, HealthCallers, NoCall, FreeTask,
        Active, Nobody
<1>4. InUse = {}
    BY DEF HealthInit, InUse, FreeTask
<1>5. IsFiniteSet(InUse) /\ RecoveriesWithinLimit
    BY <1>4, FS_EmptySet, RecoveryAssumption DEF RecoveriesWithinLimit, HealthInit
<1>6. NoPhantomRecovery
    BY DEF HealthInit, NoPhantomRecovery, Active
<1> QED
    BY <1>3, <1>5, <1>6 DEF HealthInv, HealthInit, HealthCallers, NoCall

\* A step of one call leaves the others alone.
LEMMA RecoveryCallMoves ==
    ASSUME HealthTypeOK, NEW c \in HealthCallers, NEW p \in CallPlaces,
           call' = [call EXCEPT ![c].at = p]
    PROVE  /\ call' \in [HealthCallers -> [vm : HealthVms, at : CallPlaces]]
           /\ call'[c].at = p
           /\ \A d \in HealthCallers : d # c => call'[d] = call[d]
    BY DEF HealthTypeOK, CallPlaces

\* A recovery state after an attempt.
LEMMA Attempted ==
    ASSUME NEW s \in [attempts : 0..MaxAttempts, delay : 0..MaxBackoff, since : 0..MaxBackoff,
                      exists : BOOLEAN],
           NEW n \in 0..MaxAttempts
    PROVE  [s EXCEPT !.attempts = n, !.since = 0]
             \in [attempts : 0..MaxAttempts, delay : 0..MaxBackoff, since : 0..MaxBackoff,
                  exists : BOOLEAN]
<1>1. ASSUME NEW A, NEW B, NEW C, NEW E, NEW r \in [attempts : A, delay : B, since : C, exists : E],
             NEW a \in A, NEW c \in C
      PROVE  [r EXCEPT !.attempts = a, !.since = c] \in [attempts : A, delay : B, since : C, exists : E]
    OBVIOUS
<1>2. 0 \in 0..MaxBackoff
    BY RecoveryAssumption
<1> QED
    BY <1>1, <1>2, Zenon

\* Every step keeps the types.
LEMMA HealthTypeStep ==
    ASSUME HealthTypeOK, [HealthNext]_healthVars
    PROVE  HealthTypeOK'
<1> DEFINE RecoveryStates == [attempts : 0..MaxAttempts, delay : 0..MaxBackoff,
                              since : 0..MaxBackoff, exists : BOOLEAN]
<1> USE RecoveryAssumption DEF HealthTypeOK, TableStatuses, CallPlaces
<1>1. ASSUME NEW v \in HealthVms, ProcessDies(v) \/ UserStops(v) \/ UserStarts(v)
      PROVE  HealthTypeOK'
    BY <1>1 DEF ProcessDies, UserStops, UserStarts
<1>a. NoState \in RecoveryStates /\ NewState \in RecoveryStates
    BY DEF NoState, NewState
<1>2. ASSUME NEW v \in HealthVms, ResetRecovery(v) PROVE HealthTypeOK'
    BY <1>2, <1>a DEF ResetRecovery
<1>3. CASE HealthTick
    <2>1. recovery' \in [HealthVms -> RecoveryStates]
        <3> SUFFICES ASSUME NEW v \in HealthVms
                     PROVE  (IF recovery[v].exists /\ recovery[v].since < MaxBackoff
                             THEN [recovery[v] EXCEPT !.since = @ + 1] ELSE recovery[v])
                             \in RecoveryStates
            BY <1>3 DEF HealthTick
        <3>1. recovery[v] \in RecoveryStates
            OBVIOUS
        <3> QED
            BY <3>1
    <2> QED
        BY <1>3, <2>1 DEF HealthTick
<1>4. ASSUME NEW by \in {"lifecycle", "node"}, StartMonitor(by) PROVE HealthTypeOK'
    BY <1>4 DEF StartMonitor
<1>5. CASE StopMonitor
    <2>1. Scheduler \in HealthCallers
        BY DEF HealthCallers
    <2>2. call' \in [HealthCallers -> [vm : HealthVms, at : CallPlaces]]
        BY <1>5, <2>1, RecoveryCallMoves, Zenon DEF StopMonitor, Returned
    <2> QED
        BY <1>5, <2>2 DEF StopMonitor, ReleasedBy
<1>6. CASE StartCycle
    BY <1>6 DEF StartCycle
<1>7. ASSUME NEW e \in unchecked, CheckVm(e) PROVE HealthTypeOK'
    <2>1. e.vm \in HealthVms
        OBVIOUS
    <2> QED
        BY <1>7, <2>1 DEF CheckVm, CallRecovery, HealthCallers, Scheduler
<1>8. CASE CycleFails
    BY <1>8 DEF CycleFails
<1>9. CASE RecoveryReturns
    BY <1>9 DEF RecoveryReturns, Returned, HealthCallers
<1>10. ASSUME NEW c \in HealthCallers, Begin(c) PROVE HealthTypeOK'
    <2>1. call[c].vm \in HealthVms
        OBVIOUS
    <2> DEFINE s == IF recovery[call[c].vm].exists THEN recovery[call[c].vm] ELSE NewState
    <2>2. s \in RecoveryStates
        BY <2>1, <1>a
    <2> HIDE DEF s
    <2>a. Counted(s.attempts) \in 0..MaxAttempts
        BY <2>2 DEF Counted
    <2>3. [s EXCEPT !.attempts = Counted(@), !.since = 0] \in RecoveryStates
        BY <2>2, <2>a, Attempted, Zenon
    <2>4. \E at \in {"ok", "restart"} : call' = [call EXCEPT ![c].at = at]
        BY <1>10 DEF Begin, BeginRecovery
    <2>5. recovery' \in {[recovery EXCEPT ![call[c].vm] = s],
             [recovery EXCEPT ![call[c].vm] = [s EXCEPT !.attempts = Counted(@), !.since = 0]]}
        BY <1>10 DEF Begin, BeginRecovery, s
    <2>6. recovery' \in [HealthVms -> RecoveryStates]
        BY <2>2, <2>3, <2>5
    <2> QED
        BY <1>10, <2>4, <2>6 DEF Begin
<1>11. ASSUME NEW c \in HealthCallers, LocalRestart(c) PROVE HealthTypeOK'
    <2>1. PICK p \in {"restarted", "notRestarted"} : call' = [call EXCEPT ![c].at = p]
        BY <1>11 DEF LocalRestart
    <2>2. call' \in [HealthCallers -> [vm : HealthVms, at : CallPlaces]]
        BY <2>1, RecoveryCallMoves, Zenon
    <2>3. call[c].vm \in HealthVms
        OBVIOUS
    <2> QED
        BY <1>11, <2>2, <2>3 DEF LocalRestart
<1>12. ASSUME NEW c \in HealthCallers, RestartSuccess(c) PROVE HealthTypeOK'
    BY <1>12, <1>a DEF RestartSuccess
<1>13. ASSUME NEW c \in HealthCallers, RestartFailure(c) PROVE HealthTypeOK'
    <2>1. call[c].vm \in HealthVms
        OBVIOUS
    <2>2. \A d \in 0..MaxBackoff : Doubled(d) \in 0..MaxBackoff
        BY DEF Doubled
    <2>3. recovery' \in [HealthVms -> RecoveryStates]
        BY <1>13, <2>1, <2>2 DEF RestartFailure
    <2>4. PICK p \in {"migrate", "relock", "error"} : call' = [call EXCEPT ![c].at = p]
        BY <1>13 DEF RestartFailure
    <2>5. call' \in [HealthCallers -> [vm : HealthVms, at : CallPlaces]]
        BY <2>4, RecoveryCallMoves, Zenon
    <2> QED
        BY <1>13, <2>3, <2>5 DEF RestartFailure
<1>14. ASSUME NEW c \in HealthCallers, AttemptMigration(c) PROVE HealthTypeOK'
    <2>1. PICK p \in {"error", "relock"} : call' = [call EXCEPT ![c].at = p]
        BY <1>14 DEF AttemptMigration
    <2>2. call' \in [HealthCallers -> [vm : HealthVms, at : CallPlaces]]
        BY <2>1, RecoveryCallMoves, Zenon
    <2> QED
        BY <1>14, <2>2 DEF AttemptMigration
<1>15. ASSUME NEW t \in Recoveries, NEW v \in HealthVms, CheckActive(t, v)
       PROVE  HealthTypeOK'
    BY <1>15 DEF CheckActive
<1>16. ASSUME NEW t \in Recoveries, Trigger(t) PROVE HealthTypeOK'
    BY <1>16 DEF Trigger, Active
<1>17. ASSUME NEW t \in Recoveries, AcquireSlot(t) PROVE HealthTypeOK'
    BY <1>17 DEF AcquireSlot, CallRecovery, Active, HealthCallers
<1>18. ASSUME NEW t \in Recoveries, SlotTimeout(t) PROVE HealthTypeOK'
    BY <1>18 DEF SlotTimeout, EndTask, Active
<1>19. ASSUME NEW t \in Recoveries, FinishRecovery(t) PROVE HealthTypeOK'
    BY <1>19 DEF FinishRecovery, EndTask, Returned, Active
<1>20. ASSUME NEW t \in Recoveries, RecoveryTimeout(t) PROVE HealthTypeOK'
    BY <1>20, Zenon DEF RecoveryTimeout, EndTask, Returned, ReleasedBy, Active
<1>21. CASE CleanupCompleted
    BY <1>21 DEF CleanupCompleted, Active
<1>22. CASE UNCHANGED healthVars
    BY <1>22 DEF healthVars
<1> QED
    BY <1>1, <1>2, <1>3, <1>4, <1>5, <1>6, <1>7, <1>8, <1>9, <1>10, <1>11, <1>12, <1>13,
       <1>14, <1>15, <1>16, <1>17, <1>18, <1>19, <1>20, <1>21, <1>22, Zenon
    DEF HealthNext, DropClone, StopByUser

\* An operation that is shown as active keeps a task that ends it.
LEMMA PhantomStep ==
    ASSUME HealthTypeOK, NoPhantomRecovery, [HealthNext]_healthVars
    PROVE  NoPhantomRecovery'
<1> USE DEF HealthTypeOK, NoPhantomRecovery, Active
<1>1. CASE UNCHANGED <<operation, recoverer>>
    BY <1>1
<1>2. ASSUME NEW t \in Recoveries, NEW v \in HealthVms, CheckActive(t, v)
      PROVE  NoPhantomRecovery'
    BY <1>2 DEF CheckActive
<1>3. ASSUME NEW t \in Recoveries, Trigger(t) PROVE NoPhantomRecovery'
    BY <1>3 DEF Trigger
<1>4. ASSUME NEW t \in Recoveries, AcquireSlot(t) PROVE NoPhantomRecovery'
    BY <1>4 DEF AcquireSlot
<1>5. ASSUME NEW t \in Recoveries, NEW o \in {"Completed", "Failed", "TimedOut"}, EndTask(t, o)
      PROVE  NoPhantomRecovery'
    BY <1>5 DEF EndTask
<1>6. CASE CleanupCompleted
    BY <1>6 DEF CleanupCompleted
<1> QED
    BY <1>1, <1>2, <1>3, <1>4, <1>5, <1>6, Zenon
    DEF HealthNext, healthVars, ProcessDies, UserStops, UserStarts, ResetRecovery, HealthTick,
        StartMonitor, DropClone, StopByUser, StopMonitor, StartCycle, CheckVm, CycleFails,
        RecoveryReturns, Begin, LocalRestart, RestartSuccess, RestartFailure, AttemptMigration,
        SlotTimeout, FinishRecovery, RecoveryTimeout

\* A slot is taken and given back by one task at a time.
LEMMA SlotMoves ==
    ASSUME HealthTypeOK, IsFiniteSet(InUse), NEW t \in Recoveries,
           \A u \in Recoveries : u # t => recoverer'[u] = recoverer[u]
    PROVE  /\ recoverer'[t].at = "running" => InUse' = InUse \union {t}
           /\ recoverer'[t].at # "running" => InUse' = InUse \ {t}
           /\ IsFiniteSet(InUse')
<1>1. /\ recoverer'[t].at = "running" => InUse' = InUse \union {t}
      /\ recoverer'[t].at # "running" => InUse' = InUse \ {t}
    BY DEF InUse
<1> QED
    BY <1>1, FS_AddElement, FS_RemoveElement

\* At most MaxRecoveries tasks run, and each of them is counted.
LEMMA SlotStep ==
    ASSUME HealthTypeOK, IsFiniteSet(InUse), Cardinality(InUse) <= MaxRecoveries,
           [HealthNext]_healthVars
    PROVE  IsFiniteSet(InUse') /\ Cardinality(InUse') <= MaxRecoveries
<1> USE RecoveryAssumption
<1>0. Cardinality(InUse) \in Nat
    BY FS_CardinalityType
<1>1. CASE UNCHANGED recoverer
    BY <1>1 DEF InUse
<1>2. ASSUME NEW t \in Recoveries,
             \A u \in Recoveries : u # t => recoverer'[u] = recoverer[u],
             recoverer'[t].at # "running"
      PROVE  IsFiniteSet(InUse') /\ Cardinality(InUse') <= MaxRecoveries
    <2>1. InUse' = InUse \ {t} /\ IsFiniteSet(InUse')
        BY <1>2, SlotMoves
    <2> QED
        BY <1>0, <2>1, FS_RemoveElement
<1>3. ASSUME NEW t \in Recoveries, NEW v \in HealthVms, CheckActive(t, v)
      PROVE  IsFiniteSet(InUse') /\ Cardinality(InUse') <= MaxRecoveries
    BY <1>2, <1>3 DEF CheckActive, HealthTypeOK
<1>4. ASSUME NEW t \in Recoveries, Trigger(t)
      PROVE  IsFiniteSet(InUse') /\ Cardinality(InUse') <= MaxRecoveries
    BY <1>2, <1>4 DEF Trigger, HealthTypeOK
<1>5. ASSUME NEW t \in Recoveries, AcquireSlot(t)
      PROVE  IsFiniteSet(InUse') /\ Cardinality(InUse') <= MaxRecoveries
    <2>1. Cardinality(InUse) < MaxRecoveries
        BY <1>0, <1>5 DEF AcquireSlot, HealthPermits
    <2>2. InUse' = InUse \union {t} /\ IsFiniteSet(InUse')
        BY <1>5, SlotMoves DEF AcquireSlot, HealthTypeOK
    <2> QED
        BY <1>0, <2>1, <2>2, FS_AddElement
<1>6. ASSUME NEW t \in Recoveries, NEW o, EndTask(t, o)
      PROVE  IsFiniteSet(InUse') /\ Cardinality(InUse') <= MaxRecoveries
    BY <1>2, <1>6 DEF EndTask, HealthTypeOK
<1> QED
    BY <1>1, <1>3, <1>4, <1>5, <1>6, Zenon
    DEF HealthNext, healthVars, ProcessDies, UserStops, UserStarts, ResetRecovery, HealthTick,
        StartMonitor, DropClone, StopByUser, StopMonitor, StartCycle, CheckVm, CycleFails,
        RecoveryReturns, Begin, LocalRestart, RestartSuccess, RestartFailure, AttemptMigration,
        SlotTimeout, FinishRecovery, RecoveryTimeout, CleanupCompleted

\* The lock is held across an await by a call that migrates or waits for the lock,
\* and only tasks that run have a call.
LockHeldInCall ==
    /\ lockHolder # Nobody => call[lockHolder].at \in {"migrate", "relock"}
    /\ \A t \in Recoveries : recoverer[t].at # "running" => call[t].at = "none"

\* A call that returns, or is dropped by a timeout or by the end of the monitor,
\* does not keep the lock.
LEMMA LockStep ==
    ASSUME HealthTypeOK, LockHeldInCall, [HealthNext]_healthVars
    PROVE  LockHeldInCall'
<1> USE DEF HealthTypeOK, LockHeldInCall
<1>0. Scheduler \in HealthCallers /\ Scheduler \notin Recoveries
      /\ Recoveries \subseteq HealthCallers /\ Nobody \notin HealthCallers
    BY RecoveryAssumption DEF HealthCallers, Scheduler, Nobody
<1>1. CASE UNCHANGED <<lockHolder, call, recoverer>>
    BY <1>1
<1>2. CASE StopMonitor
    <2>1. /\ call'[Scheduler].at = "none"
          /\ \A d \in HealthCallers : d # Scheduler => call'[d] = call[d]
        BY <1>0, <1>2, RecoveryCallMoves, Zenon DEF StopMonitor, Returned, CallPlaces
    <2> QED
        BY <1>0, <1>2, <2>1 DEF StopMonitor, ReleasedBy
<1>3. ASSUME NEW c \in HealthCallers, NEW v, call[c].at = "none", call' = CallRecovery(c, v),
             c \in Recoveries => recoverer'[c].at = "running",
             \A t \in Recoveries : t # c => recoverer'[t] = recoverer[t], UNCHANGED lockHolder
      PROVE  LockHeldInCall'
    BY <1>0, <1>3 DEF CallRecovery
<1>4. ASSUME NEW e \in unchecked, CheckVm(e) PROVE LockHeldInCall'
    BY <1>0, <1>1, <1>3, <1>4 DEF CheckVm, InCall
<1>5. ASSUME NEW t \in Recoveries, AcquireSlot(t) PROVE LockHeldInCall'
    BY <1>0, <1>3, <1>5 DEF AcquireSlot
<1>6. ASSUME NEW c \in HealthCallers, NEW p \in CallPlaces, call' = [call EXCEPT ![c].at = p],
             call[c].at # "none", UNCHANGED recoverer,
             \/ LockFree /\ UNCHANGED lockHolder
             \/ call[c].at \notin {"migrate", "relock"} /\ UNCHANGED lockHolder
             \/ p \in {"migrate", "relock"} /\ lockHolder' \in {c, lockHolder}
             \/ lockHolder' = Nobody
      PROVE  LockHeldInCall'
    <2>1. /\ call'[c].at = p
          /\ \A d \in HealthCallers : d # c => call'[d] = call[d]
        BY <1>6, RecoveryCallMoves
    <2> QED
        BY <1>0, <1>6, <2>1 DEF LockFree
<1>7. ASSUME NEW c \in HealthCallers, CallStep(c) PROVE LockHeldInCall'
    <2> USE DEF CallPlaces, LockFree
    <2>1. CASE Begin(c)
        BY <1>6, <2>1 DEF Begin, BeginRecovery
    <2>2. CASE LocalRestart(c)
        BY <1>6, <2>2 DEF LocalRestart
    <2>3. CASE RestartSuccess(c)
        BY <1>6, <2>3, Zenon DEF RestartSuccess
    <2>4. CASE RestartFailure(c)
        BY <1>6, <2>4 DEF RestartFailure
    <2>5. CASE AttemptMigration(c)
        BY <1>6, <2>5 DEF AttemptMigration
    <2> QED
        BY <1>7, <2>1, <2>2, <2>3, <2>4, <2>5 DEF CallStep
<1>8. CASE RecoveryReturns
    BY <1>0, <1>6, <1>8, Zenon DEF RecoveryReturns, Returned, CallPlaces
<1>9. ASSUME NEW t \in Recoveries, recoverer[t].at # "running", UNCHANGED <<call, lockHolder>>,
             \A u \in Recoveries : u # t => recoverer'[u] = recoverer[u]
      PROVE  LockHeldInCall'
    BY <1>0, <1>9
<1>10. ASSUME NEW t \in Recoveries, NEW o, EndTask(t, o), call' = Returned(t),
              \/ call[t].at \in {"ok", "error"} /\ UNCHANGED lockHolder
              \/ lockHolder' = ReleasedBy(t)
       PROVE  LockHeldInCall'
    <2>1. /\ call'[t].at = "none"
          /\ \A d \in HealthCallers : d # t => call'[d] = call[d]
        BY <1>0, <1>10, RecoveryCallMoves, Zenon DEF Returned, CallPlaces
    <2>2. \A u \in Recoveries : u # t => recoverer'[u] = recoverer[u]
        BY <1>10 DEF EndTask
    <2> QED
        BY <1>0, <1>10, <2>1, <2>2 DEF ReleasedBy
<1>11. ASSUME NEW t \in Recoveries,
              \/ \E v \in HealthVms : CheckActive(t, v)
              \/ Trigger(t) \/ SlotTimeout(t) \/ FinishRecovery(t) \/ RecoveryTimeout(t)
       PROVE  LockHeldInCall'
    <2>1. CASE \E v \in HealthVms : CheckActive(t, v)
        BY <1>9, <2>1 DEF CheckActive
    <2>2. CASE Trigger(t)
        BY <1>9, <2>2 DEF Trigger
    <2>3. CASE SlotTimeout(t)
        BY <1>9, <2>3 DEF SlotTimeout, EndTask
    <2>4. CASE FinishRecovery(t)
        BY <1>10, <2>4 DEF FinishRecovery
    <2>5. CASE RecoveryTimeout(t)
        BY <1>10, <2>5 DEF RecoveryTimeout
    <2> QED
        BY <1>11, <2>1, <2>2, <2>3, <2>4, <2>5
<1> QED
    BY <1>1, <1>2, <1>4, <1>5, <1>7, <1>8, <1>11
    DEF HealthNext, healthVars, ProcessDies, UserStops, UserStarts, ResetRecovery, HealthTick,
        StartMonitor, DropClone, StopByUser, StartCycle, CycleFails, CallStep, CleanupCompleted

\* Every step of the scheduler, the coordinator and the calls preserves the
\* invariant.
LEMMA HealthStepInv == HealthInv /\ [HealthNext]_healthVars => HealthInv'
    BY HealthTypeStep, PhantomStep, SlotStep, LockStep
    DEF HealthInv, LockHeldInCall, RecoveriesWithinLimit

\* An operation that active_recoveries shows as under way has a task that will
\* end it, for any number of VMs and tasks: trigger_recovery never skips a VM
\* because of a recovery nobody is working on.
THEOREM ActiveRecoveriesHaveTasks == HealthSpec => []NoPhantomRecovery
<1>1. HealthInv => NoPhantomRecovery
    BY DEF HealthInv
<1> QED
    BY <1>1, HealthInitInv, HealthStepInv, PTL DEF HealthSpec

\* max_concurrent_recoveries holds whatever timeouts interrupt, and the write
\* lock of recovery_states is only ever held by a call that is under way.
THEOREM RecoveriesAreLimited == HealthSpec => []RecoveriesWithinLimit
<1>1. HealthInv => RecoveriesWithinLimit
    BY DEF HealthInv
<1> QED
    BY <1>1, HealthInitInv, HealthStepInv, PTL DEF HealthSpec

-----------------------------------------------------------------------------
(***************************************************************************)
(* IpPools: the pools and the two indexes of the allocations agree whenever *)
(* their locks are taken and released in the order of the code.             *)
(***************************************************************************)

\* A pool that was deleted, or not created yet, has nothing allocated.
AbsentPoolsAreEmpty == \A p \in Pools : ~pool[p].exists => pool[p].allocated = {}

\* The write lock of the pools, kept while an address is recorded.
OneRecords ==
    \A c, d \in IpClients : ipCall[c].at = "record" /\ ipCall[d].at = "record" => c = d

IpInv == IpTypeOK /\ AbsentPoolsAreEmpty /\ OneRecords /\ IpIndexesAgree

-----------------------------------------------------------------------------
\* An address belongs to one pool.
LEMMA PoolOfAddress ==
    /\ \A p \in Pools : \A ip \in PoolRange[p] : ip \in Ips /\ PoolOf(ip) = p
    /\ \A ip \in Ips : PoolOf(ip) \in Pools /\ ip \in PoolRange[PoolOf(ip)]
<1>1. \A p \in Pools : \A ip \in PoolRange[p] : ip \in Ips
    BY DEF Ips
<1>2. \A ip \in Ips : \E p \in Pools : ip \in PoolRange[p]
    BY DEF Ips
<1>3. \A ip \in Ips : PoolOf(ip) \in Pools /\ ip \in PoolRange[PoolOf(ip)]
    BY <1>2, Zenon DEF PoolOf
<1>4. ASSUME NEW p \in Pools, NEW ip \in PoolRange[p]
      PROVE  PoolOf(ip) = p
    BY <1>1, <1>3, PoolsAssumption
<1> QED
    BY <1>1, <1>3, <1>4

\* The fields a call has, by where it stands.
LEMMA CallFields ==
    ASSUME NEW state \in IpCalls
    PROVE  /\ state.at \in {"idle", "selected", "record", "release"}
           /\ state.at # "idle" => state.vm \in IpVms
           /\ state.at = "selected" => state.pool \in Pools
           /\ state.at = "record" => state.ip \in Ips
    BY DEF IpCalls

\* The states a call moves to.
LEMMA CallStates ==
    /\ [at |-> "idle"] \in IpCalls
    /\ \A v \in IpVms : [at |-> "release", vm |-> v] \in IpCalls
    /\ \A v \in IpVms, p \in Pools : [at |-> "selected", vm |-> v, pool |-> p] \in IpCalls
    /\ \A v \in IpVms, i \in Ips : [at |-> "record", vm |-> v, ip |-> i] \in IpCalls
    BY DEF IpCalls

\* A call moves on, and the others stay where they are.
LEMMA CallMoves ==
    ASSUME ipCall \in [IpClients -> IpCalls], NEW c \in IpClients, NEW state \in IpCalls,
           Calls(c, state)
    PROVE  /\ ipCall' \in [IpClients -> IpCalls]
           /\ ipCall'[c] = state
           /\ \A d \in IpClients \ {c} : ipCall'[d] = ipCall[d]
    BY DEF Calls

\* A pool made from the configuration has the type of a pool.
LEMMA NewPoolType ==
    ASSUME NEW p \in Pools, NEW reserved \in SUBSET PoolRange[p],
           NEW allocatedIps \in SUBSET PoolRange[p]
    PROVE  /\ NewPool(p, reserved, allocatedIps) \in PoolRecords
           /\ NewPool(p, reserved, allocatedIps).exists
           /\ NewPool(p, reserved, allocatedIps).allocated = allocatedIps
<1>1. IsFiniteSet(PoolRange[p])
    BY PoolsAssumption
<1>2. /\ IsFiniteSet(reserved) /\ Cardinality(reserved) <= Cardinality(PoolRange[p])
    BY <1>1, FS_Subset
<1>3. Cardinality(reserved) \in Nat /\ Cardinality(PoolRange[p]) \in Nat
    BY <1>1, <1>2, FS_CardinalityType
<1>4. Cardinality(PoolRange[p]) - Cardinality(reserved) \in Nat
    BY <1>2, <1>3
<1>5. reserved \subseteq Ips /\ allocatedIps \subseteq Ips
    BY PoolOfAddress
<1> QED
    BY <1>4, <1>5 DEF NewPool, PoolRecords

\* A pool from which one more address is taken.
LEMMA TakenType ==
    ASSUME NEW r \in PoolRecords, NEW ip \in Ips
    PROVE  LET new == [r EXCEPT !.allocated = @ \union {ip}, !.made = @ + 1] IN
           /\ new \in PoolRecords /\ new.exists = r.exists
           /\ new.allocated = r.allocated \union {ip}
<1> DEFINE given == r.allocated \union {ip}
           count == r.made + 1
<1>1. given \in SUBSET Ips /\ count \in Nat
    BY DEF PoolRecords
<1> HIDE DEF given, count
<1>2. LET new == [r EXCEPT !.allocated = given, !.made = count] IN
      new \in PoolRecords /\ new.exists = r.exists /\ new.allocated = given
    BY <1>1 DEF PoolRecords
<1> QED
    BY <1>2 DEF given, count

\* A pool that does not exist has the type of a pool.
LEMMA NoPoolType == NoPool \in PoolRecords /\ ~NoPool.exists /\ NoPool.allocated = {}
    BY DEF NoPool, PoolRecords

-----------------------------------------------------------------------------
\* load_from_storage makes pools and indexes that agree.
LEMMA InitAgrees == IpInit => IpInv
<1> SUFFICES ASSUME IpInit PROVE IpInv
    OBVIOUS
<1>1. PICK loaded \in SUBSET Pools, owner \in [Ips -> IpVms \union {"none"}], rs \in SUBSET Ips :
        /\ \A ip \in Ips : PoolOf(ip) \notin loaded => owner[ip] = "none" /\ ip \notin rs
        /\ pool = [p \in Pools |-> IF p \in loaded
              THEN NewPool(p, rs \intersect PoolRange[p], {ip \in PoolRange[p] : owner[ip] # "none"})
              ELSE NoPool]
        /\ holder = owner
        /\ vmIps = [v \in IpVms |-> {ip \in Ips : owner[ip] = v}]
    BY DEF IpInit
<1>2. ipCall = [c \in IpClients |-> [at |-> "idle"]]
    BY DEF IpInit
<1>3. ASSUME NEW p \in Pools
      PROVE  /\ pool[p] \in PoolRecords
             /\ p \in loaded => pool[p].allocated = {ip \in PoolRange[p] : owner[ip] # "none"}
             /\ p \in loaded => pool[p].exists
             /\ p \notin loaded => pool[p].allocated = {}
  <2>1. CASE p \in loaded
    <3> DEFINE taken == {ip \in PoolRange[p] : owner[ip] # "none"}
               kept == rs \intersect PoolRange[p]
    <3>1. pool[p] = NewPool(p, kept, taken)
        BY <1>1, <2>1
    <3>2. kept \in SUBSET PoolRange[p] /\ taken \in SUBSET PoolRange[p]
        OBVIOUS
    <3> HIDE DEF taken, kept
    <3>3. pool[p] \in PoolRecords /\ pool[p].exists /\ pool[p].allocated = taken
        BY <3>1, <3>2, NewPoolType
    <3> QED
        BY <2>1, <3>3 DEF taken
  <2>2. CASE p \notin loaded
    <3>1. pool[p] = NoPool
        BY <1>1, <2>2
    <3> QED
        BY <2>2, <3>1, NoPoolType
  <2> QED
      BY <2>1, <2>2
<1>4. \A c \in IpClients : ipCall[c].at = "idle"
    BY <1>2
<1>5. IpTypeOK
  <2>1. pool \in [Pools -> PoolRecords]
      BY <1>1, <1>3
  <2>2. holder \in [Ips -> IpVms \union {"none"}] /\ vmIps \in [IpVms -> SUBSET Ips]
      BY <1>1
  <2>3. ipCall \in [IpClients -> IpCalls]
      BY <1>2, CallStates
  <2> QED
      BY <2>1, <2>2, <2>3 DEF IpTypeOK
<1>6. AbsentPoolsAreEmpty
    BY <1>3 DEF AbsentPoolsAreEmpty
<1>7. OneRecords
    BY <1>4 DEF OneRecords
<1>8. IpIndexesAgree
  <2> SUFFICES ASSUME NEW ip \in Ips
               PROVE  /\ ip \in pool[PoolOf(ip)].allocated <=> holder[ip] # "none" \/ Recording(ip)
                      /\ Recording(ip) => holder[ip] = "none"
                      /\ \A v \in IpVms : ip \in vmIps[v] <=> holder[ip] = v
      BY DEF IpIndexesAgree
  <2>1. ~Recording(ip)
      BY <1>4 DEF Recording
  <2>2. PoolOf(ip) \in Pools /\ ip \in PoolRange[PoolOf(ip)]
      BY PoolOfAddress
  <2>3. ip \in pool[PoolOf(ip)].allocated <=> owner[ip] # "none"
    <3>1. CASE PoolOf(ip) \in loaded
        BY <1>3, <2>2, <3>1
    <3>2. CASE PoolOf(ip) \notin loaded
      <4>1. owner[ip] = "none"
          BY <1>1, <3>2, Zenon
      <4> QED
          BY <1>3, <2>2, <3>2, <4>1
    <3> QED
        BY <3>1, <3>2
  <2>4. \A v \in IpVms : ip \in vmIps[v] <=> owner[ip] = v
      BY <1>1
  <2>5. holder[ip] = owner[ip]
      BY <1>1
  <2> QED
      BY <2>1, <2>3, <2>4, <2>5
<1> QED
    BY <1>5, <1>6, <1>7, <1>8 DEF IpInv

-----------------------------------------------------------------------------
\* The commands of process_command change what a pool may give out, not what it
\* has given out.
LEMMA SameAllocations ==
    ASSUME IpInv, NEW p \in Pools, NEW record \in PoolRecords,
           pool' = [pool EXCEPT ![p] = record],
           record.allocated = pool[p].allocated,
           ~record.exists => record.allocated = {},
           UNCHANGED <<holder, vmIps, ipCall>>
    PROVE  IpInv'
<1>1. /\ pool \in [Pools -> PoolRecords] /\ pool' \in [Pools -> PoolRecords]
      /\ \A q \in Pools : pool'[q] = IF q = p THEN record ELSE pool[q]
    BY DEF IpInv, IpTypeOK
<1>2. \A q \in Pools : pool'[q].allocated = pool[q].allocated
    BY <1>1
<1>3. IpTypeOK'
    BY <1>1 DEF IpInv, IpTypeOK
<1>4. AbsentPoolsAreEmpty'
    BY <1>1 DEF IpInv, AbsentPoolsAreEmpty
<1>5. OneRecords'
    BY DEF IpInv, OneRecords
<1>6. IpIndexesAgree'
  <2>1. \A ip \in Ips : pool'[PoolOf(ip)].allocated = pool[PoolOf(ip)].allocated
      BY <1>2, PoolOfAddress
  <2>2. \A ip \in Ips : Recording(ip)' <=> Recording(ip)
      BY DEF Recording
  <2> QED
      BY <2>1, <2>2 DEF IpInv, IpIndexesAgree
<1> QED
    BY <1>3, <1>4, <1>5, <1>6 DEF IpInv

\* A command of process_command keeps the invariant.
LEMMA CommandAgrees ==
    ASSUME IpInv, NEW p \in Pools, NEW ips \in SUBSET PoolRange[p], NEW enabled \in BOOLEAN,
           \/ CreatePool(p, ips) \/ ReserveIps(p, ips) \/ ReleaseReservedIps(p, ips)
           \/ UpdatePool(p, ips, enabled) \/ DeletePool(p) \/ SetPoolEnabled(p, enabled)
    PROVE  IpInv'
<1>1. pool \in [Pools -> PoolRecords] /\ pool[p] \in PoolRecords
    BY DEF IpInv, IpTypeOK
<1>2. ips \subseteq Ips
    BY PoolOfAddress
<1>3. ~pool[p].exists => pool[p].allocated = {}
    BY DEF IpInv, AbsentPoolsAreEmpty
<1>4. CASE CreatePool(p, ips)
  <2> DEFINE record == NewPool(p, ips, {})
  <2>1. pool' = [pool EXCEPT ![p] = record] /\ UNCHANGED <<holder, vmIps, ipCall>>
      BY <1>4 DEF CreatePool
  <2>2. record \in PoolRecords /\ record.exists /\ record.allocated = {}
      BY NewPoolType
  <2>3. pool[p].allocated = {}
      BY <1>3, <1>4, Zenon DEF CreatePool
  <2> HIDE DEF record
  <2> QED
      BY <2>1, <2>2, <2>3, SameAllocations, Zenon
<1>5. CASE ReserveIps(p, ips)
  <2> DEFINE record == [pool[p] EXCEPT !.reserved = @ \union ips]
  <2>1. pool' = [pool EXCEPT ![p] = record] /\ UNCHANGED <<holder, vmIps, ipCall>>
      BY <1>1, <1>5 DEF ReserveIps
  <2>2. /\ record \in PoolRecords /\ record.exists = pool[p].exists
        /\ record.allocated = pool[p].allocated
      BY <1>1, <1>2 DEF PoolRecords
  <2> HIDE DEF record
  <2> QED
      BY <1>3, <2>1, <2>2, SameAllocations
<1>6. CASE ReleaseReservedIps(p, ips)
  <2> DEFINE record == [pool[p] EXCEPT !.reserved = @ \ ips]
  <2>1. pool' = [pool EXCEPT ![p] = record] /\ UNCHANGED <<holder, vmIps, ipCall>>
      BY <1>1, <1>6 DEF ReleaseReservedIps
  <2>2. /\ record \in PoolRecords /\ record.exists = pool[p].exists
        /\ record.allocated = pool[p].allocated
      BY <1>1, <1>2 DEF PoolRecords
  <2> HIDE DEF record
  <2> QED
      BY <1>3, <2>1, <2>2, SameAllocations, Zenon
<1>7. CASE UpdatePool(p, ips, enabled)
  <2> DEFINE record == [pool[p] EXCEPT !.reserved = ips, !.enabled = enabled]
  <2>1. pool' = [pool EXCEPT ![p] = record] /\ UNCHANGED <<holder, vmIps, ipCall>>
      BY <1>1, <1>7, Zenon DEF UpdatePool
  <2>2. /\ record \in PoolRecords /\ record.exists = pool[p].exists
        /\ record.allocated = pool[p].allocated
      BY <1>1, <1>2, Zenon DEF PoolRecords
  <2> HIDE DEF record
  <2> QED
      BY <1>3, <2>1, <2>2, SameAllocations
<1>8. CASE DeletePool(p)
  <2>1. /\ pool' = [pool EXCEPT ![p] = NoPool] /\ UNCHANGED <<holder, vmIps, ipCall>>
        /\ pool[p].allocated = {}
      BY <1>8 DEF DeletePool
  <2> QED
      BY <2>1, NoPoolType, SameAllocations, Zenon
<1>9. CASE SetPoolEnabled(p, enabled)
  <2> DEFINE record == [pool[p] EXCEPT !.enabled = enabled]
  <2>1. pool' = [pool EXCEPT ![p] = record] /\ UNCHANGED <<holder, vmIps, ipCall>>
      BY <1>1, <1>9 DEF SetPoolEnabled
  <2>2. /\ record \in PoolRecords /\ record.exists = pool[p].exists
        /\ record.allocated = pool[p].allocated
      BY <1>1 DEF PoolRecords
  <2> HIDE DEF record
  <2> QED
      BY <1>3, <2>1, <2>2, SameAllocations
<1> QED
    BY <1>4, <1>5, <1>6, <1>7, <1>8, <1>9

-----------------------------------------------------------------------------
\* A call that neither holds the lock of the pools nor takes it moves on, and
\* changes no map.
LEMMA CallAgrees ==
    ASSUME IpInv, NEW c \in IpClients, NEW state \in IpCalls, Calls(c, state),
           ipCall[c].at # "record", state.at # "record",
           UNCHANGED <<pool, holder, vmIps>>
    PROVE  IpInv'
<1>1. /\ ipCall' \in [IpClients -> IpCalls] /\ ipCall'[c] = state
      /\ \A d \in IpClients \ {c} : ipCall'[d] = ipCall[d]
    BY CallMoves DEF IpInv, IpTypeOK
<1>2. IpTypeOK' /\ AbsentPoolsAreEmpty'
    BY <1>1 DEF IpInv, IpTypeOK, AbsentPoolsAreEmpty
<1>3. OneRecords'
    BY <1>1 DEF IpInv, OneRecords
<1>4. \A ip \in Ips : Recording(ip)' <=> Recording(ip)
    BY <1>1 DEF Recording
<1>5. IpIndexesAgree'
    BY <1>4 DEF IpInv, IpIndexesAgree
<1> QED
    BY <1>2, <1>3, <1>5 DEF IpInv

\* Every pool that select_pool may return is a pool.
LEMMA SelectedPool ==
    ASSUME NEW strategy \in IpStrategies, NEW hint
    PROVE  SelectPool(strategy, hint) \subseteq Pools
<1>1. Eligible(hint) \subseteq Pools
    BY DEF Eligible
<1>2. CASE strategy = "LeastUtilized"
    BY <1>1, <1>2 DEF SelectPool
<1>3. CASE strategy = "MostUtilized"
    BY <1>1, <1>3 DEF SelectPool
<1>4. CASE strategy = "TopologyAware"
    BY <1>1, <1>4 DEF SelectPool
<1>5. CASE strategy = "Any"
    BY <1>1, <1>5 DEF SelectPool
<1> QED
    BY <1>2, <1>3, <1>4, <1>5 DEF IpStrategies

\* An address leaves its pool: it was free, so neither index knows it, and no
\* other call is between a pool and the indexes.
LEMMA TakeAgrees ==
    ASSUME IpInv, NEW c \in IpClients, TakeFromPool(c)
    PROVE  IpInv'
<1> DEFINE p == ipCall[c].pool
           v == ipCall[c].vm
<1>1. /\ pool \in [Pools -> PoolRecords] /\ ipCall \in [IpClients -> IpCalls]
      /\ holder \in [Ips -> IpVms \union {"none"}] /\ vmIps \in [IpVms -> SUBSET Ips]
    BY DEF IpInv, IpTypeOK
<1>2. /\ ipCall[c].at = "selected" /\ ~PoolsLocked /\ pool[p].exists
      /\ UNCHANGED <<holder, vmIps>>
    BY DEF TakeFromPool
<1>3. p \in Pools /\ v \in IpVms
    BY <1>1, <1>2, CallFields
<1>4. PICK ip \in NextFree(p) :
        /\ pool' = [pool EXCEPT ![p].allocated = @ \union {ip}, ![p].made = @ + 1]
        /\ Calls(c, [at |-> "record", vm |-> v, ip |-> ip])
    BY DEF TakeFromPool
<1> HIDE DEF p, v
<1>5. ip \in PoolRange[p] /\ ip \notin pool[p].allocated
    BY DEF NextFree, FreeAtFactory
<1>6. ip \in Ips /\ PoolOf(ip) = p
    BY <1>3, <1>5, PoolOfAddress
<1> DEFINE state == [at |-> "record", vm |-> v, ip |-> ip]
<1>7. state \in IpCalls /\ state.at = "record" /\ state.ip = ip
    BY <1>3, <1>6, CallStates
<1>8. /\ ipCall' \in [IpClients -> IpCalls] /\ ipCall'[c] = state
      /\ \A d \in IpClients \ {c} : ipCall'[d] = ipCall[d]
  <2>1. Calls(c, state)
      BY <1>4
  <2> HIDE DEF state
  <2> QED
      BY <1>1, <1>7, <2>1, CallMoves
<1> HIDE DEF state
<1>9. /\ pool' \in [Pools -> PoolRecords]
      /\ pool'[p].exists = pool[p].exists
      /\ pool'[p].allocated = pool[p].allocated \union {ip}
      /\ \A q \in Pools \ {p} : pool'[q] = pool[q]
  <2> DEFINE record == [pool[p] EXCEPT !.allocated = @ \union {ip}, !.made = @ + 1]
  <2>1. pool' = [pool EXCEPT ![p] = record]
      BY <1>1, <1>3, <1>4
  <2>2. /\ record \in PoolRecords /\ record.exists = pool[p].exists
        /\ record.allocated = pool[p].allocated \union {ip}
    <3>1. pool[p] \in PoolRecords
        BY <1>1, <1>3
    <3> QED
        BY <1>6, <3>1, TakenType, Zenon
  <2> HIDE DEF record
  <2> QED
      BY <1>1, <1>3, <2>1, <2>2
<1>10. IpTypeOK'
    BY <1>1, <1>2, <1>8, <1>9 DEF IpTypeOK
<1>11. AbsentPoolsAreEmpty'
    BY <1>2, <1>9, Zenon DEF IpInv, AbsentPoolsAreEmpty
<1>12. \A d \in IpClients : ipCall[d].at # "record"
    BY <1>2 DEF PoolsLocked
<1>13. OneRecords'
    BY <1>8, <1>12 DEF OneRecords
<1>14. \A o \in Ips : ~Recording(o) /\ (Recording(o)' <=> o = ip)
    BY <1>7, <1>8, <1>12 DEF Recording
<1>15. IpIndexesAgree'
  <2> SUFFICES ASSUME NEW o \in Ips
               PROVE  /\ o \in pool'[PoolOf(o)].allocated <=> holder'[o] # "none" \/ Recording(o)'
                      /\ Recording(o)' => holder'[o] = "none"
                      /\ \A w \in IpVms : o \in vmIps'[w] <=> holder'[o] = w
      BY DEF IpIndexesAgree
  <2>1. /\ o \in pool[PoolOf(o)].allocated <=> holder[o] # "none"
        /\ \A w \in IpVms : o \in vmIps[w] <=> holder[o] = w
      BY <1>14 DEF IpInv, IpIndexesAgree
  <2>2. o \in pool'[PoolOf(o)].allocated <=> o \in pool[PoolOf(o)].allocated \/ o = ip
      BY <1>6, <1>9, PoolOfAddress
  <2>3. o = ip => holder[o] = "none"
      BY <1>5, <1>6, <2>1
  <2> QED
      BY <1>2, <1>14, <2>1, <2>2, <2>3
<1> QED
    BY <1>10, <1>11, <1>13, <1>15 DEF IpInv

\* The address is recorded: the caller was the only one to hold the lock of the
\* pools, and no index had the address.
LEMMA RecordAgrees ==
    ASSUME IpInv, NEW c \in IpClients, Record(c)
    PROVE  IpInv'
<1> DEFINE ip == ipCall[c].ip
           v == ipCall[c].vm
<1>1. /\ pool \in [Pools -> PoolRecords] /\ ipCall \in [IpClients -> IpCalls]
      /\ holder \in [Ips -> IpVms \union {"none"}] /\ vmIps \in [IpVms -> SUBSET Ips]
    BY DEF IpInv, IpTypeOK
<1>2. /\ ipCall[c].at = "record" /\ pool' = pool /\ Calls(c, [at |-> "idle"])
      /\ holder' = [holder EXCEPT ![ip] = v]
      /\ vmIps' = [vmIps EXCEPT ![v] = @ \union {ip}]
    BY DEF Record, Return
<1>3. ip \in Ips /\ v \in IpVms /\ v # "none"
    BY <1>1, <1>2, CallFields, PoolsAssumption
<1>4. \A o \in Ips : Recording(o) <=> o = ip
    BY <1>2 DEF IpInv, OneRecords, Recording
<1>5. /\ ipCall' \in [IpClients -> IpCalls]
      /\ \A d \in IpClients : ipCall'[d].at # "record"
  <2>1. /\ ipCall' \in [IpClients -> IpCalls] /\ ipCall'[c] = [at |-> "idle"]
        /\ \A d \in IpClients \ {c} : ipCall'[d] = ipCall[d]
      BY <1>1, <1>2, CallStates, CallMoves
  <2>2. \A d \in IpClients \ {c} : ipCall[d].at # "record"
      BY <1>2 DEF IpInv, OneRecords
  <2> QED
      BY <2>1, <2>2
<1> HIDE DEF ip, v
<1>6. /\ holder' \in [Ips -> IpVms \union {"none"}] /\ vmIps' \in [IpVms -> SUBSET Ips]
      /\ \A o \in Ips : holder'[o] = IF o = ip THEN v ELSE holder[o]
      /\ \A w \in IpVms : vmIps'[w] = IF w = v THEN vmIps[w] \union {ip} ELSE vmIps[w]
    BY <1>1, <1>2, <1>3
<1>7. IpTypeOK' /\ AbsentPoolsAreEmpty'
    BY <1>1, <1>2, <1>5, <1>6, Zenon DEF IpInv, IpTypeOK, AbsentPoolsAreEmpty
<1>8. OneRecords'
    BY <1>5 DEF OneRecords
<1>9. \A o \in Ips : ~Recording(o)'
    BY <1>5 DEF Recording
<1>10. IpIndexesAgree'
  <2> SUFFICES ASSUME NEW o \in Ips
               PROVE  /\ o \in pool[PoolOf(o)].allocated <=> holder'[o] # "none"
                      /\ \A w \in IpVms : o \in vmIps'[w] <=> holder'[o] = w
      BY <1>2, <1>9 DEF IpIndexesAgree
  <2>1. /\ o \in pool[PoolOf(o)].allocated <=> holder[o] # "none" \/ o = ip
        /\ o = ip => holder[o] = "none"
        /\ \A w \in IpVms : o \in vmIps[w] <=> holder[o] = w
      BY <1>4 DEF IpInv, IpIndexesAgree
  <2>2. CASE o = ip
    <3>1. \A w \in IpVms : o \notin vmIps[w]
        BY <2>1, <2>2, PoolsAssumption
    <3> QED
        BY <1>3, <1>6, <2>1, <2>2, <3>1
  <2>3. CASE o # ip
      BY <1>6, <2>1, <2>3
  <2> QED
      BY <2>2, <2>3
<1> QED
    BY <1>7, <1>8, <1>10 DEF IpInv

\* The addresses of a VM go back, out of both indexes and out of every pool.
LEMMA ReleaseAgrees ==
    ASSUME IpInv, NEW c \in IpClients, ReleaseVmIps(c)
    PROVE  IpInv'
<1> DEFINE v == ipCall[c].vm
<1>1. /\ pool \in [Pools -> PoolRecords] /\ ipCall \in [IpClients -> IpCalls]
      /\ holder \in [Ips -> IpVms \union {"none"}] /\ vmIps \in [IpVms -> SUBSET Ips]
    BY DEF IpInv, IpTypeOK
<1>2. /\ ipCall[c].at = "release" /\ ~PoolsLocked /\ Calls(c, [at |-> "idle"])
      /\ holder' = [ip \in Ips |-> IF ip \in vmIps[v] THEN "none" ELSE holder[ip]]
      /\ pool' = [p \in Pools |-> [pool[p] EXCEPT !.allocated = @ \ vmIps[v]]]
      /\ vmIps' = [vmIps EXCEPT ![v] = {}]
    BY DEF ReleaseVmIps, Return
<1>3. v \in IpVms /\ v # "none"
    BY <1>1, <1>2, CallFields, PoolsAssumption
<1> HIDE DEF v
<1>4. \A d \in IpClients : ipCall[d].at # "record"
    BY <1>2 DEF PoolsLocked
<1>5. /\ ipCall' \in [IpClients -> IpCalls]
      /\ \A d \in IpClients : ipCall'[d].at # "record"
    BY <1>1, <1>2, <1>4, CallStates, CallMoves
<1>6. ASSUME NEW p \in Pools
      PROVE  /\ pool'[p] \in PoolRecords /\ pool'[p].exists = pool[p].exists
             /\ pool'[p].allocated = pool[p].allocated \ vmIps[v]
  <2>1. pool'[p] = [pool[p] EXCEPT !.allocated = @ \ vmIps[v]]
      BY <1>2
  <2>2. pool[p] \in PoolRecords
      BY <1>1
  <2> QED
      BY <2>1, <2>2 DEF PoolRecords
<1>7. /\ holder' \in [Ips -> IpVms \union {"none"}] /\ vmIps' \in [IpVms -> SUBSET Ips]
      /\ \A o \in Ips : holder'[o] = IF o \in vmIps[v] THEN "none" ELSE holder[o]
      /\ \A w \in IpVms : vmIps'[w] = IF w = v THEN {} ELSE vmIps[w]
    BY <1>1, <1>2, <1>3
<1>8. IpTypeOK'
  <2>1. pool' \in [Pools -> PoolRecords]
      BY <1>2, <1>6
  <2> QED
      BY <1>5, <1>7, <2>1 DEF IpTypeOK
<1>9. AbsentPoolsAreEmpty'
    BY <1>6 DEF IpInv, AbsentPoolsAreEmpty
<1>10. OneRecords' /\ \A o \in Ips : ~Recording(o) /\ ~Recording(o)'
    BY <1>4, <1>5 DEF OneRecords, Recording
<1>11. IpIndexesAgree'
  <2> SUFFICES ASSUME NEW o \in Ips
               PROVE  /\ o \in pool'[PoolOf(o)].allocated <=> holder'[o] # "none"
                      /\ \A w \in IpVms : o \in vmIps'[w] <=> holder'[o] = w
      BY <1>10 DEF IpIndexesAgree
  <2>1. /\ o \in pool[PoolOf(o)].allocated <=> holder[o] # "none"
        /\ \A w \in IpVms : o \in vmIps[w] <=> holder[o] = w
      BY <1>10 DEF IpInv, IpIndexesAgree
  <2>2. o \in pool'[PoolOf(o)].allocated <=> o \in pool[PoolOf(o)].allocated /\ o \notin vmIps[v]
      BY <1>6, PoolOfAddress
  <2>3. CASE o \in vmIps[v]
      BY <1>3, <1>7, <2>1, <2>2, <2>3, PoolsAssumption, SMTT(30)
  <2>4. CASE o \notin vmIps[v]
      BY <1>3, <1>7, <2>1, <2>2, <2>4, PoolsAssumption, SMTT(30)
  <2> QED
      BY <2>3, <2>4
<1> QED
    BY <1>8, <1>9, <1>10, <1>11 DEF IpInv

-----------------------------------------------------------------------------
\* Every step keeps the invariant.
LEMMA IpStepAgrees == IpInv /\ [IpNext]_ipVars => IpInv'
<1> SUFFICES ASSUME IpInv, [IpNext]_ipVars PROVE IpInv'
    OBVIOUS
<1>1. ipCall \in [IpClients -> IpCalls]
    BY DEF IpInv, IpTypeOK
<1>2. CASE UNCHANGED ipVars
  <2>1. IpTypeOK' /\ AbsentPoolsAreEmpty'
      BY <1>2, SMTT(30) DEF ipVars, IpInv, IpTypeOK, AbsentPoolsAreEmpty
  <2>2. \A o : Recording(o)' <=> Recording(o)
      BY <1>2, SMTT(30) DEF ipVars, Recording
  <2>3. OneRecords'
      BY <1>2, SMTT(30) DEF ipVars, IpInv, OneRecords, Recording
  <2>4. IpIndexesAgree'
      BY <1>2, <2>2, SMTT(30) DEF ipVars, IpInv, IpIndexesAgree
  <2> QED
      BY <2>1, <2>3, <2>4 DEF IpInv
<1>3. ASSUME NEW p \in Pools, NEW ips \in SUBSET PoolRange[p],
             \/ CreatePool(p, ips) \/ ReserveIps(p, ips) \/ ReleaseReservedIps(p, ips)
             \/ \E enabled \in BOOLEAN : UpdatePool(p, ips, enabled)
      PROVE  IpInv'
    BY <1>3, CommandAgrees, Zenon
<1>4. ASSUME NEW p \in Pools,
             DeletePool(p) \/ \E enabled \in BOOLEAN : SetPoolEnabled(p, enabled)
      PROVE  IpInv'
  <2>1. {} \in SUBSET PoolRange[p]
      OBVIOUS
  <2> QED
      BY <1>4, <2>1, CommandAgrees, Zenon
<1>5. ASSUME NEW c \in IpClients, NEW v \in IpVms, NEW s \in IpStrategies,
             NEW hint \in IpHints, Select(c, v, s, hint)
      PROVE  IpInv'
  <2>1. PICK p \in SelectPool(s, hint) : Calls(c, [at |-> "selected", vm |-> v, pool |-> p])
      BY <1>5 DEF Select
  <2> DEFINE state == [at |-> "selected", vm |-> v, pool |-> p]
  <2>2. state \in IpCalls /\ state.at # "record" /\ Calls(c, state)
      BY <2>1, SelectedPool, CallStates, Zenon
  <2>3. ipCall[c].at # "record" /\ UNCHANGED <<pool, holder, vmIps>>
      BY <1>5 DEF Select
  <2> HIDE DEF state
  <2> QED
      BY <2>2, <2>3, CallAgrees, Zenon
<1>6. ASSUME NEW c \in IpClients, TakeFails(c)
      PROVE  IpInv'
  <2> DEFINE state == [at |-> "idle"]
  <2>1. state \in IpCalls /\ state.at # "record" /\ Calls(c, state)
      BY <1>6, CallStates, Zenon DEF TakeFails, Return
  <2>2. ipCall[c].at # "record" /\ UNCHANGED <<pool, holder, vmIps>>
      BY <1>6, Zenon DEF TakeFails
  <2> HIDE DEF state
  <2> QED
      BY <2>1, <2>2, CallAgrees
<1>7. ASSUME NEW c \in IpClients, NEW v \in IpVms, LockIndexes(c, v)
      PROVE  IpInv'
  <2> DEFINE state == [at |-> "release", vm |-> v]
  <2>1. state \in IpCalls /\ state.at # "record" /\ Calls(c, state)
      BY <1>7, CallStates DEF LockIndexes
  <2>2. ipCall[c].at # "record" /\ UNCHANGED <<pool, holder, vmIps>>
      BY <1>7 DEF LockIndexes
  <2> HIDE DEF state
  <2> QED
      BY <2>1, <2>2, CallAgrees
<1> QED
    BY <1>2, <1>3, <1>4, <1>5, <1>6, <1>7, TakeAgrees, RecordAgrees, ReleaseAgrees, Zenon DEF IpNext

\* However the calls interleave at the three locks of the IP pool manager, every
\* address that is out of its pool is held by exactly one VM, in both indexes, or
\* is about to be recorded.
THEOREM IpIndexesAlwaysAgree == IpSpec => []IpIndexesAgree
<1>1. IpInit => IpInv
    BY InitAgrees
<1>2. IpInv /\ [IpNext]_ipVars => IpInv'
    BY IpStepAgrees
<1>3. IpInv => IpIndexesAgree
    BY DEF IpInv
<1> QED
    BY <1>1, <1>2, <1>3, PTL DEF IpSpec

-----------------------------------------------------------------------------
(***************************************************************************)
(* The parts side by side.                                                  *)
(***************************************************************************)

\* A step of one part leaves the variables of the others alone, so the
\* invariants of the parts hold together.
LEMMA VmServicesInv ==
    /\ Init => VmInv /\ HealthInv /\ IpInv
    /\ (VmInv /\ HealthInv /\ IpInv) /\ [Next]_vars => (VmInv /\ HealthInv /\ IpInv)'
<1>1. Init => VmInv /\ HealthInv /\ IpInv
    BY VmInitInv, HealthInitInv, InitAgrees DEF Init
<1>2. ASSUME [Next]_vars
      PROVE  [VmNext]_vmVars /\ [HealthNext]_healthVars /\ [IpNext]_ipVars
    BY <1>2 DEF Next, VmPart, HealthPart, IpPart, vars
<1> QED
    BY <1>1, <1>2, VmStepInv, HealthStepInv, IpStepAgrees

\* The variables of the VM services keep their types.
THEOREM VmServicesTypes == Spec => []VmTypesOK
<1>1. VmInv /\ HealthInv /\ IpInv => VmTypesOK
    BY DEF VmInv, HealthInv, IpInv, VmTypesOK
<1> QED
    BY <1>1, VmServicesInv, PTL DEF Spec
=============================================================================
