------------------------------ MODULE IpPools -------------------------------
(***************************************************************************)
(* ip_pool_manager.rs and ip_pool.rs: pools of addresses, each with a       *)
(* ResourcePool of which addresses are taken out, and the two indexes of    *)
(* the allocations.  The three maps have a lock each: allocate_ip takes the *)
(* pools before the indexes, release_vm_ips the indexes before the pools.   *)
(***************************************************************************)
EXTENDS Integers, FiniteSets

CONSTANTS
    Pools,        \* pool ids
    PoolRange,    \* PoolRange[p]: addresses from allocation_start to allocation_end
    Gateway,      \* Gateway[p]
    PoolHint,     \* PoolHint[p]: topology_hint
    IpClients,    \* tasks that call the manager
    IpVms         \* VMs that ask for addresses

ASSUME PoolsAssumption ==
    /\ "none" \notin IpVms
    /\ \A p \in Pools : PoolRange[p] \subseteq Nat /\ IsFiniteSet(PoolRange[p])
    /\ \A p, q \in Pools : p # q => PoolRange[p] \intersect PoolRange[q] = {}

VARIABLES
    pool,        \* the pools that exist, by id
    holder,      \* allocations: who has an address, "none" or a VM
    vmIps,       \* vm_allocations
    ipCall       \* ipCall[c]: where the call of c stands

ipVars == <<pool, holder, vmIps, ipCall>>

Ips == UNION {PoolRange[p] : p \in Pools}
PoolOf(ip) == CHOOSE p \in Pools : ip \in PoolRange[p]
NoPool == [exists |-> FALSE, enabled |-> FALSE, reserved |-> {}, atFactory |-> {},
           max |-> 0, made |-> 0, allocated |-> {}]

\* EnhancedIpPoolState::new and from_existing_state: the factory and the size of
\* the ResourcePool keep the configuration of this moment.
NewPool(p, reserved, allocatedIps) ==
    [exists |-> TRUE, enabled |-> TRUE, reserved |-> reserved, atFactory |-> reserved,
     max |-> Cardinality(PoolRange[p]) - Cardinality(reserved), made |-> 0,
     allocated |-> allocatedIps]

\* load_from_storage, with or without what an earlier run left.
IpInit ==
    /\ \E loaded \in SUBSET Pools, owner \in [Ips -> IpVms \union {"none"}], rs \in SUBSET Ips :
        /\ \A ip \in Ips : PoolOf(ip) \notin loaded => owner[ip] = "none" /\ ip \notin rs
        /\ pool = [p \in Pools |-> IF p \in loaded
              THEN NewPool(p, rs \intersect PoolRange[p], {ip \in PoolRange[p] : owner[ip] # "none"}) ELSE NoPool]
        /\ holder = owner
        /\ vmIps = [v \in IpVms |-> {ip \in Ips : owner[ip] = v}]
    /\ ipCall = [c \in IpClients |-> [at |-> "idle"]]

PoolsLocked == \E c \in IpClients : ipCall[c].at = "record"
IndexesLocked == \E c \in IpClients : ipCall[c].at = "release"
Calls(c, state) == ipCall' = [ipCall EXCEPT ![c] = state]
Return(c) == Calls(c, [at |-> "idle"])

-----------------------------------------------------------------------------
(* process_command: one write lock on the pools. *)
CreatePool(p, reserved) ==
    /\ ~PoolsLocked /\ ~pool[p].exists
    /\ pool' = [pool EXCEPT ![p] = NewPool(p, reserved, {})]
    /\ UNCHANGED <<holder, vmIps, ipCall>>

\* update_pool changes the configuration of the pool, not that of its factory.
UpdatePool(p, reserved, enabled) ==
    /\ ~PoolsLocked /\ pool[p].exists
    /\ pool' = [pool EXCEPT ![p].reserved = reserved, ![p].enabled = enabled]
    /\ UNCHANGED <<holder, vmIps, ipCall>>

\* Mutant: a pool with allocations is deleted.
DeletePoolAny(p) ==
    /\ ~PoolsLocked /\ pool[p].exists
    /\ pool' = [pool EXCEPT ![p] = NoPool]
    /\ UNCHANGED <<holder, vmIps, ipCall>>

DeletePool(p) ==
    /\ ~PoolsLocked /\ pool[p].exists /\ pool[p].allocated = {}
    /\ pool' = [pool EXCEPT ![p] = NoPool]
    /\ UNCHANGED <<holder, vmIps, ipCall>>

SetPoolEnabled(p, enabled) ==
    /\ ~PoolsLocked /\ pool[p].exists /\ pool[p].enabled # enabled
    /\ pool' = [pool EXCEPT ![p].enabled = enabled]
    /\ UNCHANGED <<holder, vmIps, ipCall>>

ReserveIps(p, ips) ==
    /\ ~PoolsLocked /\ pool[p].exists /\ ips \intersect pool[p].allocated = {}
    /\ pool' = [pool EXCEPT ![p].reserved = @ \union ips]
    /\ UNCHANGED <<holder, vmIps, ipCall>>

ReleaseReservedIps(p, ips) ==
    /\ ~PoolsLocked /\ pool[p].exists /\ ips \intersect pool[p].reserved # {}
    /\ pool' = [pool EXCEPT ![p].reserved = @ \ ips]
    /\ UNCHANGED <<holder, vmIps, ipCall>>

-----------------------------------------------------------------------------
(* allocate_ip. *)

\* A resource that is taken out stays counted as in use.
HasCapacity(p) == pool[p].enabled /\ pool[p].made < pool[p].max

Eligible(hint) == {p \in Pools : pool[p].exists /\ HasCapacity(p)
                                 /\ (hint = "none" \/ PoolHint[p] \in {"none", hint})}
\* utilization_percent of p is at most that of q.
LessUtilized(p, q) == pool[p].made * pool[q].max <= pool[q].made * pool[p].max

\* select_pool: by utilization, by hint, or any (round robin and random).  The
\* preferred pool of a request is any pool with capacity too.
SelectPool(strategy, hint) ==
    LET ps == Eligible(hint)
        least == {p \in ps : \A q \in ps : LessUtilized(p, q)} IN
    CASE strategy = "LeastUtilized" -> least
      [] strategy = "MostUtilized" -> {p \in ps : \A q \in ps : LessUtilized(q, p)}
      [] strategy = "TopologyAware" ->
           IF \E p \in ps : hint # "none" /\ PoolHint[p] = hint
           THEN {p \in ps : PoolHint[p] = hint} ELSE least
      [] strategy = "Any" -> ps

\* The pool is chosen under the read lock, which is then dropped.
Select(c, v, strategy, hint) ==
    /\ ipCall[c].at = "idle" /\ ~PoolsLocked
    /\ \E p \in SelectPool(strategy, hint) :
          Calls(c, [at |-> "selected", vm |-> v, pool |-> p])
    /\ UNCHANGED <<pool, holder, vmIps>>

\* find_next_available_ip of the factory, with the configuration it was made with:
\* the lowest free address.
FreeAtFactory(p) ==
    PoolRange[p] \ (pool[p].allocated \union pool[p].atFactory \union {Gateway[p]})

NextFree(p) == {ip \in FreeAtFactory(p) : \A o \in FreeAtFactory(p) : ip <= o}

\* EnhancedIpPoolState::allocate_ip under the write lock; the lock is kept while
\* the call waits for the indexes.
TakeFromPool(c) ==
    LET p == ipCall[c].pool IN
    /\ ipCall[c].at = "selected" /\ ~PoolsLocked
    /\ pool[p].exists /\ pool[p].made < pool[p].max
    /\ \E ip \in NextFree(p) :
          /\ pool' = [pool EXCEPT ![p].allocated = @ \union {ip}, ![p].made = @ + 1]
          /\ Calls(c, [at |-> "record", vm |-> ipCall[c].vm, ip |-> ip])
    /\ UNCHANGED <<holder, vmIps>>

\* The pool is gone, has no permit left within the timeout, or no address.
TakeFails(c) ==
    LET p == ipCall[c].pool IN
    /\ ipCall[c].at = "selected" /\ ~PoolsLocked
    /\ ~pool[p].exists \/ pool[p].made >= pool[p].max \/ FreeAtFactory(p) = {}
    /\ Return(c)
    /\ UNCHANGED <<pool, holder, vmIps>>

Record(c) ==
    /\ ipCall[c].at = "record" /\ ~IndexesLocked
    /\ holder' = [holder EXCEPT ![ipCall[c].ip] = ipCall[c].vm]
    /\ vmIps' = [vmIps EXCEPT ![ipCall[c].vm] = @ \union {ipCall[c].ip}]
    /\ Return(c)
    /\ UNCHANGED pool

-----------------------------------------------------------------------------
(* release_vm_ips: the indexes first ... *)
LockIndexes(c, v) ==
    /\ ipCall[c].at = "idle" /\ ~IndexesLocked
    /\ Calls(c, [at |-> "release", vm |-> v])
    /\ UNCHANGED <<pool, holder, vmIps>>

\* ... then the pools.  The permit of the ResourcePool does not come back.
ReleaseVmIps(c) ==
    LET v == ipCall[c].vm IN
    /\ ipCall[c].at = "release" /\ ~PoolsLocked
    /\ holder' = [ip \in Ips |-> IF ip \in vmIps[v] THEN "none" ELSE holder[ip]]
    /\ pool' = [p \in Pools |-> [pool[p] EXCEPT !.allocated = @ \ vmIps[v]]]
    /\ vmIps' = [vmIps EXCEPT ![v] = {}]
    /\ Return(c)

-----------------------------------------------------------------------------
IpStrategies == {"LeastUtilized", "MostUtilized", "TopologyAware", "Any"}
IpHints == {"none", "zone"}

IpNext ==
    \/ \E p \in Pools : \E ips \in SUBSET PoolRange[p] :
          \/ CreatePool(p, ips) \/ ReserveIps(p, ips) \/ ReleaseReservedIps(p, ips)
          \/ \E enabled \in BOOLEAN : UpdatePool(p, ips, enabled)
    \/ \E p \in Pools : DeletePool(p) \/ \E enabled \in BOOLEAN : SetPoolEnabled(p, enabled)
    \/ \E c \in IpClients :
          \/ \E v \in IpVms, s \in IpStrategies, hint \in IpHints : Select(c, v, s, hint)
          \/ TakeFromPool(c) \/ TakeFails(c) \/ Record(c)
          \/ (\E v \in IpVms : LockIndexes(c, v)) \/ ReleaseVmIps(c)

IpSpec == IpInit /\ [][IpNext]_ipVars

-----------------------------------------------------------------------------
(* Properties. *)

PoolRecords ==
    [exists : BOOLEAN, enabled : BOOLEAN, reserved : SUBSET Ips, atFactory : SUBSET Ips,
     max : Nat, made : Nat, allocated : SUBSET Ips]

IpCalls ==
    [at : {"idle"}] \union [at : {"selected"}, vm : IpVms, pool : Pools]
    \union [at : {"record"}, vm : IpVms, ip : Ips] \union [at : {"release"}, vm : IpVms]

\* The variables have their types.
IpTypeOK ==
    /\ pool \in [Pools -> PoolRecords]
    /\ holder \in [Ips -> IpVms \union {"none"}]
    /\ vmIps \in [IpVms -> SUBSET Ips]
    /\ ipCall \in [IpClients -> IpCalls]

Recording(ip) == \E c \in IpClients : ipCall[c].at = "record" /\ ipCall[c].ip = ip

\* The pools, the index by address and the index by VM tell the same story but
\* for the address a call is about to record: no interleaving of the three locks
\* loses an address or gives it to two VMs.
IpIndexesAgree ==
    \A ip \in Ips :
        /\ ip \in pool[PoolOf(ip)].allocated <=> holder[ip] # "none" \/ Recording(ip)
        /\ Recording(ip) => holder[ip] = "none"
        /\ \A v \in IpVms : ip \in vmIps[v] <=> holder[ip] = v
=============================================================================
