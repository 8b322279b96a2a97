----------------------------- MODULE ResourcePool -----------------------------
(***************************************************************************)
(* patterns/resource_pool.rs: a pool shared by several users.  A permit of  *)
(* the semaphore stands for every resource out of the pool: it is forgotten *)
(* when the resource is handed out and added back by return_resource.       *)
(* Resources are told apart only by being valid or not.                     *)
(***************************************************************************)
EXTENDS Integers, FiniteSets

CONSTANTS
    PoolUsers,   \* tasks that use the pool
    MaxSize,     \* max_size
    MinSize,     \* min_size, created by initialize
    WordSize     \* 2^w of the usize counter

ASSUME PoolAssumption ==
    /\ IsFiniteSet(PoolUsers)
    /\ MaxSize \in Nat /\ MinSize \in 0..MaxSize /\ MaxSize < WordSize /\ WordSize \in Nat

VARIABLES
    available,   \* resources in the queue
    permits,     \* permits of the semaphore
    created,     \* total_created
    using,       \* using[u]: what u does with the pool
    taken,       \* resources that left through PooledResource::take (history)
    lostPermits  \* permits lost when return_resource panicked (history)

poolVars == <<available, permits, created, using, taken, lostPermits>>

PoolInit ==
    /\ available \in 0..MinSize   \* initialize: create may fail
    /\ created = available
    /\ permits = MaxSize
    /\ using = [u \in PoolUsers |-> "idle"]
    /\ taken = 0 /\ lostPermits = 0

Moves(u, to) == using' = [using EXCEPT ![u] = to]

\* acquire_with_timeout: the permit.
GetPermit(u) ==
    /\ using[u] = "idle" /\ permits > 0
    /\ permits' = permits - 1 /\ Moves(u, "permitted")
    /\ UNCHANGED <<available, created, taken, lostPermits>>

\* The front of the queue.
PopResource(u) ==
    /\ using[u] = "permitted" /\ available > 0
    /\ available' = available - 1 /\ Moves(u, "checking")
    /\ UNCHANGED <<permits, created, taken, lostPermits>>

\* The queue was empty: create, and count under a lock taken later.
StartCreate(u) ==
    /\ using[u] = "permitted" /\ available = 0
    /\ Moves(u, "creating")
    /\ UNCHANGED <<available, permits, created, taken, lostPermits>>

FinishCreate(u) ==
    /\ using[u] = "creating"
    /\ created' = (created + 1) % WordSize /\ Moves(u, "checking")
    /\ UNCHANGED <<available, permits, taken, lostPermits>>

\* Validation and reset succeed, or a replacement is created: handed out.
HandOut(u) ==
    /\ using[u] = "checking" /\ Moves(u, "holding")
    /\ UNCHANGED <<available, permits, created, taken, lostPermits>>

\* Mutant: the permit is forgotten before the resource is checked.
AcquireFailsForgotten(u) ==
    /\ using[u] \in {"creating", "checking"}
    /\ Moves(u, "idle")
    /\ UNCHANGED <<available, permits, created, taken, lostPermits>>

\* create, destroy or reset fails: `?` drops the resource and the permit.
AcquireFails(u) ==
    /\ using[u] \in {"creating", "checking"}
    /\ permits' = permits + 1 /\ Moves(u, "idle")
    /\ UNCHANGED <<available, created, taken, lostPermits>>

\* take: neither the resource nor its permit comes back.
Take(u) ==
    /\ using[u] = "holding" /\ Moves(u, "idle")
    /\ taken' = taken + 1
    /\ UNCHANGED <<available, permits, created, lostPermits>>

\* Drop spawns the task that runs return_resource.
PushBack(u) ==
    /\ using[u] = "holding"
    /\ available' = available + 1 /\ Moves(u, "pushed")
    /\ UNCHANGED <<permits, created, taken, lostPermits>>

\* The resource has become invalid.  total_created is decremented without a
\* check: at 0, after clear, a debug build panics and the permit is gone, a
\* release build wraps around.
DestroyReturned(u) ==
    /\ using[u] = "holding"
    /\ \/ /\ created' = (created - 1) % WordSize /\ Moves(u, "pushed")
          /\ UNCHANGED lostPermits
       \/ /\ created = 0
          /\ lostPermits' = lostPermits + 1 /\ Moves(u, "idle")
          /\ UNCHANGED created
    /\ UNCHANGED <<available, permits, taken>>

\* The last step of return_resource.
AddPermit(u) ==
    /\ using[u] = "pushed"
    /\ permits' = permits + 1 /\ Moves(u, "idle")
    /\ UNCHANGED <<available, created, taken, lostPermits>>

\* clear: drains the queue, and sets total_created to 0 whatever is out, unless
\* a destroy fails.
Clear ==
    /\ available' = 0
    /\ created' \in {0, created}
    /\ created' # 0 => available > 0
    /\ UNCHANGED <<permits, using, taken, lostPermits>>

PoolNext ==
    \/ Clear
    \/ \E u \in PoolUsers :
         GetPermit(u) \/ PopResource(u) \/ StartCreate(u) \/ FinishCreate(u) \/ HandOut(u)
         \/ AcquireFails(u) \/ Take(u) \/ PushBack(u) \/ DestroyReturned(u) \/ AddPermit(u)

PoolSpec == PoolInit /\ [][PoolNext]_poolVars

-----------------------------------------------------------------------------
PoolPlaces == {"idle", "permitted", "creating", "checking", "holding", "pushed"}

\* The variables have their types.
PoolTypeOK ==
    /\ available \in Nat /\ permits \in Nat /\ created \in 0..(WordSize - 1)
    /\ taken \in Nat /\ lostPermits \in Nat
    /\ using \in [PoolUsers -> PoolPlaces]

Busy == {u \in PoolUsers : using[u] # "idle"}

\* Every permit is free, with a user on its way through acquire or return, or
\* gone with a resource that was taken (or with a panic of return_resource): no
\* error path of acquire loses one or adds one.
PermitsAreConserved == permits + Cardinality(Busy) + taken + lostPermits = MaxSize

Holders == {u \in PoolUsers : using[u] \in {"checking", "holding"}}

\* There are never more than max_size resources in the queue and in use, though
\* resources are created outside any lock.
PoolWithinMaxSize == available + Cardinality(Holders) <= MaxSize
=============================================================================
