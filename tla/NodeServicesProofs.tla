------------------------- MODULE NodeServicesProofs -------------------------
(***************************************************************************)
(* The parts of a node that run beside its Raft log, for any peers, callers *)
(* and limits.                                                              *)
(***************************************************************************)
EXTENDS MCNodeServices, RaftOutboxProofs, FiniteSetTheorems, TLAPS

-----------------------------------------------------------------------------
(***************************************************************************)
(* NodeSupervisor: the recovery loop of the Raft task makes max_restarts    *)
(* attempts, no more, and gives up only after the last of them.             *)
(***************************************************************************)

\* restart_count counts failures of managers and of attempts alike.  It is one
\* ahead of the attempts from a failure to the next attempt, and level with them
\* while a manager runs; the two cannot be compared once the task is over.
RestartsInv ==
    /\ SupervisorTypeOK
    /\ attempts <= MaxRestarts
    /\ stage \in {"storage", "raft", "transport", "spawn"} => task = "none"
    /\ task \in {"none", "running"} => restarts = attempts
    /\ task \in {"deciding", "sleeping"} => restarts = attempts + 1
    /\ task = "sleeping" => restarts <= MaxRestarts
    /\ task = "gaveUp" => attempts = MaxRestarts

\* A node that has not been started satisfies the invariant.
LEMMA RestartsInit == SupervisorInit => RestartsInv
<1> SUFFICES ASSUME SupervisorInit PROVE RestartsInv
    OBVIOUS
<1> USE DEF SupervisorInit
<1>1. Unsent \in [state : {"idle", "waiting", "ok", "error"}, via : Nat]
    BY DEF Unsent
<1>2. SupervisorTypeOK
    BY <1>1 DEF SupervisorTypeOK, StageNames, TaskStates
<1> QED
    BY <1>2, RestartsAssumption DEF RestartsInv

\* Every step of initialization, of the recovery loop, of stop and of the
\* requests preserves the invariant.
LEMMA RestartsStep == RestartsInv /\ [SupervisorNext]_supervisorVars => RestartsInv'
<1> SUFFICES ASSUME RestartsInv, [SupervisorNext]_supervisorVars PROVE RestartsInv'
    OBVIOUS
<1> USE RestartsAssumption
    DEF RestartsInv, SupervisorTypeOK, StageNames, TaskStates, Channels
<1>1. CASE SetupStorage
    BY <1>1 DEF SetupStorage
<1>2. CASE InitializeRaft
    BY <1>2 DEF InitializeRaft
<1>3. CASE SetupTransport
    BY <1>3 DEF SetupTransport
<1>4. CASE SpawnRaftManager
    BY <1>4 DEF SpawnRaftManager
<1>5. CASE StartServices
    BY <1>5 DEF StartServices
<1>6. CASE FinishInitialization
    BY <1>6 DEF FinishInitialization
<1>7. CASE InitializationFails
    BY <1>7 DEF InitializationFails
<1>8. CASE ManagerFails
    BY <1>8 DEF ManagerFails
<1>9. CASE ManagerPanics
    BY <1>9 DEF ManagerPanics
<1>10. CASE Decide
    BY <1>10 DEF Decide, MayRestart
<1>11. CASE Recreate
    BY <1>11 DEF Recreate
<1>12. CASE RecreateFails
    BY <1>12 DEF RecreateFails
<1>13. CASE Stop
    BY <1>13 DEF Stop, Alive
<1>14. ASSUME NEW c \in Callers, SendRequest(c) PROVE RestartsInv'
    BY <1>14 DEF SendRequest
<1>15. ASSUME NEW c \in Callers, Answer(c) PROVE RestartsInv'
    <2>1. request[c] \in [state : {"idle", "waiting", "ok", "error"}, via : Nat]
        OBVIOUS
    <2>2. [request[c] EXCEPT !.state = "ok"]
             \in [state : {"idle", "waiting", "ok", "error"}, via : Nat]
        BY <2>1
    <2> QED
        BY <1>15, <2>2 DEF Answer
<1>16. ASSUME NEW c \in Callers, AnswerLost(c) PROVE RestartsInv'
    <2>1. request[c] \in [state : {"idle", "waiting", "ok", "error"}, via : Nat]
        OBVIOUS
    <2>2. [request[c] EXCEPT !.state = "error"]
             \in [state : {"idle", "waiting", "ok", "error"}, via : Nat]
        BY <2>1
    <2> QED
        BY <1>16, <2>2 DEF AnswerLost
<1>17. CASE UNCHANGED supervisorVars
    BY <1>17 DEF supervisorVars
<1> QED
    BY <1>1, <1>2, <1>3, <1>4, <1>5, <1>6, <1>7, <1>8, <1>9, <1>10, <1>11, <1>12, <1>13,
       <1>14, <1>15, <1>16, <1>17, Zenon DEF SupervisorNext

\* spawn_raft_manager_with_recovery makes at most max_restarts attempts, whether
\* they fail in recreate_raft_manager or later in the manager they made, and gives
\* up after exactly that many.
THEOREM RestartsAreLimited == SupervisorSpec => []GivesUpAfterMaxRestarts
<1>1. RestartsInv => GivesUpAfterMaxRestarts
    BY DEF RestartsInv, GivesUpAfterMaxRestarts
<1> QED
    BY RestartsInit, RestartsStep, <1>1, PTL DEF SupervisorSpec

-----------------------------------------------------------------------------
(***************************************************************************)
(* ResourcePool: permits are neither lost nor added, and there are never    *)
(* more than max_size resources.                                            *)
(***************************************************************************)

\* Users that have a resource or are about to: a call that creates one counts
\* from the moment it found the queue empty.
HasOne == {"creating", "checking", "holding"}
Resourced == {u \in PoolUsers : using[u] \in HasOne}

\* The limit is inductive only for Resourced in place of Holders: a resource may
\* come back to the queue while another one is being created.
PoolInv ==
    /\ PoolTypeOK
    /\ PermitsAreConserved
    /\ available + Cardinality(Resourced) <= MaxSize

\* Busy and Resourced are finite, and Resourced is part of Busy.
LEMMA UserSets ==
    ASSUME PoolTypeOK
    PROVE  /\ IsFiniteSet(Busy) /\ IsFiniteSet(Resourced)
           /\ Cardinality(Busy) \in Nat /\ Cardinality(Resourced) \in Nat
           /\ Cardinality(Resourced) <= Cardinality(Busy)
<1>1. Resourced \subseteq Busy /\ Busy \subseteq PoolUsers
    BY DEF Resourced, HasOne, Busy
<1>2. IsFiniteSet(Busy) /\ IsFiniteSet(Resourced)
    BY <1>1, PoolAssumption, FS_Subset
<1> QED
    BY <1>1, <1>2, FS_Subset, FS_CardinalityType

\* How the two counts change when one user moves from one place to another.
LEMMA UserMoves ==
    ASSUME PoolTypeOK, NEW u \in PoolUsers,
           NEW to \in PoolPlaces,
           Moves(u, to)
    PROVE  /\ using' \in [PoolUsers -> PoolPlaces]
           /\ Cardinality(Busy') = Cardinality(Busy)
                 + (IF using[u] = "idle" /\ to # "idle" THEN 1
                    ELSE IF using[u] # "idle" /\ to = "idle" THEN -1 ELSE 0)
           /\ Cardinality(Resourced') = Cardinality(Resourced)
                 + (IF using[u] \notin HasOne /\ to \in HasOne THEN 1
                    ELSE IF using[u] \in HasOne /\ to \notin HasOne THEN -1 ELSE 0)
<1>1. /\ using' \in [PoolUsers -> PoolPlaces]
      /\ using'[u] = to /\ \A v \in PoolUsers \ {u} : using'[v] = using[v]
    BY DEF Moves, PoolTypeOK, PoolPlaces
<1>2. IsFiniteSet(Busy) /\ IsFiniteSet(Resourced)
      /\ Cardinality(Busy) \in Nat /\ Cardinality(Resourced) \in Nat
    BY UserSets
<1>3. Busy' = IF to = "idle" THEN Busy \ {u} ELSE Busy \cup {u}
    BY <1>1 DEF Busy
<1>4. Resourced' = IF to \in HasOne THEN Resourced \cup {u} ELSE Resourced \ {u}
    BY <1>1 DEF Resourced
<1>5. u \in Busy <=> using[u] # "idle"
    BY DEF Busy
<1>6. /\ Cardinality(Busy \cup {u}) = IF u \in Busy THEN Cardinality(Busy) ELSE Cardinality(Busy) + 1
      /\ Cardinality(Busy \ {u}) = IF u \in Busy THEN Cardinality(Busy) - 1 ELSE Cardinality(Busy)
    BY <1>2, FS_AddElement, FS_RemoveElement, Zenon
<1>7. /\ Cardinality(Resourced \cup {u}) =
            IF u \in Resourced THEN Cardinality(Resourced) ELSE Cardinality(Resourced) + 1
      /\ Cardinality(Resourced \ {u}) =
            IF u \in Resourced THEN Cardinality(Resourced) - 1 ELSE Cardinality(Resourced)
    BY <1>2, FS_AddElement, FS_RemoveElement
<1>8. Cardinality(Busy') = Cardinality(Busy)
         + (IF using[u] = "idle" /\ to # "idle" THEN 1
            ELSE IF using[u] # "idle" /\ to = "idle" THEN -1 ELSE 0)
    BY <1>2, <1>3, <1>5, <1>6
<1>9. Cardinality(Resourced') = Cardinality(Resourced)
         + (IF using[u] \notin HasOne /\ to \in HasOne THEN 1
            ELSE IF using[u] \in HasOne /\ to \notin HasOne THEN -1 ELSE 0)
    <2>1. u \in Resourced <=> using[u] \in HasOne
        BY DEF Resourced
    <2> QED
        BY <1>2, <1>4, <1>7, <2>1
<1> QED
    BY <1>1, <1>8, <1>9

\* The initial states have the invariant.
LEMMA PoolInitInv == PoolInit => PoolInv
<1> SUFFICES ASSUME PoolInit PROVE PoolInv
    OBVIOUS
<1>1. Busy = {} /\ Resourced = {}
    BY DEF PoolInit, Busy, Resourced, HasOne
<1>2. PoolTypeOK
    BY PoolAssumption DEF PoolInit, PoolTypeOK, PoolPlaces
<1>3. PermitsAreConserved /\ available + Cardinality(Resourced) <= MaxSize
    BY <1>1, FS_EmptySet, PoolAssumption DEF PoolInit, PermitsAreConserved
<1> QED
    BY <1>2, <1>3 DEF PoolInv

\* Every step keeps the invariant.
LEMMA PoolStepInv == PoolInv /\ [PoolNext]_poolVars => PoolInv'
<1> SUFFICES ASSUME PoolInv, [PoolNext]_poolVars PROVE PoolInv'
    OBVIOUS
<1> USE DEF PoolInv
<1>0. /\ Cardinality(Busy) \in Nat /\ Cardinality(Resourced) \in Nat
      /\ Cardinality(Resourced) <= Cardinality(Busy)
      /\ MaxSize \in Nat /\ WordSize \in Nat /\ 0 < WordSize
    BY UserSets, PoolAssumption
<1>1. CASE UNCHANGED poolVars
    <2>1. Busy' = Busy /\ Resourced' = Resourced
        BY <1>1 DEF poolVars, Busy, Resourced
    <2> QED
        BY <1>1, <2>1 DEF poolVars, PoolTypeOK, PermitsAreConserved
<1>2. CASE Clear
    <2>1. Busy' = Busy /\ Resourced' = Resourced
        BY <1>2 DEF Clear, Busy, Resourced
    <2> QED
        BY <1>0, <1>2, <2>1 DEF Clear, PoolTypeOK, PermitsAreConserved
<1>3. ASSUME NEW u \in PoolUsers, GetPermit(u) PROVE PoolInv'
    <2>1. /\ Cardinality(Busy') = Cardinality(Busy) + 1
          /\ Cardinality(Resourced') = Cardinality(Resourced)
          /\ using' \in [PoolUsers -> PoolPlaces]
        BY <1>0, <1>3, UserMoves DEF GetPermit, PoolPlaces, HasOne
    <2> QED
        BY <1>0, <1>3, <2>1 DEF GetPermit, PoolTypeOK, PermitsAreConserved
<1>4. ASSUME NEW u \in PoolUsers, PopResource(u) PROVE PoolInv'
    <2>1. /\ Cardinality(Busy') = Cardinality(Busy)
          /\ Cardinality(Resourced') = Cardinality(Resourced) + 1
          /\ using' \in [PoolUsers -> PoolPlaces]
        BY <1>0, <1>4, UserMoves DEF PopResource, PoolPlaces, HasOne
    <2> QED
        BY <1>0, <1>4, <2>1 DEF PopResource, PoolTypeOK, PermitsAreConserved
<1>5. ASSUME NEW u \in PoolUsers, StartCreate(u) PROVE PoolInv'
    <2>1. /\ Cardinality(Busy') = Cardinality(Busy)
          /\ using' \in [PoolUsers -> PoolPlaces]
        BY <1>0, <1>5, UserMoves DEF StartCreate, PoolPlaces
    <2>2. PoolTypeOK' /\ PermitsAreConserved'
        BY <1>5, <2>1 DEF StartCreate, PoolTypeOK, PermitsAreConserved
    <2>3. Resourced' \subseteq Busy' /\ Busy' \subseteq PoolUsers
        BY DEF Resourced, HasOne, Busy
    <2>4. /\ Cardinality(Resourced') <= Cardinality(Busy')
          /\ Cardinality(Resourced') \in Nat
        <3>1. IsFiniteSet(Busy')
            BY <2>3, PoolAssumption, FS_Subset
        <3>2. IsFiniteSet(Resourced') /\ Cardinality(Resourced') <= Cardinality(Busy')
            BY <2>3, <3>1, FS_Subset
        <3> QED
            BY <3>2, FS_CardinalityType
    <2>5. available' = 0 /\ Cardinality(Busy) <= MaxSize
        BY <1>0, <1>5 DEF StartCreate, PoolTypeOK, PermitsAreConserved
    <2> QED
        BY <1>0, <2>1, <2>2, <2>4, <2>5
<1>6. ASSUME NEW u \in PoolUsers, FinishCreate(u) PROVE PoolInv'
    <2>1. /\ Cardinality(Busy') = Cardinality(Busy)
          /\ Cardinality(Resourced') = Cardinality(Resourced)
          /\ using' \in [PoolUsers -> PoolPlaces]
        BY <1>0, <1>6, UserMoves DEF FinishCreate, PoolPlaces, HasOne
    <2>2. (created + 1) % WordSize \in 0..(WordSize - 1)
        BY <1>0 DEF PoolTypeOK
    <2> QED
        BY <1>0, <1>6, <2>1, <2>2 DEF FinishCreate, PoolTypeOK, PermitsAreConserved
<1>7. ASSUME NEW u \in PoolUsers, HandOut(u) PROVE PoolInv'
    <2>1. /\ Cardinality(Busy') = Cardinality(Busy)
          /\ Cardinality(Resourced') = Cardinality(Resourced)
          /\ using' \in [PoolUsers -> PoolPlaces]
        BY <1>0, <1>7, UserMoves DEF HandOut, PoolPlaces, HasOne
    <2> QED
        BY <1>0, <1>7, <2>1 DEF HandOut, PoolTypeOK, PermitsAreConserved
<1>8. ASSUME NEW u \in PoolUsers, AcquireFails(u) PROVE PoolInv'
    <2>1. /\ Cardinality(Busy') = Cardinality(Busy) - 1
          /\ Cardinality(Resourced') = Cardinality(Resourced) - 1
          /\ using' \in [PoolUsers -> PoolPlaces]
        BY <1>0, <1>8, UserMoves DEF AcquireFails, PoolPlaces, HasOne
    <2> QED
        BY <1>0, <1>8, <2>1 DEF AcquireFails, PoolTypeOK, PermitsAreConserved
<1>9. ASSUME NEW u \in PoolUsers, Take(u) PROVE PoolInv'
    <2>1. /\ Cardinality(Busy') = Cardinality(Busy) - 1
          /\ Cardinality(Resourced') = Cardinality(Resourced) - 1
          /\ using' \in [PoolUsers -> PoolPlaces]
        BY <1>0, <1>9, UserMoves DEF Take, PoolPlaces, HasOne
    <2> QED
        BY <1>0, <1>9, <2>1 DEF Take, PoolTypeOK, PermitsAreConserved
<1>10. ASSUME NEW u \in PoolUsers, PushBack(u) PROVE PoolInv'
    <2>1. /\ Cardinality(Busy') = Cardinality(Busy)
          /\ Cardinality(Resourced') = Cardinality(Resourced) - 1
          /\ using' \in [PoolUsers -> PoolPlaces]
        BY <1>0, <1>10, UserMoves DEF PushBack, PoolPlaces, HasOne
    <2> QED
        BY <1>0, <1>10, <2>1 DEF PushBack, PoolTypeOK, PermitsAreConserved
<1>11. ASSUME NEW u \in PoolUsers, DestroyReturned(u) PROVE PoolInv'
    <2>0. (created - 1) % WordSize \in 0..(WordSize - 1)
        BY <1>0 DEF PoolTypeOK
    <2>1. CASE Moves(u, "pushed") /\ created' = (created - 1) % WordSize /\ UNCHANGED lostPermits
        <3>1. /\ Cardinality(Busy') = Cardinality(Busy)
              /\ Cardinality(Resourced') = Cardinality(Resourced) - 1
              /\ using' \in [PoolUsers -> PoolPlaces]
            BY <1>0, <1>11, <2>1, UserMoves DEF DestroyReturned, PoolPlaces, HasOne
        <3> QED
            BY <1>0, <1>11, <2>0, <2>1, <3>1 DEF DestroyReturned, PoolTypeOK, PermitsAreConserved
    <2>2. CASE Moves(u, "idle") /\ lostPermits' = lostPermits + 1 /\ UNCHANGED created
        <3>1. /\ Cardinality(Busy') = Cardinality(Busy) - 1
              /\ Cardinality(Resourced') = Cardinality(Resourced) - 1
              /\ using' \in [PoolUsers -> PoolPlaces]
            BY <1>0, <1>11, <2>2, UserMoves DEF DestroyReturned, PoolPlaces, HasOne
        <3> QED
            BY <1>0, <1>11, <2>2, <3>1 DEF DestroyReturned, PoolTypeOK, PermitsAreConserved
    <2> QED
        BY <1>11, <2>1, <2>2 DEF DestroyReturned
<1>12. ASSUME NEW u \in PoolUsers, AddPermit(u) PROVE PoolInv'
    <2>1. /\ Cardinality(Busy') = Cardinality(Busy) - 1
          /\ Cardinality(Resourced') = Cardinality(Resourced)
          /\ using' \in [PoolUsers -> PoolPlaces]
        BY <1>0, <1>12, UserMoves DEF AddPermit, PoolPlaces, HasOne
    <2> QED
        BY <1>0, <1>12, <2>1 DEF AddPermit, PoolTypeOK, PermitsAreConserved
<1> QED
    BY <1>1, <1>2, <1>3, <1>4, <1>5, <1>6, <1>7, <1>8, <1>9, <1>10, <1>11, <1>12 DEF PoolNext

\* acquire and return_resource lose no permit of the semaphore and add none, for
\* any number of users.
THEOREM PermitsConserved == PoolSpec => []PermitsAreConserved
<1>1. PoolInv => PermitsAreConserved
    BY DEF PoolInv
<1> QED
    BY <1>1, PoolInitInv, PoolStepInv, PTL DEF PoolSpec

\* There are never more than max_size resources, though acquire creates them
\* outside any lock.
THEOREM PoolIsBounded == PoolSpec => []PoolWithinMaxSize
<1>1. PoolInv => PoolWithinMaxSize
    <2> SUFFICES ASSUME PoolInv PROVE PoolWithinMaxSize
        OBVIOUS
    <2>1. Holders \subseteq Resourced
        BY DEF Holders, Resourced, HasOne
    <2>2. IsFiniteSet(Resourced) /\ Cardinality(Resourced) \in Nat
        BY UserSets DEF PoolInv
    <2>3. Cardinality(Holders) \in Nat /\ Cardinality(Holders) <= Cardinality(Resourced)
        BY <2>1, <2>2, FS_Subset, FS_CardinalityType
    <2> QED
        BY <2>2, <2>3, PoolAssumption DEF PoolInv, PoolTypeOK, PoolWithinMaxSize
<1> QED
    BY <1>1, PoolInitInv, PoolStepInv, PTL DEF PoolSpec

-----------------------------------------------------------------------------
(***************************************************************************)
(* PeerConnector: connection_count never falls behind the connections, and  *)
(* the connecting mark of a peer belongs to exactly one call.               *)
(***************************************************************************)

ConnectorInv == ConnectorTypeOK /\ CountCoversConnections /\ MarkHasOneOwner

Records == [at : Places, to : ConnPeers \cup {NoPeer}]

\* The sets that CountCoversConnections counts are finite.
LEMMA CountedSets ==
    ASSUME ConnectorTypeOK
    PROVE  /\ IsFiniteSet(connected) /\ IsFiniteSet(Uncounted) /\ IsFiniteSet(Undiscounted)
           /\ Cardinality(connected) \in Nat /\ Cardinality(Uncounted) \in Nat
           /\ Cardinality(Undiscounted) \in Nat
<1>1. /\ connected \subseteq ConnPeers /\ Uncounted \subseteq ConnCallers
      /\ Undiscounted \subseteq ConnCallers
    BY DEF ConnectorTypeOK, Uncounted, Undiscounted
<1>2. IsFiniteSet(connected) /\ IsFiniteSet(Uncounted) /\ IsFiniteSet(Undiscounted)
    BY <1>1, ConnectorAssumption, FS_Subset
<1> QED
    BY <1>2, FS_CardinalityType

\* The caller c is given the record r.
Becomes(c, r) == caller' = [caller EXCEPT ![c] = r]

\* How the counts change when one caller moves on.
LEMMA CallerMoves ==
    ASSUME ConnectorTypeOK, NEW c \in ConnCallers, NEW r \in Records,
           Becomes(c, r)
    PROVE  /\ caller' \in [ConnCallers -> Records]
           /\ caller'[c] = r /\ \A d \in ConnCallers \ {c} : caller'[d] = caller[d]
           /\ Cardinality(Uncounted') = Cardinality(Uncounted)
                 + (IF caller[c].at \in {"count", "countById"}
                    THEN (IF r.at \in {"count", "countById"} THEN 0 ELSE -1)
                    ELSE (IF r.at \in {"count", "countById"} THEN 1 ELSE 0))
           /\ Cardinality(Undiscounted') = Cardinality(Undiscounted)
                 + (IF caller[c].at = "uncount"
                    THEN (IF r.at = "uncount" THEN 0 ELSE -1)
                    ELSE (IF r.at = "uncount" THEN 1 ELSE 0))
<1>1. /\ caller' \in [ConnCallers -> Records]
      /\ caller'[c] = r /\ \A d \in ConnCallers \ {c} : caller'[d] = caller[d]
    BY DEF Becomes, ConnectorTypeOK, Records
<1>2. /\ IsFiniteSet(Uncounted) /\ IsFiniteSet(Undiscounted)
      /\ Cardinality(Uncounted) \in Nat /\ Cardinality(Undiscounted) \in Nat
    BY CountedSets
<1>3. Uncounted' = IF r.at \in {"count", "countById"} THEN Uncounted \cup {c} ELSE Uncounted \ {c}
    BY <1>1 DEF Uncounted
<1>4. Undiscounted' = IF r.at = "uncount" THEN Undiscounted \cup {c} ELSE Undiscounted \ {c}
    BY <1>1 DEF Undiscounted
<1>5. /\ Cardinality(Uncounted \cup {c}) =
            IF c \in Uncounted THEN Cardinality(Uncounted) ELSE Cardinality(Uncounted) + 1
      /\ Cardinality(Uncounted \ {c}) =
            IF c \in Uncounted THEN Cardinality(Uncounted) - 1 ELSE Cardinality(Uncounted)
    BY <1>2, FS_AddElement, FS_RemoveElement
<1>6. /\ Cardinality(Undiscounted \cup {c}) =
            IF c \in Undiscounted THEN Cardinality(Undiscounted) ELSE Cardinality(Undiscounted) + 1
      /\ Cardinality(Undiscounted \ {c}) =
            IF c \in Undiscounted THEN Cardinality(Undiscounted) - 1 ELSE Cardinality(Undiscounted)
    BY <1>2, FS_AddElement, FS_RemoveElement
<1>7. /\ c \in Uncounted <=> caller[c].at \in {"count", "countById"}
      /\ c \in Undiscounted <=> caller[c].at = "uncount"
    BY DEF Uncounted, Undiscounted
<1>8. Cardinality(Uncounted') = Cardinality(Uncounted)
         + (IF caller[c].at \in {"count", "countById"}
            THEN (IF r.at \in {"count", "countById"} THEN 0 ELSE -1)
            ELSE (IF r.at \in {"count", "countById"} THEN 1 ELSE 0))
    BY <1>2, <1>3, <1>5, <1>7
<1>9. Cardinality(Undiscounted') = Cardinality(Undiscounted)
         + (IF caller[c].at = "uncount"
            THEN (IF r.at = "uncount" THEN 0 ELSE -1)
            ELSE (IF r.at = "uncount" THEN 1 ELSE 0))
    BY <1>2, <1>4, <1>6, <1>7
<1> QED
    BY <1>1, <1>8, <1>9

\* The initial states have the invariant.
LEMMA ConnectorInitInv == ConnectorInit => ConnectorInv
<1> SUFFICES ASSUME ConnectorInit PROVE ConnectorInv
    OBVIOUS
<1>1. AtRest \in Records /\ AtRest.at = "idle"
    BY DEF AtRest, Records, Places
<1>2. ConnectorTypeOK
    <2>1. /\ caller \in [ConnCallers -> Records]
          /\ \A c \in ConnCallers : caller[c].at = "idle"
        BY <1>1 DEF ConnectorInit
    <2>2. queued \in [ConnPeers -> 0..QueueLimit]
        BY ConnectorAssumption DEF ConnectorInit
    <2> QED
        BY <2>1, <2>2 DEF ConnectorInit, ConnectorTypeOK, Records
<1>3. Uncounted = {} /\ Undiscounted = {} /\ connected = {}
    BY <1>1 DEF ConnectorInit, Uncounted, Undiscounted
<1>4. CountCoversConnections
    BY <1>3, FS_EmptySet DEF ConnectorInit, CountCoversConnections
<1>5. MarkHasOneOwner
    BY <1>1 DEF ConnectorInit, MarkHasOneOwner, MarkOwner
<1> QED
    BY <1>2, <1>4, <1>5 DEF ConnectorInv

\* Every step keeps the types.
LEMMA ConnectorTypeStep == ConnectorTypeOK /\ [ConnectorNext]_connectorVars => ConnectorTypeOK'
<1> SUFFICES ASSUME ConnectorTypeOK, [ConnectorNext]_connectorVars PROVE ConnectorTypeOK'
    OBVIOUS
<1> USE ConnectorAssumption
<1>1. ASSUME NEW c \in ConnCallers, NEW p \in ConnPeers,
             StartConnect(c, p) \/ StartConnectById(c, p) \/ Disconnect(c, p)
      PROVE  ConnectorTypeOK'
    <2>1. PICK at \in Places : Goes(c, at, p)
        BY <1>1 DEF StartConnect, StartConnectById, Disconnect, Places
    <2>2. [at |-> at, to |-> p] \in Records
        BY DEF Records
    <2>3. /\ caller' \in [ConnCallers -> Records]
          /\ \A d \in ConnCallers : caller'[d].at # "idle" => caller'[d].to \in ConnPeers
        BY <2>1, <2>2 DEF Goes, ConnectorTypeOK, Records
    <2> QED
        BY <1>1, <2>3 DEF StartConnect, StartConnectById, Disconnect, ConnectorTypeOK, Records
<1>2. ASSUME NEW c \in ConnCallers,
             MarkConnecting(c) \/ Dialled(c) \/ DialFails(c) \/ DialByIdFails(c)
             \/ Count(c) \/ Unmark(c) \/ Flush(c) \/ Uncount(c)
      PROVE  ConnectorTypeOK'
    <2>1. caller[c].to \in ConnPeers
        BY <1>2 DEF MarkConnecting, Dialled, DialFails, DialByIdFails, Count, Unmark, Flush,
                    Uncount, At, ConnectorTypeOK
    <2>2. Returns(c) \/ \E at \in Places : Goes(c, at, caller[c].to)
        BY <1>2 DEF MarkConnecting, Dialled, DialFails, DialByIdFails, Count, Unmark, Flush,
                    Uncount, Places
    <2>3. PICK r \in Records : caller' = [caller EXCEPT ![c] = r]
                               /\ (r.at # "idle" => r.to \in ConnPeers)
        BY <2>1, <2>2, Zenon DEF Returns, Goes, AtRest, Records, Places
    <2>4. /\ caller' \in [ConnCallers -> Records]
          /\ \A d \in ConnCallers : caller'[d].at # "idle" => caller'[d].to \in ConnPeers
        BY <2>3 DEF ConnectorTypeOK, Records
    <2>5. /\ connected' \subseteq ConnPeers /\ connecting' \subseteq ConnPeers
          /\ addressed' \subseteq ConnPeers /\ count' \in Nat /\ stopped' \in BOOLEAN
        BY <1>2, <2>1 DEF MarkConnecting, Dialled, DialFails, DialByIdFails, Count, Unmark, Flush,
                          Uncount, ConnectorTypeOK
    <2>6. queued' \in [ConnPeers -> 0..QueueLimit]
        BY <1>2, <2>1 DEF MarkConnecting, Dialled, DialFails, DialByIdFails, Count, Unmark, Flush,
                          Uncount, ConnectorTypeOK
    <2> QED
        BY <2>4, <2>5, <2>6 DEF ConnectorTypeOK, Records
<1>3. ASSUME NEW p \in ConnPeers, Queue(p) \/ Expire(p) \/ LearnAddress(p)
      PROVE  ConnectorTypeOK'
    BY <1>3 DEF Queue, Expire, LearnAddress, ConnectorTypeOK
<1>4. CASE ShutdownConnector
    BY <1>4 DEF ShutdownConnector, ConnectorTypeOK
<1>5. CASE UNCHANGED connectorVars
    BY <1>5 DEF connectorVars, ConnectorTypeOK
<1> QED
    BY <1>1, <1>2, <1>3, <1>4, <1>5 DEF ConnectorNext

\* A set of connections grows and shrinks by the peer in question.
LEMMA ConnectedMoves ==
    ASSUME ConnectorTypeOK, NEW p
    PROVE  /\ Cardinality(connected \cup {p}) \in Nat /\ Cardinality(connected \ {p}) \in Nat
           /\ Cardinality(connected \cup {p}) <= Cardinality(connected) + 1
           /\ p \in connected => Cardinality(connected \ {p}) = Cardinality(connected) - 1
<1>1. IsFiniteSet(connected) /\ Cardinality(connected) \in Nat
    BY CountedSets
<1>2. /\ Cardinality(connected \cup {p}) =
            IF p \in connected THEN Cardinality(connected) ELSE Cardinality(connected) + 1
      /\ Cardinality(connected \ {p}) =
            IF p \in connected THEN Cardinality(connected) - 1 ELSE Cardinality(connected)
      /\ IsFiniteSet(connected \cup {p}) /\ IsFiniteSet(connected \ {p})
    BY <1>1, FS_AddElement, FS_RemoveElement
<1>3. Cardinality(connected \cup {p}) \in Nat /\ Cardinality(connected \ {p}) \in Nat
    BY <1>2, FS_CardinalityType
<1> QED
    BY <1>1, <1>2, <1>3

\* Every step keeps connection_count, corrected by the calls under way, up with
\* the connections.
LEMMA CountStep ==
    ASSUME ConnectorTypeOK, CountCoversConnections, [ConnectorNext]_connectorVars
    PROVE  CountCoversConnections'
<1>0. /\ Cardinality(connected) \in Nat /\ Cardinality(Uncounted) \in Nat
      /\ Cardinality(Undiscounted) \in Nat /\ count \in Nat
    BY CountedSets DEF ConnectorTypeOK
<1>a. \A p \in ConnPeers, at \in Places : [at |-> at, to |-> p] \in Records
    BY DEF Records
<1>b. AtRest \in Records /\ AtRest.at = "idle"
    BY DEF AtRest, Records, Places
<1>c. \A c \in ConnCallers : caller[c].at # "idle" => caller[c].to \in ConnPeers
    BY DEF ConnectorTypeOK
<1>1. ASSUME NEW c \in ConnCallers, NEW p \in ConnPeers,
             StartConnect(c, p) \/ StartConnectById(c, p)
      PROVE  CountCoversConnections'
    <2>1. PICK at \in {"dial", "mark"} : Becomes(c, [at |-> at, to |-> p])
        BY <1>1 DEF StartConnect, StartConnectById, Goes, Becomes
    <2>2. caller[c].at = "idle" /\ connected' = connected /\ count' = count
        BY <1>1 DEF StartConnect, StartConnectById, At
    <2>3. [at |-> at, to |-> p] \in Records /\ [at |-> at, to |-> p].at = at
        BY <2>1, <1>a DEF Places
    <2>4. /\ Cardinality(Uncounted') = Cardinality(Uncounted)
          /\ Cardinality(Undiscounted') = Cardinality(Undiscounted)
        BY <1>0, <2>1, <2>2, <2>3, CallerMoves
    <2> QED
        BY <2>2, <2>4 DEF CountCoversConnections
<1>2. ASSUME NEW c \in ConnCallers, NEW p \in ConnPeers, Disconnect(c, p)
      PROVE  CountCoversConnections'
    <2>1. Becomes(c, [at |-> "uncount", to |-> p]) /\ caller[c].at = "idle"
        BY <1>2 DEF Disconnect, Goes, Becomes, At
    <2>2. [at |-> "uncount", to |-> p] \in Records
        BY <1>a DEF Places
    <2>3. /\ Cardinality(Uncounted') = Cardinality(Uncounted)
          /\ Cardinality(Undiscounted') = Cardinality(Undiscounted) + 1
        BY <1>0, <2>1, <2>2, CallerMoves
    <2>4. Cardinality(connected') = Cardinality(connected) - 1 /\ count' = count
        BY <1>2, ConnectedMoves DEF Disconnect
    <2> QED
        BY <1>0, <2>3, <2>4 DEF CountCoversConnections
<1>3. ASSUME NEW c \in ConnCallers, MarkConnecting(c) \/ DialFails(c) \/ DialByIdFails(c)
                                    \/ Unmark(c) \/ Flush(c)
      PROVE  CountCoversConnections'
    <2>1. /\ caller[c].at \in {"mark", "dial", "dialById", "unmark", "flush"}
          /\ connected' = connected /\ count' = count
        BY <1>3 DEF MarkConnecting, DialFails, DialByIdFails, Unmark, Flush, At
    <2>2. PICK r \in Records : /\ Becomes(c, r)
                               /\ r.at \in {"idle", "dialById", "flush"}
        BY <1>3, <1>a, <1>b, <1>c, <2>1, Zenon
        DEF MarkConnecting, DialFails, DialByIdFails, Unmark, Flush, Goes, Becomes, Returns, Places
    <2>3. /\ Cardinality(Uncounted') = Cardinality(Uncounted)
          /\ Cardinality(Undiscounted') = Cardinality(Undiscounted)
        BY <1>0, <2>1, <2>2, CallerMoves
    <2> QED
        BY <2>1, <2>3 DEF CountCoversConnections
<1>4. ASSUME NEW c \in ConnCallers, Dialled(c) PROVE CountCoversConnections'
    <2>1. /\ caller[c].at \in {"dial", "dialById"}
          /\ connected' = connected \cup {caller[c].to} /\ count' = count
        BY <1>4 DEF Dialled, At
    <2>2. PICK r \in Records : /\ Becomes(c, r)
                               /\ r.at \in {"count", "countById"}
        BY <1>4, <1>a, <1>c, <2>1 DEF Dialled, Goes, Becomes, Places
    <2>3. /\ Cardinality(Uncounted') = Cardinality(Uncounted) + 1
          /\ Cardinality(Undiscounted') = Cardinality(Undiscounted)
        BY <1>0, <2>1, <2>2, CallerMoves
    <2>4. Cardinality(connected') \in Nat /\ Cardinality(connected') <= Cardinality(connected) + 1
        BY <2>1, ConnectedMoves, Zenon
    <2> QED
        BY <1>0, <2>1, <2>3, <2>4 DEF CountCoversConnections
<1>5. ASSUME NEW c \in ConnCallers, Count(c) PROVE CountCoversConnections'
    <2>1. /\ caller[c].at \in {"count", "countById"}
          /\ connected' = connected /\ count' = count + 1
        BY <1>5 DEF Count, At
    <2>2. PICK r \in Records : /\ Becomes(c, r)
                               /\ r.at \in {"flush", "unmark"}
        BY <1>5, <1>a, <1>c, <2>1 DEF Count, Goes, Becomes, Places
    <2>3. /\ Cardinality(Uncounted') = Cardinality(Uncounted) - 1
          /\ Cardinality(Undiscounted') = Cardinality(Undiscounted)
        BY <1>0, <2>1, <2>2, CallerMoves
    <2> QED
        BY <1>0, <2>1, <2>3 DEF CountCoversConnections
<1>6. ASSUME NEW c \in ConnCallers, Uncount(c) PROVE CountCoversConnections'
    <2>1. /\ caller[c].at = "uncount" /\ connected' = connected
          /\ count' = IF count = 0 THEN 0 ELSE count - 1
        BY <1>6 DEF Uncount, At
    <2>2. Becomes(c, AtRest)
        BY <1>6 DEF Uncount, Returns, Becomes
    <2>3. /\ Cardinality(Uncounted') = Cardinality(Uncounted)
          /\ Cardinality(Undiscounted') = Cardinality(Undiscounted) - 1
        BY <1>0, <1>b, <2>1, <2>2, CallerMoves
    <2> QED
        BY <1>0, <2>1, <2>3 DEF CountCoversConnections
<1>7. ASSUME UNCHANGED <<connected, count, caller>> PROVE CountCoversConnections'
    BY <1>7 DEF CountCoversConnections, Uncounted, Undiscounted
<1>8. CASE ShutdownConnector
    <2>1. Uncounted' = Uncounted /\ Undiscounted' = Undiscounted
        BY <1>8 DEF ShutdownConnector, Uncounted, Undiscounted
    <2>2. Cardinality(connected') = 0 /\ count' = count
        BY <1>8, FS_EmptySet DEF ShutdownConnector
    <2> QED
        BY <1>0, <2>1, <2>2 DEF CountCoversConnections
<1> QED
    BY <1>1, <1>2, <1>3, <1>4, <1>5, <1>6, <1>7, <1>8
    DEF ConnectorNext, connectorVars, Queue, Expire, LearnAddress

\* Every step keeps the mark of a peer with the one call that set it.
LEMMA MarkStep ==
    ASSUME ConnectorTypeOK, MarkHasOneOwner, [ConnectorNext]_connectorVars
    PROVE  MarkHasOneOwner'
<1> USE DEF MarkOwner
<1>0. caller \in [ConnCallers -> Records]
    BY DEF ConnectorTypeOK, Records
\* A caller that owns no mark before and none after leaves the others alone.
<1>1. ASSUME NEW c \in ConnCallers, NEW r \in Records, Becomes(c, r), connecting' = connecting,
             caller[c].at \notin {"dialById", "countById", "unmark"},
             r.at \notin {"dialById", "countById", "unmark"}
      PROVE  MarkHasOneOwner'
    BY <1>0, <1>1 DEF Becomes, MarkHasOneOwner
\* The owner of a mark moves on and keeps it.
<1>2. ASSUME NEW c \in ConnCallers, NEW r \in Records, Becomes(c, r), connecting' = connecting,
             caller[c].at \in {"dialById", "countById", "unmark"},
             r.at \in {"dialById", "countById", "unmark"}, r.to = caller[c].to
      PROVE  MarkHasOneOwner'
    BY <1>0, <1>2 DEF Becomes, MarkHasOneOwner
\* The owner of a mark takes it off.
<1>3. ASSUME NEW c \in ConnCallers, NEW r \in Records, Becomes(c, r),
             connecting' = connecting \ {caller[c].to},
             caller[c].at \in {"dialById", "countById", "unmark"}, caller[c].to \in ConnPeers,
             r.at \notin {"dialById", "countById", "unmark"}
      PROVE  MarkHasOneOwner'
    BY <1>0, <1>3 DEF Becomes, MarkHasOneOwner
<1>a. \A p \in ConnPeers, at \in Places : [at |-> at, to |-> p] \in Records
    BY DEF Records
<1>b. AtRest \in Records /\ AtRest.at = "idle"
    BY DEF AtRest, Records, Places
<1>c. \A c \in ConnCallers : caller[c].at # "idle" => caller[c].to \in ConnPeers
    BY DEF ConnectorTypeOK
<1>4. ASSUME NEW c \in ConnCallers, NEW p \in ConnPeers,
             StartConnect(c, p) \/ StartConnectById(c, p) \/ Disconnect(c, p)
      PROVE  MarkHasOneOwner'
    <2>1. PICK at \in {"dial", "mark", "uncount"} : Becomes(c, [at |-> at, to |-> p])
        BY <1>4 DEF StartConnect, StartConnectById, Disconnect, Goes, Becomes
    <2>2. caller[c].at = "idle" /\ connecting' = connecting
        BY <1>4 DEF StartConnect, StartConnectById, Disconnect, At
    <2>3. [at |-> at, to |-> p] \in Records /\ [at |-> at, to |-> p].at = at
        BY <2>1, <1>a, Zenon DEF Places
    <2> QED
        BY <1>1, <2>1, <2>2, <2>3
<1>5. ASSUME NEW c \in ConnCallers, MarkConnecting(c) PROVE MarkHasOneOwner'
    <2>1. caller[c].at = "mark" /\ caller[c].to \in ConnPeers
        BY <1>5, <1>c DEF MarkConnecting, At
    <2>2. CASE caller[c].to \in connecting
        BY <1>1, <1>5, <1>b, <2>1, <2>2 DEF MarkConnecting, Returns, Becomes
    <2>3. CASE caller[c].to \notin connecting
        <3>1. /\ Becomes(c, [at |-> "dialById", to |-> caller[c].to])
              /\ connecting' = connecting \cup {caller[c].to}
            BY <1>5, <2>3 DEF MarkConnecting, Goes, Becomes
        <3> QED
            BY <1>0, <2>1, <2>3, <3>1 DEF Becomes, MarkHasOneOwner
    <2> QED
        BY <2>2, <2>3
<1>6. ASSUME NEW c \in ConnCallers, Dialled(c) \/ Count(c) PROVE MarkHasOneOwner'
    <2>1. connecting' = connecting /\ caller[c].to \in ConnPeers
        BY <1>6, <1>c, Zenon DEF Dialled, Count, At
    <2>2. CASE /\ caller[c].at \in {"dial", "count"}
               /\ \E at \in {"count", "flush"} : Becomes(c, [at |-> at, to |-> caller[c].to])
        <3>1. PICK at \in {"count", "flush"} : Becomes(c, [at |-> at, to |-> caller[c].to])
            BY <2>2
        <3>2. [at |-> at, to |-> caller[c].to] \in Records
            BY <1>a, <2>1, <3>1 DEF Places
        <3> QED
            BY <1>1, <2>1, <2>2, <3>1, <3>2
    <2>3. CASE /\ caller[c].at \in {"dialById", "countById"}
               /\ \E at \in {"countById", "unmark"} : Becomes(c, [at |-> at, to |-> caller[c].to])
        <3>1. PICK at \in {"countById", "unmark"} : Becomes(c, [at |-> at, to |-> caller[c].to])
            BY <2>3
        <3>2. [at |-> at, to |-> caller[c].to] \in Records
            BY <1>a, <2>1, <3>1 DEF Places
        <3> QED
            BY <1>2, <2>1, <2>3, <3>1, <3>2
    <2> QED
        BY <1>6, <2>2, <2>3 DEF Dialled, Count, At, Goes, Becomes
<1>7. ASSUME NEW c \in ConnCallers, DialFails(c) \/ Flush(c) \/ Uncount(c) PROVE MarkHasOneOwner'
    <2>1. /\ Becomes(c, AtRest) /\ connecting' = connecting
          /\ caller[c].at \in {"dial", "flush", "uncount"}
        BY <1>7 DEF DialFails, Flush, Uncount, At, Returns, Becomes
    <2> QED
        BY <1>1, <1>b, <2>1
<1>8. ASSUME NEW c \in ConnCallers, DialByIdFails(c) \/ Unmark(c) PROVE MarkHasOneOwner'
    <2>1. /\ connecting' = connecting \ {caller[c].to}
          /\ caller[c].at \in {"dialById", "unmark"} /\ caller[c].to \in ConnPeers
        BY <1>8, <1>c DEF DialByIdFails, Unmark, At
    <2>2. PICK r \in Records : Becomes(c, r) /\ r.at \in {"idle", "flush"}
        BY <1>8, <1>a, <1>b, <2>1 DEF DialByIdFails, Unmark, Goes, Returns, Becomes, Places
    <2> QED
        BY <1>3, <2>1, <2>2
<1>9. ASSUME UNCHANGED <<connecting, caller>> PROVE MarkHasOneOwner'
    BY <1>9 DEF MarkHasOneOwner
<1> QED
    BY <1>4, <1>5, <1>6, <1>7, <1>8, <1>9
    DEF ConnectorNext, connectorVars, Queue, Expire, LearnAddress, ShutdownConnector

\* Every step keeps the invariant.
LEMMA ConnectorStepInv == ConnectorInv /\ [ConnectorNext]_connectorVars => ConnectorInv'
    BY ConnectorTypeStep, CountStep, MarkStep DEF ConnectorInv

\* connection_count, with the calls that still have to change it, is never below
\* the number of connections, for any number of callers and peers.
THEOREM CountNeverBehind == ConnectorSpec => []CountCoversConnections
<1>1. ConnectorInv => CountCoversConnections
    BY DEF ConnectorInv
<1> QED
    BY <1>1, ConnectorInitInv, ConnectorStepInv, PTL DEF ConnectorSpec

\* connect_to_peer_by_id: no two calls dial a peer at once, and none leaves its
\* mark behind, for any number of callers and peers.
THEOREM MarkIsOwned == ConnectorSpec => []MarkHasOneOwner
<1>1. ConnectorInv => MarkHasOneOwner
    BY DEF ConnectorInv
<1> QED
    BY <1>1, ConnectorInitInv, ConnectorStepInv, PTL DEF ConnectorSpec

-----------------------------------------------------------------------------
(***************************************************************************)
(* ClusterJoin: the voters a joining node is told of.                       *)
(***************************************************************************)

\* A change is registered from the moment it is sent to the RaftManager, and
\* stays registered when it is appended and when it is applied.
JoinInv ==
    /\ JoinTypeOK
    /\ \A i \in DOMAIN confChanges : confChanges[i] \in registry
    /\ appended \subseteq registry
    /\ VoterListIsComplete

\* A node that nobody has joined satisfies the invariant.
LEMMA JoinInitInv == JoinInit => JoinInv
    BY JoinAssumption
    DEF JoinInit, JoinInv, JoinTypeOK, VoterListIsComplete, CurrentVoters, None

\* Every step of the joining nodes, of the contacted node and of its Raft node
\* preserves the invariant.
LEMMA JoinStepInv == JoinInv /\ [JoinNext]_joinVars => JoinInv'
<1> SUFFICES ASSUME JoinInv, [JoinNext]_joinVars PROVE JoinInv'
    OBVIOUS
<1> USE JoinAssumption
    DEF JoinInv, JoinTypeOK, VoterListIsComplete, CurrentVoters, None,
        joinerVars, contactVars, raftVars
<1>1. ASSUME NEW j \in Joiners, SendJoinRequest(j) PROVE JoinInv'
    BY <1>1 DEF SendJoinRequest
<1>2. ASSUME NEW j \in Joiners, ReceiveAnswer(j) PROVE JoinInv'
    BY <1>2 DEF ReceiveAnswer
<1>3. ASSUME NEW j \in Joiners, LoseAnswer(j) PROVE JoinInv'
    BY <1>3 DEF LoseAnswer
<1>4. ASSUME NEW j \in Joiners, HearFromLeader(j) PROVE JoinInv'
    BY <1>4 DEF HearFromLeader
<1>5. ASSUME NEW j \in Joiners, RegisterAsWorker(j) PROVE JoinInv'
    BY <1>5 DEF RegisterAsWorker
<1>6. ASSUME NEW j \in Joiners, LeaderTimeout(j) PROVE JoinInv'
    BY <1>6 DEF LeaderTimeout
<1>7. ASSUME NEW j \in Joiners, RefuseRegistration(j) PROVE JoinInv'
    BY <1>7 DEF RefuseRegistration
<1>8. ASSUME NEW j \in Joiners, AcceptRegistration(j) PROVE JoinInv'
    BY <1>8 DEF AcceptRegistration
<1>9. ASSUME NEW j \in Joiners, ShutdownNode(j) PROVE JoinInv'
    BY <1>9 DEF ShutdownNode
<1>10. ASSUME NEW j \in Joiners, ServeJoin(j) PROVE JoinInv'
    BY <1>10 DEF ServeJoin
<1>11. ASSUME NEW j \in Joiners, AnswerJoin(j) PROVE JoinInv'
    BY <1>11 DEF AnswerJoin
<1>12. CASE HandleConfChange
    BY <1>12 DEF HandleConfChange
<1>13. CASE ApplyConfChange
    BY <1>13 DEF ApplyConfChange
<1>14. CASE LoseLeadership
    BY <1>14, Zenon DEF LoseLeadership
<1>15. CASE WinElection
    BY <1>15 DEF WinElection
<1>16. CASE UNCHANGED joinVars
    BY <1>16 DEF joinVars
<1> QED
    BY <1>1, <1>2, <1>3, <1>4, <1>5, <1>6, <1>7, <1>8, <1>9, <1>10, <1>11, <1>12, <1>13,
       <1>14, <1>15, <1>16, Zenon DEF JoinNext

\* The list of voters a join answer carries misses no voter, for any set of
\* joining nodes.
THEOREM VoterListCoversVoters == JoinSpec => []VoterListIsComplete
<1>1. JoinInv => VoterListIsComplete
    BY DEF JoinInv
<1> QED
    BY <1>1, JoinInitInv, JoinStepInv, PTL DEF JoinSpec

-----------------------------------------------------------------------------
(***************************************************************************)
(* StatusCache: the tasks that write a status.                              *)
(***************************************************************************)

\* With finitely many tasks, and fewer than MaxTasks, one of the slots is free.
StatusInv == StatusTypeOK /\ IsFiniteSet(writers)

\* The tasks do not cover the slots: a new one finds its slot.
LEMMA FreeSlot ==
    ASSUME StatusInv, Cardinality(writers) < MaxTasks
    PROVE  \E i \in 1..MaxTasks : \A w \in writers : w.slot # i
<1> SUFFICES ASSUME \A i \in 1..MaxTasks : \E w \in writers : w.slot = i
             PROVE  FALSE
    OBVIOUS
<1> DEFINE slotOf == [w \in writers |-> w.slot]
<1>1. slotOf \in Surjection(writers, 1..MaxTasks)
    BY DEF Surjection, StatusInv, StatusTypeOK
<1>2. Cardinality(1..MaxTasks) <= Cardinality(writers)
    BY <1>1, FS_Surjection DEF StatusInv
<1>3. MaxTasks \in Nat /\ Cardinality(1..MaxTasks) = MaxTasks
    BY StatusAssumption, FS_Interval
<1>4. Cardinality(writers) \in Nat
    BY FS_CardinalityType DEF StatusInv
<1> QED
    BY <1>2, <1>3, <1>4

\* What a report leaves to its task has the type of a task.
LEMMA ReportedType ==
    ASSUME StatusInv, Cardinality(writers) < MaxTasks
    PROVE  Reported \in [slot : 1..MaxTasks, leader : StatusNodes \union {0}, role : Roles,
                         next : {"leader", "state"}]
<1> DEFINE s == CHOOSE i \in 1..MaxTasks : \A w \in writers : w.slot # i
<1>1. s \in 1..MaxTasks
    BY FreeSlot, Zenon
<1> HIDE DEF s
<1>2. [slot |-> s, leader |-> raftLeader, role |-> raftRole, next |-> "leader"]
        \in [slot : 1..MaxTasks, leader : StatusNodes \union {0}, role : Roles,
             next : {"leader", "state"}]
    BY <1>1 DEF StatusInv, StatusTypeOK
<1>3. Reported = [slot |-> s, leader |-> raftLeader, role |-> raftRole, next |-> "leader"]
    BY DEF Reported, s
<1> QED
    BY <1>2, <1>3

\* A node that has reported nothing has the types.
LEMMA StatusInitInv == StatusInit => StatusInv
<1> SUFFICES ASSUME StatusInit PROVE StatusInv
    OBVIOUS
<1>1. IsFiniteSet(writers)
    BY FS_EmptySet DEF StatusInit
<1> QED
    BY <1>1 DEF StatusInit, StatusInv, StatusTypeOK, Roles

\* Elections, reports and the two writes of a task keep the types.
LEMMA StatusStepInv == StatusInv /\ [StatusNext]_statusVars => StatusInv'
<1> SUFFICES ASSUME StatusInv, [StatusNext]_statusVars PROVE StatusInv'
    OBVIOUS
<1>1. CASE RaftMoves
    BY <1>1, StatusAssumption DEF RaftMoves, StatusInv, StatusTypeOK, Roles
<1>2. CASE UpdateRaftStatus
    <2>1. writers' = writers \union {Reported} /\ IsFiniteSet(writers')
        BY <1>2, FS_AddElement DEF UpdateRaftStatus, StatusInv
    <2>2. Reported \in [slot : 1..MaxTasks, leader : StatusNodes \union {0}, role : Roles,
                        next : {"leader", "state"}]
        BY <1>2, ReportedType DEF UpdateRaftStatus
    <2> QED
        BY <1>2, <2>1, <2>2 DEF UpdateRaftStatus, StatusInv, StatusTypeOK
<1>3. ASSUME NEW w \in writers, WriteLeaderId(w) PROVE StatusInv'
    <2>1. IsFiniteSet(writers')
        BY <1>3, FS_RemoveElement, FS_AddElement DEF WriteLeaderId, StatusInv
    <2>2. w \in [slot : 1..MaxTasks, leader : StatusNodes \union {0}, role : Roles,
                 next : {"leader", "state"}]
        BY DEF StatusInv, StatusTypeOK
    <2> QED
        BY <1>3, <2>1, <2>2 DEF WriteLeaderId, StatusInv, StatusTypeOK
<1>4. ASSUME NEW w \in writers, WriteState(w) PROVE StatusInv'
    <2>1. IsFiniteSet(writers')
        BY <1>4, FS_RemoveElement DEF WriteState, StatusInv
    <2> QED
        BY <1>4, <2>1 DEF WriteState, StatusInv, StatusTypeOK
<1>5. CASE UNCHANGED statusVars
    BY <1>5 DEF statusVars, StatusInv, StatusTypeOK
<1> QED
    BY <1>1, <1>2, <1>3, <1>4, <1>5 DEF StatusNext

-----------------------------------------------------------------------------
(***************************************************************************)
(* The parts side by side.                                                  *)
(***************************************************************************)

NodeInv == RestartsInv /\ JoinInv /\ StatusInv /\ PoolInv /\ OutboxInv /\ ConnectorInv

\* A step of one part leaves the variables of the others alone, so the
\* invariants of the parts hold together.
LEMMA NodeServicesInv ==
    /\ Init => NodeInv
    /\ NodeInv /\ [Next]_vars => NodeInv'
<1>1. Init => NodeInv
    BY RestartsInit, JoinInitInv, StatusInitInv, PoolInitInv, OutboxInitInv, ConnectorInitInv, Zenon
    DEF Init, NodeInv
<1>2. ASSUME [Next]_vars
      PROVE  /\ [SupervisorNext]_supervisorVars /\ [JoinNext]_joinVars /\ [StatusNext]_statusVars
             /\ [PoolNext]_poolVars /\ [OutboxNext]_outboxVars /\ [ConnectorNext]_connectorVars
    BY <1>2 DEF Next, vars, SupervisorPart, JoinPart, StatusPart, PoolPart, OutboxPart, ConnectorPart
<1> QED
    BY <1>1, <1>2, RestartsStep, JoinStepInv, StatusStepInv, PoolStepInv, OutboxStepInv,
       ConnectorStepInv, Zenon DEF NodeInv

\* The variables of the parts of a node keep their types.
THEOREM NodeServicesTypes == Spec => []NodeTypesOK
<1>1. NodeInv => NodeTypesOK
    BY Zenon DEF NodeInv, RestartsInv, JoinInv, StatusInv, PoolInv, OutboxInv, ConnectorInv, NodeTypesOK
<1> QED
    BY <1>1, NodeServicesInv, PTL DEF Spec
=============================================================================
