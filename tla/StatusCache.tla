----------------------------- MODULE StatusCache -----------------------------
(***************************************************************************)
(* The copy of the Raft status in SharedNodeState.  The event loop reports  *)
(* after every ready: update_raft_status sets is_leader and the term at     *)
(* once and leaves leader_id and the state to a spawned task, one for each  *)
(* report, and the tasks of several reports run in any order.               *)
(***************************************************************************)
EXTENDS Naturals, FiniteSets

CONSTANTS
    StatusNodes,  \* ids a node can learn as the leader
    StatusSelf,   \* the node's own id
    MaxStatusTerm,\* bound: elections
    MaxTasks      \* bound: spawned tasks that have not finished

ASSUME StatusAssumption ==
    StatusSelf \in StatusNodes /\ 0 \notin StatusNodes /\ StatusNodes \subseteq Nat
    /\ MaxStatusTerm \in Nat /\ MaxTasks \in Nat

VARIABLES
    raftLeader,   \* leader_id of the RawNode, 0 when it knows none
    raftTerm,     \* its term
    raftRole,     \* its StateRole
    cachedFlag,   \* is_leader
    cachedTerm,   \* current_term
    cachedLeader, \* leader_id
    cachedState,  \* current_state
    writers       \* spawned tasks: what they carry and their next write

statusVars == <<raftLeader, raftTerm, raftRole, cachedFlag, cachedTerm, cachedLeader,
                cachedState, writers>>

Roles == {"follower", "candidate", "leader"}

StatusInit ==
    /\ raftLeader = 0 /\ raftTerm = 0 /\ raftRole = "follower"
    /\ cachedFlag = FALSE /\ cachedTerm = 0 /\ cachedLeader = 0 /\ cachedState = "follower"
    /\ writers = {}

\* A new term, as a voter or as a candidate, or the leader of the term becomes
\* known.
RaftMoves ==
    /\ \/ /\ raftTerm < MaxStatusTerm /\ raftTerm' = raftTerm + 1
          /\ raftLeader' = 0 /\ raftRole' \in {"follower", "candidate"}
       \/ /\ raftRole = "candidate"
          /\ raftLeader' = StatusSelf /\ raftRole' = "leader" /\ UNCHANGED raftTerm
       \/ /\ raftLeader = 0 /\ raftLeader' \in StatusNodes \ {StatusSelf}
          /\ raftRole' = "follower" /\ UNCHANGED raftTerm
    /\ UNCHANGED <<cachedFlag, cachedTerm, cachedLeader, cachedState, writers>>

\* What a report leaves to its task: the leader and the state.
Reported == [slot |-> CHOOSE i \in 1..MaxTasks : \A w \in writers : w.slot # i,
             leader |-> raftLeader, role |-> raftRole, next |-> "leader"]

\* Mutant: a report only when the flag changes.
UpdateRaftStatusOnChange ==
    /\ Cardinality(writers) < MaxTasks
    /\ cachedFlag # (raftRole = "leader")
    /\ cachedFlag' = (raftRole = "leader")
    /\ cachedTerm' = raftTerm
    /\ writers' = writers \union {Reported}
    /\ UNCHANGED <<raftLeader, raftTerm, raftRole, cachedLeader, cachedState>>

\* update_shared_state_status and update_raft_status.
UpdateRaftStatus ==
    /\ Cardinality(writers) < MaxTasks
    /\ cachedFlag' = (raftRole = "leader")
    /\ cachedTerm' = raftTerm
    /\ writers' = writers \union {Reported}
    /\ UNCHANGED <<raftLeader, raftTerm, raftRole, cachedLeader, cachedState>>

\* The spawned task: the two locks are taken one after the other.
WriteLeaderId(w) ==
    /\ w.next = "leader"
    /\ cachedLeader' = w.leader
    /\ writers' = (writers \ {w}) \union {[w EXCEPT !.next = "state"]}
    /\ UNCHANGED <<raftLeader, raftTerm, raftRole, cachedFlag, cachedTerm, cachedState>>

WriteState(w) ==
    /\ w.next = "state"
    /\ cachedState' = w.role
    /\ writers' = writers \ {w}
    /\ UNCHANGED <<raftLeader, raftTerm, raftRole, cachedFlag, cachedTerm, cachedLeader>>

RunWriter(i) == \E w \in writers : w.slot = i /\ (WriteLeaderId(w) \/ WriteState(w))

StatusNext ==
    \/ RaftMoves \/ UpdateRaftStatus
    \/ \E w \in writers : WriteLeaderId(w) \/ WriteState(w)

StatusSpec == StatusInit /\ [][StatusNext]_statusVars

-----------------------------------------------------------------------------
\* The variables have their types.
StatusTypeOK ==
    /\ raftLeader \in StatusNodes \union {0} /\ raftTerm \in Nat /\ raftRole \in Roles
    /\ cachedFlag \in BOOLEAN /\ cachedTerm \in Nat
    /\ cachedLeader \in StatusNodes \union {0} /\ cachedState \in Roles
    /\ writers \subseteq [slot : 1..MaxTasks, leader : StatusNodes \union {0}, role : Roles,
                          next : {"leader", "state"}]

\* The four fields may disagree while reports are under way, and an older report
\* may overwrite a newer one; but a node that exchanges heartbeats has a ready,
\* and so a report, with every one of them, and once elections are over the cache
\* holds the current leader, term and state for good.  (A cluster of one node has
\* no readies at rest: the order of its last reports is then final.)
StatusCacheConverges ==
    <>[](/\ cachedFlag = (raftRole = "leader") /\ cachedTerm = raftTerm
         /\ cachedLeader = raftLeader /\ cachedState = raftRole)
=============================================================================
