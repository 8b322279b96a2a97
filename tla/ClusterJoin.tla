----------------------------- MODULE ClusterJoin -----------------------------
(***************************************************************************)
(* How a node joins a cluster: the steps of join_cluster_if_configured on   *)
(* the joining node, ClusterOperationsAdapter::join_cluster on the node it  *)
(* contacts, propose_conf_change_with_p2p and handle_conf_change there, and *)
(* the registration of the joined node as a worker.                         *)
(*                                                                         *)
(* The contacted node is the bootstrap node.  Its Raft leadership comes and *)
(* goes; raft-rs is reduced to the configuration in force and at most one   *)
(* change that is appended and not applied.                                 *)
(***************************************************************************)
EXTENDS Naturals, Sequences, FiniteSets

CONSTANTS
    Bootstrap,     \* id 1
    Joiners,       \* nodes configured with join_addr
    MaxStarts      \* bound: starts of joining nodes

ASSUME JoinAssumption == Bootstrap \notin Joiners /\ MaxStarts \in Nat \ {0}

VARIABLES
    joinPhase,   \* joinPhase[j]: where join_cluster_if_configured is on node j
    starts,      \* starts of joining nodes so far
    saved,       \* saved[j]: voters that update_cluster_configuration wrote on j
    leaderSeen,  \* leaderSeen[j]: leader_id of j's status cache is set
    joinCall,    \* joinCall[j]: j's request on the contacted node
    reply,       \* reply[j]: what the answer channel of j's change holds
    answer,      \* answer[j]: what join_cluster returned for j
    registry,    \* node_registry of the contacted node
    confChanges, \* the channel of configuration changes to its RaftManager
    leading,     \* its Raft node is the leader
    appended,    \* the change that is in the log and not applied
    voters,      \* the Raft configuration in force
    registration,\* registration[j]: j's RegisterWorker proposal
    workers      \* rows of WORKER_TABLE

joinVars == <<joinPhase, starts, saved, leaderSeen, joinCall, reply, answer, registry,
              confChanges, leading, appended, voters, registration, workers>>
joinerVars == <<joinPhase, starts, saved, leaderSeen, registration>>
contactVars == <<joinCall, reply, answer, registry>>
raftVars == <<confChanges, leading, appended, voters, workers>>

None == {}

JoinInit ==
    /\ joinPhase = [j \in Joiners |-> "off"] /\ starts = 0
    /\ saved = [j \in Joiners |-> {}] /\ leaderSeen = [j \in Joiners |-> FALSE]
    /\ joinCall = [j \in Joiners |-> "none"] /\ reply = [j \in Joiners |-> "empty"]
    /\ answer = [j \in Joiners |-> None]
    /\ registry = {} /\ confChanges = <<>>
    /\ leading = TRUE /\ appended = {} /\ voters = {Bootstrap}
    /\ registration = [j \in Joiners |-> "none"] /\ workers = {Bootstrap}

-----------------------------------------------------------------------------
(* The joining node. *)

\* The process starts; wait_for_raft_ready; send_join_request.  The storage of
\* a joining node is reset at its start.
SendJoinRequest(j) ==
    /\ joinPhase[j] = "off" /\ starts < MaxStarts /\ joinCall[j] \in {"none", "over"}
    /\ joinPhase' = [joinPhase EXCEPT ![j] = "asked"]
    /\ starts' = starts + 1
    /\ saved' = [saved EXCEPT ![j] = {}]
    /\ leaderSeen' = [leaderSeen EXCEPT ![j] = FALSE]
    /\ registration' = [registration EXCEPT ![j] = "none"]
    /\ joinCall' = [joinCall EXCEPT ![j] = "sent"]
    /\ answer' = [answer EXCEPT ![j] = None]
    /\ UNCHANGED <<reply, registry, raftVars>>

\* The answer arrives.  On success the voters in it become the local
\* configuration; an answer without success is an error of the join.
ReceiveAnswer(j) ==
    /\ joinPhase[j] = "asked" /\ joinCall[j] = "over"
    /\ IF answer[j] # None
       THEN /\ saved' = [saved EXCEPT ![j] = answer[j]]
            /\ joinPhase' = [joinPhase EXCEPT ![j] = "joined"]
       ELSE /\ joinPhase' = [joinPhase EXCEPT ![j] = "failed"]
            /\ UNCHANGED saved
    /\ UNCHANGED <<starts, leaderSeen, registration, contactVars, raftVars>>

\* The connection breaks, before or after the request was served.
LoseAnswer(j) ==
    /\ joinPhase[j] = "asked"
    /\ joinPhase' = [joinPhase EXCEPT ![j] = "failed"]
    /\ joinCall' = [joinCall EXCEPT ![j] = IF @ = "sent" THEN "none" ELSE @]
    /\ UNCHANGED <<starts, saved, leaderSeen, registration, reply, answer, registry,
                   raftVars>>

\* The leader's messages reach the nodes of its configuration only.
HearFromLeader(j) ==
    /\ joinPhase[j] \in {"asked", "joined", "done", "failed"} /\ ~leaderSeen[j]
    /\ leading /\ j \in voters
    /\ leaderSeen' = [leaderSeen EXCEPT ![j] = TRUE]
    /\ UNCHANGED <<joinPhase, starts, saved, registration, contactVars, raftVars>>

\* wait_for_leader_identification and register_worker_through_raft: the proposal
\* goes to the node's own RaftManager, without an answer channel.
RegisterAsWorker(j) ==
    /\ joinPhase[j] = "joined" /\ leaderSeen[j]
    /\ joinPhase' = [joinPhase EXCEPT ![j] = "done"]
    /\ registration' = [registration EXCEPT ![j] = "sent"]
    /\ UNCHANGED <<starts, saved, leaderSeen, contactVars, raftVars>>

\* Mutant: the wait for a leader has no end.
LeaderTimeoutNever(j) == FALSE /\ UNCHANGED joinVars

\* No leader within 30 seconds: initialize returns the error.
LeaderTimeout(j) ==
    /\ joinPhase[j] = "joined" /\ ~leaderSeen[j]
    /\ joinPhase' = [joinPhase EXCEPT ![j] = "failed"]
    /\ UNCHANGED <<starts, saved, leaderSeen, registration, contactVars, raftVars>>

\* handle_proposal on the joined node, which is not the leader.
RefuseRegistration(j) ==
    /\ registration[j] = "sent"
    /\ registration' = [registration EXCEPT ![j] = "refused"]
    /\ UNCHANGED <<joinPhase, starts, saved, leaderSeen, contactVars, raftVars>>

\* handle_proposal on a joined node that leads: the row is replicated.
AcceptRegistration(j) ==
    /\ registration[j] = "sent" /\ ~leading /\ j \in voters
    /\ registration' = [registration EXCEPT ![j] = "applied"]
    /\ workers' = workers \union {j}
    /\ UNCHANGED <<joinPhase, starts, saved, leaderSeen, contactVars, confChanges, leading,
                   appended, voters>>

\* A failed or finished node is shut down, and may be started again.
ShutdownNode(j) ==
    /\ joinPhase[j] \in {"failed", "done"} /\ registration[j] # "sent"
    /\ joinPhase' = [joinPhase EXCEPT ![j] = "off"]
    /\ UNCHANGED <<starts, saved, leaderSeen, registration, contactVars, raftVars>>

-----------------------------------------------------------------------------
(* The contacted node. *)

\* Mutant: the node is registered when its change is applied.
ServeJoinUnregistered(j) ==
    /\ joinCall[j] = "sent"
    /\ joinCall' = [joinCall EXCEPT ![j] = "proposed"]
    /\ registry' = registry
    /\ reply' = [reply EXCEPT ![j] = "empty"]
    /\ confChanges' = Append(confChanges, j)
    /\ UNCHANGED <<joinerVars, answer, leading, appended, voters, workers>>

\* join_cluster up to the send in propose_conf_change_with_p2p: the node is
\* registered before its change is proposed.  (A request without an Iroh id would
\* not be registered; execute_p2p_join_request needs an endpoint, and sends its id.)
ServeJoin(j) ==
    /\ joinCall[j] = "sent"
    /\ joinCall' = [joinCall EXCEPT ![j] = "proposed"]
    /\ registry' = registry \union {j}
    /\ reply' = [reply EXCEPT ![j] = "empty"]
    /\ confChanges' = Append(confChanges, j)
    /\ UNCHANGED <<joinerVars, answer, leading, appended, voters, workers>>

\* get_current_voters.
CurrentVoters == {Bootstrap} \union registry

\* The rest of join_cluster.  try_recv does not wait: no answer yet counts as
\* success, and the wait for the node to show up among the voters looks at the
\* registry, where it is already.
AnswerJoin(j) ==
    /\ joinCall[j] = "proposed"
    /\ joinCall' = [joinCall EXCEPT ![j] = "over"]
    /\ answer' = [answer EXCEPT ![j] = IF reply[j] = "error" THEN None ELSE CurrentVoters]
    /\ UNCHANGED <<joinerVars, reply, registry, raftVars>>

\* handle_conf_change.  raft-rs replaces a change by an empty entry while
\* another one is appended and not applied, and reports no error.
HandleConfChange ==
    /\ confChanges # <<>>
    /\ LET j == Head(confChanges)
       IN  /\ confChanges' = Tail(confChanges)
           /\ reply' = [reply EXCEPT ![j] = IF leading THEN "ok" ELSE "error"]
           /\ appended' = IF leading /\ appended = {} THEN {j} ELSE appended
    /\ UNCHANGED <<joinerVars, joinCall, answer, registry, leading, voters, workers>>

\* apply_conf_change of a committed change.
ApplyConfChange ==
    /\ appended # {}
    /\ voters' = voters \union appended
    /\ appended' = {}
    /\ UNCHANGED <<joinerVars, contactVars, confChanges, leading, workers>>

\* The contacted node loses or wins an election; another leader may have
\* replaced an entry that was not committed.
LoseLeadership ==
    /\ leading /\ Cardinality(voters) > 1
    /\ leading' = FALSE
    /\ appended' \in {{}, appended}
    /\ UNCHANGED <<joinerVars, contactVars, confChanges, voters, workers>>

WinElection ==
    /\ ~leading /\ leading' = TRUE
    /\ UNCHANGED <<joinerVars, contactVars, confChanges, appended, voters, workers>>

-----------------------------------------------------------------------------
JoinerStep(j) ==
    \/ ReceiveAnswer(j) \/ RegisterAsWorker(j) \/ LeaderTimeout(j)

JoinNext ==
    \/ \E j \in Joiners :
         \/ SendJoinRequest(j) \/ ReceiveAnswer(j) \/ LoseAnswer(j) \/ HearFromLeader(j)
         \/ RegisterAsWorker(j) \/ LeaderTimeout(j) \/ RefuseRegistration(j)
         \/ AcceptRegistration(j) \/ ShutdownNode(j) \/ ServeJoin(j) \/ AnswerJoin(j)
    \/ HandleConfChange \/ ApplyConfChange \/ LoseLeadership \/ WinElection

JoinSpec == JoinInit /\ [][JoinNext]_joinVars

-----------------------------------------------------------------------------
(* Properties. *)

\* The variables have their types.
JoinTypeOK ==
    /\ joinPhase \in [Joiners -> {"off", "asked", "joined", "done", "failed"}]
    /\ starts \in 0..MaxStarts
    /\ saved \in [Joiners -> SUBSET ({Bootstrap} \union Joiners)]
    /\ leaderSeen \in [Joiners -> BOOLEAN]
    /\ joinCall \in [Joiners -> {"none", "sent", "proposed", "over"}]
    /\ reply \in [Joiners -> {"empty", "ok", "error"}]
    /\ answer \in [Joiners -> SUBSET ({Bootstrap} \union Joiners)]
    /\ registry \subseteq Joiners /\ confChanges \in Seq(Joiners)
    /\ leading \in BOOLEAN /\ appended \subseteq Joiners
    /\ voters \subseteq {Bootstrap} \union Joiners
    /\ registration \in [Joiners -> {"none", "sent", "refused", "applied"}]
    /\ workers \subseteq {Bootstrap} \union Joiners

\* get_current_voters is made from the registry and not from Raft: the list in a
\* join answer may name nodes that are no voters yet, but it never misses one,
\* whatever the order of requests, restarts and elections.
VoterListIsComplete == voters \subseteq CurrentVoters

\* A node that asked to join ends the attempt: joined as a worker or failed.
JoinAttemptEnds ==
    \A j \in Joiners : joinPhase[j] \in {"asked", "joined"} ~> joinPhase[j] \in {"done", "failed"}
=============================================================================
