--------------------------- MODULE MCNodeServices ---------------------------
(***************************************************************************)
(* The parts of a node that run beside its Raft log, each checked on its   *)
(* own small instance.  The modules share no variables: a behaviour is     *)
(* about the one that focus names, so the state spaces are added, not      *)
(* multiplied.                                                             *)
(***************************************************************************)
EXTENDS NodeSupervisor, ClusterJoin, StatusCache, ResourcePool, RaftOutbox, PeerConnector

VARIABLE focus   \* the component that this behaviour is about

vars == <<focus, supervisorVars, joinVars, statusVars, poolVars, outboxVars,
          connectorVars>>

SupervisorPart(A) ==
    /\ focus = "supervisor" /\ A
    /\ UNCHANGED <<focus, joinVars, statusVars, poolVars, outboxVars, connectorVars>>
JoinPart(A) ==
    /\ focus = "join" /\ A
    /\ UNCHANGED <<focus, supervisorVars, statusVars, poolVars, outboxVars,
                   connectorVars>>
StatusPart(A) ==
    /\ focus = "status" /\ A
    /\ UNCHANGED <<focus, supervisorVars, joinVars, poolVars, outboxVars,
                   connectorVars>>
PoolPart(A) ==
    /\ focus = "pool" /\ A
    /\ UNCHANGED <<focus, supervisorVars, joinVars, statusVars, outboxVars,
                   connectorVars>>
OutboxPart(A) ==
    /\ focus = "outbox" /\ A
    /\ UNCHANGED <<focus, supervisorVars, joinVars, statusVars, poolVars,
                   connectorVars>>
ConnectorPart(A) ==
    /\ focus = "connector" /\ A
    /\ UNCHANGED <<focus, supervisorVars, joinVars, statusVars, poolVars,
                   outboxVars>>

Init ==
    /\ focus \in {"supervisor", "join", "status", "pool", "outbox", "connector"}
    /\ SupervisorInit
    /\ JoinInit
    /\ StatusInit
    /\ PoolInit
    /\ OutboxInit
    /\ ConnectorInit
    /\ focus # "pool" => available = 0
    /\ focus # "outbox" => peerInfo = [p \in Peers |-> "absent"]
    /\ focus # "connector" => addressed = {}

Next ==
    \/ SupervisorPart(SupervisorNext)
    \/ JoinPart(JoinNext)
    \/ StatusPart(StatusNext)
    \/ PoolPart(PoolNext)
    \/ OutboxPart(OutboxNext)
    \/ ConnectorPart(ConnectorNext)

\* The steps that the code's scheduling is sure to take.  Answer is not among
\* them: a RaftManager without a quorum does not answer.
Fairness ==
    /\ WF_vars(SupervisorPart(Initialize \/ InitializationFails))
    /\ WF_vars(SupervisorPart(Decide))
    /\ WF_vars(SupervisorPart(Recreate \/ RecreateFails))
    /\ \A c \in Callers : WF_vars(SupervisorPart(AnswerLost(c)))
    /\ \A j \in Joiners : WF_vars(JoinPart(ServeJoin(j) \/ AnswerJoin(j)))
    /\ \A j \in Joiners : WF_vars(JoinPart(JoinerStep(j)))
    /\ WF_vars(StatusPart(UpdateRaftStatus))
    /\ \A i \in 1..MaxTasks : WF_vars(StatusPart(RunWriter(i)))
    /\ WF_vars(OutboxPart(HandlerStep))
    /\ WF_vars(OutboxPart(PassStep))
    /\ WF_vars(OutboxPart(FinishShutdown))
    /\ WF_vars(OutboxPart(CheckHealth))
    /\ \A p \in Peers : WF_vars(OutboxPart(ConnectionAges(p)))

Spec == Init /\ [][Next]_vars /\ Fairness

\* The variables of every part have their types.
NodeTypesOK ==
    /\ SupervisorTypeOK
    /\ JoinTypeOK
    /\ StatusTypeOK
    /\ PoolTypeOK
    /\ OutboxTypeOK
    /\ ConnectorTypeOK
=============================================================================
