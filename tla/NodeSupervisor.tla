---------------------------- MODULE NodeSupervisor ----------------------------
(***************************************************************************)
(* The life of a Node around its Raft task: Node::initialize_internal, the  *)
(* task of spawn_raft_manager_with_recovery with recreate_raft_manager,     *)
(* Node::stop, and what becomes of the requests that reach the RaftManager  *)
(* through the channels kept in SharedNodeState.                            *)
(*                                                                         *)
(* Every RaftManager has a generation.  A channel is described by the       *)
(* generation whose receiver it leads to, 0 when that receiver is gone.     *)
(***************************************************************************)
EXTENDS Integers, FiniteSets

CONSTANTS
    Callers,       \* tasks that send one request each
    MaxRestarts    \* config.cluster.raft.max_restarts

ASSUME RestartsAssumption == MaxRestarts \in Nat

VARIABLES
    stage,        \* the phase initialize_internal has reached
    initialized,  \* SharedNodeState::is_initialized, which is_running reads too
    task,         \* where the Raft task is
    restarts,     \* restart_count
    attempts,     \* calls of recreate_raft_manager
    generation,   \* RaftManagers made so far
    leadsTo,      \* leadsTo[c]: generation that receives from channel c of the shared state
    forwarded,    \* generation whose outgoing messages reach the transport
    request       \* what each caller has sent, and its answer

supervisorVars == <<stage, initialized, task, restarts, attempts, generation,
                    leadsTo, forwarded, request>>

Channels == {"proposal", "message", "confChange"}

\* initialize_internal, in order; a later stage is not reached after an error.
StageNames == {"storage", "raft", "transport", "spawn", "services", "join", "ready",
               "failed", "stopped"}

TaskStates == {"none", "running", "deciding", "sleeping",
               "ended", "gaveUp", "panicked", "aborted"}
Alive == {"running", "deciding", "sleeping"}

Unsent == [state |-> "idle", via |-> 0]

\* The RaftManager that takes requests now, 0 when none runs.
Serving == IF task = "running" THEN generation ELSE 0

SupervisorInit ==
    /\ stage = "storage" /\ initialized = FALSE
    /\ task = "none" /\ restarts = 0 /\ attempts = 0
    /\ generation = 0 /\ leadsTo = [c \in Channels |-> 0] /\ forwarded = 0
    /\ request = [c \in Callers |-> Unsent]

-----------------------------------------------------------------------------
\* Phases 1 to 5: database, VM infrastructure, storage managers, security, P2P.
SetupStorage ==
    /\ stage = "storage" /\ stage' = "raft"
    /\ UNCHANGED <<initialized, task, restarts, attempts, generation, leadsTo,
                   forwarded, request>>

\* Phase 6, and the two senders put into the shared state after it.  The message
\* sender goes to the transport.
InitializeRaft ==
    /\ stage = "raft" /\ stage' = "transport"
    /\ generation' = 1
    /\ leadsTo' = [c \in Channels |-> 1]
    /\ UNCHANGED <<initialized, task, restarts, attempts, forwarded, request>>

\* Phases 7 and 8: setup_transport, spawn_raft_message_handler.
SetupTransport ==
    /\ stage = "transport" /\ stage' = "spawn"
    /\ forwarded' = 1
    /\ UNCHANGED <<initialized, task, restarts, attempts, generation, leadsTo, request>>

\* Phase 9.
SpawnRaftManager ==
    /\ stage = "spawn" /\ stage' = "services"
    /\ task' = "running"
    /\ UNCHANGED <<initialized, restarts, attempts, generation, leadsTo, forwarded,
                   request>>

\* Phase 10.
StartServices ==
    /\ stage = "services" /\ stage' = "join"
    /\ UNCHANGED <<initialized, task, restarts, attempts, generation, leadsTo,
                   forwarded, request>>

\* Phase 11 and set_initialized(true), whatever the Raft task does meanwhile.
FinishInitialization ==
    /\ stage = "join" /\ stage' = "ready"
    /\ initialized' = TRUE
    /\ UNCHANGED <<task, restarts, attempts, generation, leadsTo, forwarded, request>>

\* An error of any phase is returned to the caller.  What was spawned stays.
\* An unspawned RaftManager is dropped with its receivers.
InitializationFails ==
    /\ stage \in {"storage", "raft", "transport", "services", "join"}
    /\ stage' = "failed"
    /\ leadsTo' = IF task = "none" THEN [c \in Channels |-> 0] ELSE leadsTo
    /\ UNCHANGED <<initialized, task, restarts, attempts, generation, forwarded, request>>

-----------------------------------------------------------------------------
\* RaftManager::run returns an error: a handler of the event loop failed.  The
\* manager, its receivers and the answer channels it holds are dropped.
ManagerFails ==
    /\ task = "running" /\ task' = "deciding"
    /\ restarts' = restarts + 1
    /\ leadsTo' = [c \in Channels |-> IF leadsTo[c] = generation THEN 0 ELSE leadsTo[c]]
    /\ forwarded' = 0
    /\ UNCHANGED <<stage, initialized, attempts, generation, request>>

\* A panic in the event loop ends the task: the recovery loop runs inside it.
ManagerPanics ==
    /\ task = "running" /\ task' = "panicked"
    /\ leadsTo' = [c \in Channels |-> IF leadsTo[c] = generation THEN 0 ELSE leadsTo[c]]
    /\ forwarded' = 0
    /\ UNCHANGED <<stage, initialized, restarts, attempts, generation, request>>

\* Mutant: the last attempt is not made.
MayRestartOnceLess == restarts < MaxRestarts

\* The head of the recovery loop.
MayRestart == restarts <= MaxRestarts

Decide ==
    /\ task = "deciding"
    /\ \/ ~MayRestart /\ task' = "gaveUp"
       \/ MayRestart /\ ~initialized /\ task' = "ended"
       \/ MayRestart /\ initialized /\ task' = "sleeping"
    /\ UNCHANGED <<stage, initialized, restarts, attempts, generation, leadsTo,
                   forwarded, request>>

\* After the delay, recreate_raft_manager.  It puts a proposal sender into the
\* shared state whose receiver goes out of scope at its end, does not await
\* set_raft_message_tx, leaves the sender of configuration changes alone, and
\* drops the senders and the receiver of outgoing messages of the new manager.
Recreate ==
    /\ task = "sleeping" /\ task' = "running"
    /\ attempts' = attempts + 1
    /\ generation' = generation + 1
    /\ leadsTo' = [leadsTo EXCEPT !["proposal"] = 0]
    /\ UNCHANGED <<stage, initialized, restarts, forwarded, request>>

\* recreate_raft_manager fails: the storage cannot be read back.
RecreateFails ==
    /\ task = "sleeping" /\ task' = "deciding"
    /\ attempts' = attempts + 1
    /\ restarts' = restarts + 1
    /\ leadsTo' = [leadsTo EXCEPT !["proposal"] = 0]
    /\ UNCHANGED <<stage, initialized, generation, forwarded, request>>

\* Node::stop aborts the Raft task, which drops the manager it runs.
Stop ==
    /\ stage \in {"ready", "failed"} /\ stage' = "stopped"
    /\ initialized' = FALSE
    /\ task' = IF task \in Alive THEN "aborted" ELSE task
    /\ leadsTo' = [c \in Channels |-> IF leadsTo[c] = Serving THEN 0 ELSE leadsTo[c]]
    /\ forwarded' = 0
    /\ UNCHANGED <<restarts, attempts, generation, request>>

-----------------------------------------------------------------------------
\* send_raft_proposal: an error when the channel is not set or closed, else the
\* caller (submit_vm_migration, leave_cluster) awaits the answer without a time limit.
SendRequest(c) ==
    /\ request[c] = Unsent
    /\ request' = [request EXCEPT ![c] =
         IF leadsTo["proposal"] = 0 THEN [state |-> "error", via |-> 0]
         ELSE [state |-> "waiting", via |-> leadsTo["proposal"]]]
    /\ UNCHANGED <<stage, initialized, task, restarts, attempts, generation, leadsTo,
                   forwarded>>

\* The RaftManager applies the request and answers.
Answer(c) ==
    /\ request[c].state = "waiting" /\ request[c].via = Serving
    /\ request' = [request EXCEPT ![c].state = "ok"]
    /\ UNCHANGED <<stage, initialized, task, restarts, attempts, generation, leadsTo,
                   forwarded>>

\* Mutant: the answer channels outlive the manager, in the task that restarts it.
AnswerLostWithTask(c) ==
    /\ request[c].state = "waiting"
    /\ task \notin Alive
    /\ ~(stage \in {"transport", "spawn"} /\ task = "none")
    /\ request' = [request EXCEPT ![c].state = "error"]
    /\ UNCHANGED <<stage, initialized, task, restarts, attempts, generation, leadsTo,
                   forwarded>>

\* The answer channel was dropped with the RaftManager that held it, or never
\* taken: recv fails.
AnswerLost(c) ==
    /\ request[c].state = "waiting"
    /\ request[c].via # Serving
    /\ ~(stage \in {"transport", "spawn"} /\ task = "none")
    /\ request' = [request EXCEPT ![c].state = "error"]
    /\ UNCHANGED <<stage, initialized, task, restarts, attempts, generation, leadsTo,
                   forwarded>>

-----------------------------------------------------------------------------
Initialize ==
    \/ SetupStorage \/ InitializeRaft \/ SetupTransport \/ SpawnRaftManager
    \/ StartServices \/ FinishInitialization

SupervisorNext ==
    \/ SetupStorage \/ InitializeRaft \/ SetupTransport \/ SpawnRaftManager
    \/ StartServices \/ FinishInitialization \/ InitializationFails
    \/ ManagerFails \/ ManagerPanics
    \/ Decide \/ Recreate \/ RecreateFails
    \/ Stop
    \/ \E c \in Callers : SendRequest(c) \/ Answer(c) \/ AnswerLost(c)

SupervisorSpec == SupervisorInit /\ [][SupervisorNext]_supervisorVars

-----------------------------------------------------------------------------
(* Properties. *)

\* The variables have their types.
SupervisorTypeOK ==
    /\ stage \in StageNames /\ initialized \in BOOLEAN
    /\ task \in TaskStates /\ restarts \in Nat /\ attempts \in Nat
    /\ generation \in Nat /\ leadsTo \in [Channels -> Nat] /\ forwarded \in Nat
    /\ request \in [Callers -> [state : {"idle", "waiting", "ok", "error"}, via : Nat]]

\* The recovery loop tries max_restarts times, whether the attempts fail in
\* recreate_raft_manager or in the manager they made, and gives up, with "failed
\* after {max_restarts} restart attempts", only after that many.
GivesUpAfterMaxRestarts ==
    /\ attempts <= MaxRestarts
    /\ task = "gaveUp" => attempts = MaxRestarts

\* A caller that awaits its answer for ever awaits it from a RaftManager that
\* keeps running: one that fails, panics, is aborted, is never spawned or is
\* replaced by recreate_raft_manager leaves no caller behind.
WaitsOnlyOnLiveManager ==
    \A c \in Callers :
        <>[](request[c].state = "waiting") => <>[](task = "running" /\ request[c].via = generation)
=============================================================================
