----------------------------- MODULE RaftReady -----------------------------
(***************************************************************************)
(* One RaftManager (raft/core.rs): the event loop that drives a raft-rs     *)
(* RawNode over the redb storage.  Every handler of the loop is broken at   *)
(* the points where it writes the database, sends, applies or advances, so  *)
(* that a crash can fall between any two of them.  The library itself is    *)
(* external: its state is kept to what the driver can observe through       *)
(* has_ready/ready/advance.                                                 *)
(*                                                                         *)
(* Bootstrap = TRUE is the node started without a join address; it leads.   *)
(* Bootstrap = FALSE is a node that joined: it follows the leader of term   *)
(* LeaderTerm, whose log only grows.  on_ready never sends the vote         *)
(* requests of a candidate (see Sendable), so a node becomes leader only    *)
(* when it is the sole voter of its own configuration.                      *)
(***************************************************************************)
EXTENDS Naturals, Sequences, FiniteSets

CONSTANTS
    Self,          \* this node
    Peers,         \* nodes that an AddNode may add (besides Self, for a joined node)
    Leavers,       \* nodes that a RemoveNode may remove
    Proposals,     \* identities of client proposals
    Bootstrap,     \* no join_addr in the configuration
    LeaderTerm,    \* term of the leader a joined node hears from
    Threshold,     \* COMPACTION_THRESHOLD of raft/snapshot.rs
    MaxAppend,     \* bound: new entries of one MsgAppend
    MaxLog,        \* bound: length of the log
    MaxTerm,       \* bound: terms
    MaxCrash       \* bound: crashes of the process

ASSUME BootstrapAssumption == Bootstrap \in BOOLEAN
ASSUME PeersAssumption == Self \notin Peers /\ Leavers \subseteq Peers \union {Self}
ASSUME BoundsAssumption ==
    /\ LeaderTerm \in Nat \ {0} /\ Threshold \in Nat
    /\ MaxAppend \in Nat /\ MaxLog \in Nat /\ MaxTerm \in Nat /\ MaxCrash \in Nat

VARIABLES
    \* --- raft-rs, volatile -------------------------------------------------
    role,        \* StateRole of the node
    term,        \* current term
    voters,      \* voters of the active configuration
    log,         \* the log, stable and unstable part
    stabled,     \* last index the library knows to be persisted
    committed,   \* raft_log.committed
    applied,     \* raft_log.applied
    since,       \* commit_since_index: last committed entry handed out
    pendingConf, \* pending_conf_index
    outbox,      \* raft.msgs: messages the library wants sent
    prevHs,      \* hard state last reported to the driver
    softDirty,   \* the soft state changed since the last ready
    \* --- redb, durable -----------------------------------------------------
    dTerm, dCommit, \* RAFT_HARD_STATE_TABLE
    dLog,        \* RAFT_LOG_TABLE
    dFirst,      \* entries below this index have been compacted away
    dConf,       \* RAFT_CONF_STATE_TABLE, what initial_state reads
    dCluster,    \* CLUSTER_STATE_TABLE "conf_state", what apply_conf_change writes
    smSet,       \* indexes whose proposal the state machine tables contain
    \* --- the driver, volatile ----------------------------------------------
    pc,          \* where the current handler stands
    inline,      \* the ready being processed is the one of handle_raft_message
    ret,         \* where on_ready returns to
    rd,          \* the Ready being processed
    lastApplied, \* last_applied_index of on_ready
    smLog,       \* indexes applied by this incarnation, in order
    lastCompaction, needsRepl,
    \* --- the outside -------------------------------------------------------
    answers,     \* what each proposal's client has been told
    net,         \* messages this ready has handed to the transport
    promised,    \* indexes that messages to the leader, or of the bootstrap
                 \* leader, have vouched for
    crashes

raftVars == <<role, term, voters, log, stabled, committed, applied, since,
              pendingConf, outbox, prevHs, softDirty>>
diskVars == <<dTerm, dCommit, dLog, dFirst, dConf, dCluster, smSet>>
driverVars == <<pc, inline, ret, rd, lastApplied, smLog, lastCompaction, needsRepl>>
vars == <<raftVars, diskVars, driverVars, answers, net, promised, crashes>>

Nodes == Peers \union {Self}

Entry(k, v, t) == [kind |-> k, val |-> v, term |-> t]
EmptyEntry(t) == Entry("Empty", Self, t)
Entries ==
    [kind : {"Empty"}, val : {Self}, term : Nat]
    \union [kind : {"Normal"}, val : Proposals, term : Nat]
    \union [kind : {"Add", "Remove"}, val : Nodes, term : Nat]
IsConf(e) == e.kind \in {"Add", "Remove"}
\* What the leader that a joined node hears from may put in its log.
LeaderEntries ==
    {EmptyEntry(LeaderTerm)}
    \union {Entry("Normal", p, LeaderTerm) : p \in Proposals}
    \union {Entry("Add", n, LeaderTerm) : n \in Nodes}
    \union {Entry("Remove", n, LeaderTerm) : n \in Leavers}

Min2(a, b) == IF a < b THEN a ELSE b
Max2(a, b) == IF a < b THEN b ELSE a

HardStates == [term : Nat, commit : Nat]
HardState == [term |-> term, commit |-> committed]
Messages == [kind : {"append", "heartbeat", "vote", "ack"}, term : Nat, index : Nat]
Msg(k, t, i) == [kind |-> k, term |-> t, index |-> i]
Readies == [last : Nat, hs : HardStates, save : BOOLEAN, msgs : SUBSET Messages,
            persisted : BOOLEAN, lo : Nat \ {0}, hi : Nat]
NoReady == [last |-> 0, hs |-> [term |-> 0, commit |-> 0], save |-> FALSE,
            msgs |-> {}, persisted |-> FALSE, lo |-> 1, hi |-> 0]

\* MsgAppend of the leader to the other voters, carrying its log up to its end.
BcastAppend(l, vs) == IF vs \ {Self} = {} THEN {} ELSE {Msg("append", term, Len(l))}

-----------------------------------------------------------------------------
(* Start-up: Node::initialize_raft, RaftManager::new, run.                  *)

\* raft-rs hup(): entries committed but not yet applied hold a configuration
\* change, so the node may not campaign.
UnappliedConf(l, from, upto) ==
    \E i \in (from + 1)..upto : IsConf(l[i])

\* raft-rs campaign() of a node whose voters are vs and whose log is l.
\* A single voter elects itself and appends the empty entry of its term;
\* otherwise the vote requests are queued in raft.msgs.
Campaign(l, vs, t) ==
    /\ term' = t + 1
    /\ IF vs = {Self}
       THEN /\ role' = "Leader"
            /\ log' = Append(l, EmptyEntry(t + 1))
            /\ pendingConf' = Len(l)
            /\ outbox' = {}
       ELSE /\ role' = "Candidate"
            /\ log' = l
            /\ pendingConf' = 0
            /\ outbox' = {Msg("vote", t + 1, Len(l))}

\* initialize_joining_node resets the hard state and the voters, not the log.
StartLogCut == SubSeq(dLog, 1, dCommit)
StartLog == dLog

\* raft-rs load_state aborts the process on a commit index outside the log; the
\* default hard state is not loaded.
Loads(t, c) == (t = 0 /\ c = 0) \/ c \in (dFirst - 1)..Len(dLog)

\* initialize_raft: a bootstrapping node finds or creates its single-voter
\* configuration, a joining node has its hard state and voters reset.
InitializeStorage ==
    /\ dTerm' = IF Bootstrap THEN dTerm ELSE 0
    /\ dCommit' = IF Bootstrap THEN dCommit ELSE 0
    /\ dConf' = IF Bootstrap THEN {Self} ELSE {}
    /\ dLog' = StartLog
    /\ UNCHANGED <<dFirst, dCluster, smSet>>

\* RawNode::new reads initial_state back, with applied = 0.
LoadInitialState ==
    /\ Loads(dTerm', dCommit')
    /\ voters' = dConf'
    /\ stabled' = Len(dLog')
    /\ committed' = Max2(dCommit', dFirst - 1)
    /\ applied' = dFirst - 1
    /\ since' = dFirst - 1
    /\ prevHs' = [term |-> dTerm', commit |-> committed']
    /\ softDirty' = FALSE

\* The process starts, and a node without a join address bootstraps.
Start ==
    /\ pc = "down"
    /\ InitializeStorage
    /\ LoadInitialState
    /\ IF Bootstrap /\ ~UnappliedConf(dLog', dFirst - 1, committed')
       THEN Campaign(dLog', dConf', dTerm')
       ELSE /\ term' = dTerm' /\ role' = "Follower" /\ log' = dLog'
            /\ pendingConf' = 0 /\ outbox' = {}
    /\ pc' = IF Bootstrap THEN "ready" ELSE "idle"
    /\ ret' = IF Bootstrap THEN "boot2" ELSE "idle"
    /\ inline' = FALSE /\ rd' = NoReady /\ lastApplied' = 0 /\ smLog' = <<>>
    /\ lastCompaction' = 0 /\ needsRepl' = FALSE
    /\ UNCHANGED <<answers, net, promised, crashes>>

\* bootstrap_single_node after its first on_ready: a leader proposes an empty
\* entry; on_ready runs again either way.
Boot2 ==
    /\ pc = "boot2"
    /\ IF role = "Leader"
       THEN /\ log' = Append(log, EmptyEntry(term))
            /\ outbox' = outbox \union BcastAppend(log', voters)
       ELSE UNCHANGED <<log, outbox>>
    /\ pc' = "ready" /\ ret' = "idle" /\ inline' = FALSE
    /\ UNCHANGED <<role, term, voters, stabled, committed, applied, since, pendingConf,
                   prevHs, softDirty, diskVars, rd, lastApplied, smLog,
                   lastCompaction, needsRepl, answers, net, promised, crashes>>

-----------------------------------------------------------------------------
(* The handlers of run_main_loop up to the point where a ready is looked at. *)

\* The RaftManager is dropped with its RawNode, and the response channels that
\* wait in it are closed.
Dropped(waiting) ==
    /\ role' = "Follower" /\ term' = 0 /\ voters' = {} /\ log' = <<>> /\ stabled' = 0
    /\ committed' = 0 /\ applied' = 0 /\ since' = 0 /\ pendingConf' = 0 /\ outbox' = {}
    /\ prevHs' = [term |-> 0, commit |-> 0] /\ softDirty' = FALSE
    /\ inline' = FALSE /\ ret' = "idle" /\ rd' = NoReady
    /\ lastApplied' = 0 /\ smLog' = <<>> /\ lastCompaction' = 0 /\ needsRepl' = FALSE
    /\ answers' = [p \in Proposals |-> IF answers[p] = "waiting" \/ p \in waiting
                                      THEN "dropped" ELSE answers[p]]
    /\ net' = {}
    /\ UNCHANGED <<diskVars, promised>>

\* handle_proposal on a leader that was removed from its own configuration: the
\* response channel is stored, propose() fails and the error ends run().
ProposalFails(p) ==
    /\ pc = "idle" /\ answers[p] = "none"
    /\ role = "Leader" /\ Self \notin voters
    /\ Dropped({p})
    /\ pc' = "failed"
    /\ UNCHANGED crashes

\* handle_proposal: only a leader keeps the response channel and proposes.
HandleProposal(p) ==
    /\ pc = "idle" /\ answers[p] = "none"
    /\ role = "Leader" => Self \in voters
    /\ IF role = "Leader"
       THEN /\ Len(log) < MaxLog
            /\ answers' = [answers EXCEPT ![p] = "waiting"]
            /\ log' = Append(log, Entry("Normal", p, term))
            /\ outbox' = outbox \union BcastAppend(log', voters)
            /\ pc' = "ready" /\ ret' = "idle" /\ inline' = FALSE
       ELSE /\ answers' = [answers EXCEPT ![p] = "notleader"]
            /\ UNCHANGED <<log, outbox, pc, ret, inline>>
    /\ UNCHANGED <<role, term, voters, stabled, committed, applied, since, pendingConf,
                   prevHs, softDirty, diskVars, rd, lastApplied, smLog,
                   lastCompaction, needsRepl, net, promised, crashes>>

\* handle_conf_change on the leader: the AddNode or RemoveNode is proposed
\* (raft-rs turns it into an empty entry while another change is pending) and
\* answered Ok; no ready is processed, so the entry stays in memory until the
\* next handler.  Any other node, and a leader that was itself removed, answers
\* an error and changes nothing.
HandleConfChange(k, n) ==
    /\ pc = "idle" /\ role = "Leader" /\ Self \in voters
    /\ Len(log) < MaxLog
    /\ IF pendingConf > applied
       THEN /\ log' = Append(log, EmptyEntry(term))
            /\ UNCHANGED pendingConf
       ELSE /\ log' = Append(log, Entry(k, n, term))
            /\ pendingConf' = Len(log) + 1
    /\ outbox' = outbox \union BcastAppend(log', voters)
    /\ UNCHANGED <<role, term, voters, stabled, committed, applied, since, prevHs,
                   softDirty, diskVars, driverVars, answers, net, promised, crashes>>

\* handle_raft_message, step() of a MsgAppend or MsgHeartbeat of the leader on
\* a node that follows it: the message matches up to prev, es is what it adds
\* there and c is the commit index it carries.  Entries that conflict, which
\* are of a later term of this node's own, are cut off (raft-rs would abort
\* were they committed).
StepAppend(prev, es, c) ==
    /\ ~Bootstrap /\ pc = "idle" /\ term <= LeaderTerm
    /\ prev <= Len(log) /\ \A i \in 1..prev : log[i].term <= LeaderTerm
    /\ es # <<>> => /\ prev < Len(log) => log[prev + 1].term > LeaderTerm
                    /\ committed <= prev
    /\ prev + Len(es) <= MaxLog /\ c <= prev + Len(es)
    /\ role' = "Follower" /\ term' = LeaderTerm
    /\ softDirty' = (softDirty \/ term # LeaderTerm)
    /\ IF es = <<>> THEN UNCHANGED <<log, stabled>>
       ELSE /\ log' = SubSeq(log, 1, prev) \o es
            /\ stabled' = Min2(stabled, prev)
    /\ committed' = Max2(committed, c)
    /\ outbox' = outbox \union {Msg("ack", LeaderTerm, prev + Len(es))}
    /\ pc' = "ready" /\ ret' = "idle" /\ inline' = TRUE
    /\ UNCHANGED <<voters, applied, since, pendingConf, prevHs, diskVars, rd,
                   lastApplied, smLog, lastCompaction, needsRepl,
                   answers, net, promised, crashes>>

\* handle_raft_message, step() of a MsgAppendResponse or MsgHeartbeatResponse
\* on the leader: a quorum may now hold the log up to an entry c of this term;
\* the followers are sent the new commit index, or what they still miss.
StepResponse(c, more) ==
    /\ pc = "idle" /\ role = "Leader" /\ voters # {Self}
    /\ c \in committed..stabled
    /\ c > committed => log[c].term = term
    /\ committed' = c
    /\ outbox' = IF c > committed \/ more THEN outbox \union BcastAppend(log, voters)
                 ELSE outbox
    /\ pc' = "ready" /\ ret' = "idle" /\ inline' = TRUE
    /\ UNCHANGED <<role, term, voters, log, stabled, applied, since, pendingConf, prevHs,
                   softDirty, diskVars, rd, lastApplied, smLog, lastCompaction,
                   needsRepl, answers, net, promised, crashes>>

Heartbeats == IF voters \ {Self} = {} THEN {} ELSE {Msg("heartbeat", term, 0)}

\* raft-rs tick() without a campaign; due: this is the leader's heartbeat tick.
Tick(due) ==
    /\ pc = "idle" /\ (due => role = "Leader")
    /\ outbox' = IF due THEN outbox \union Heartbeats ELSE outbox
    /\ pc' = "ready" /\ ret' = "tick2" /\ inline' = FALSE
    /\ UNCHANGED <<role, term, voters, log, stabled, committed, applied, since,
                   pendingConf, prevHs, softDirty, diskVars, rd, lastApplied, smLog,
                   lastCompaction, needsRepl, answers, net, promised, crashes>>

\* raft-rs tick(): the election timeout of a voter that is not leader expired.
\* raft-rs aborts a new leader that has rows behind its last persisted entry.
TickElection ==
    /\ pc = "idle" /\ role # "Leader" /\ Self \in voters
    /\ term < MaxTerm /\ Len(log) < MaxLog
    /\ ~UnappliedConf(log, applied, committed)
    /\ voters = {Self} => stabled = Len(log)
    /\ Campaign(log, voters, term)
    /\ softDirty' = TRUE
    /\ pc' = "ready" /\ ret' = "tick2" /\ inline' = FALSE
    /\ UNCHANGED <<voters, stabled, committed, applied, since, prevHs, diskVars, rd,
                   lastApplied, smLog, lastCompaction, needsRepl,
                   answers, net, promised, crashes>>

\* tick(): a leader that has just applied an AddNode ticks a second time.
Tick2(due) ==
    /\ pc = "tick2"
    /\ needsRepl' = FALSE
    /\ IF needsRepl /\ role = "Leader"
       THEN /\ outbox' = IF due THEN outbox \union Heartbeats ELSE outbox
            /\ pc' = "ready" /\ ret' = "idle"
       ELSE pc' = "idle" /\ UNCHANGED <<outbox, ret>>
    /\ UNCHANGED <<role, term, voters, log, stabled, committed, applied, since,
                   pendingConf, prevHs, softDirty, diskVars, inline, rd, lastApplied,
                   smLog, lastCompaction, answers, net, promised, crashes>>

-----------------------------------------------------------------------------
(* on_ready, and the ready that handle_raft_message processes inline.       *)

\* raft-rs: committed entries are handed out only once they are persisted.
HandOut == Min2(committed, stabled)

HasReady ==
    \/ outbox # {} \/ softDirty \/ HardState # prevHs
    \/ log # dLog \/ HandOut > since

\* has_ready() is false: on_ready returns without doing anything.
NoReadyToProcess ==
    /\ pc = "ready" /\ ~HasReady
    /\ pc' = ret
    /\ UNCHANGED <<raftVars, diskVars, inline, ret, rd, lastApplied, smLog,
                   lastCompaction, needsRepl, answers, net, promised, crashes>>

\* ready(): takes the messages and the committed entries out of the library.
TakeReady ==
    /\ pc = "ready" /\ HasReady
    /\ rd' = [last |-> IF log # dLog THEN Len(log) ELSE stabled, hs |-> HardState,
              save |-> HardState # prevHs, msgs |-> outbox, persisted |-> role # "Leader",
              lo |-> since + 1, hi |-> HandOut]
    /\ prevHs' = HardState
    /\ outbox' = {}
    /\ since' = Max2(since, HandOut)
    /\ softDirty' = FALSE
    /\ lastApplied' = 0
    /\ pc' = "entries"
    /\ UNCHANGED <<role, term, voters, log, stabled, committed, applied, pendingConf,
                   diskVars, inline, ret, smLog, lastCompaction, needsRepl,
                   answers, promised, crashes>>

SendAtOnce == TakeReady /\ net' = (IF role = "Leader" \/ inline THEN outbox ELSE {})
BeginReady == TakeReady /\ net' = {}

\* RedbRaftStorage::append inserts by index and removes nothing: rows behind
\* the last entry written survive.
NotStored(l, d) == d
Stored(l, d) == l \o SubSeq(d, Len(l) + 1, Len(d))

\* save_entries_to_storage: the new entries in one transaction.
SaveEntries ==
    /\ pc = "entries"
    /\ dLog' = Stored(log, dLog)
    /\ pc' = "hs"
    /\ UNCHANGED <<raftVars, dTerm, dCommit, dFirst, dConf, dCluster, smSet, inline, ret,
                   rd, lastApplied, smLog, lastCompaction, needsRepl,
                   answers, net, promised, crashes>>

\* save_hard_state, in a transaction of its own.
SaveHardState ==
    /\ pc = "hs"
    /\ dTerm' = IF rd.save THEN rd.hs.term ELSE dTerm
    /\ dCommit' = IF rd.save THEN rd.hs.commit ELSE dCommit
    /\ pc' = "send"
    /\ UNCHANGED <<raftVars, dLog, dFirst, dConf, dCluster, smSet, inline, ret, rd,
                   lastApplied, smLog, lastCompaction, needsRepl, answers, net, promised, crashes>>

\* send_messages_to_peers only takes ready.messages(), which raft-rs leaves
\* empty on a node that is not leader; the inline ready sends
\* persisted_messages() as well.
Sendable == IF inline \/ ~rd.persisted THEN rd.msgs ELSE {}

\* Handing messages to the transport (send_raft_message never fails).
Transmit(msgs) ==
    /\ net' = net \union msgs
    /\ promised' = promised \union
           UNION {1..m.index : m \in {x \in msgs : x.kind = "ack" \/ Bootstrap}}

Send ==
    /\ pc = "send"
    /\ Transmit(Sendable)
    /\ pc' = "apply"
    /\ UNCHANGED <<raftVars, diskVars, inline, ret, rd, lastApplied, smLog,
                   lastCompaction, needsRepl, answers, crashes>>

\* process_normal_entry: the state machine applies the entry in a transaction
\* and the waiting client, if any, gets the result.
ApplyNormal(i) ==
    /\ smSet' = smSet \union {i}
    /\ smLog' = Append(smLog, i)
    /\ answers' = IF answers[log[i].val] = "waiting"
                  THEN [answers EXCEPT ![log[i].val] = "applied"] ELSE answers
    /\ UNCHANGED <<voters, dCluster, needsRepl, committed, outbox>>

NewVoters(e) == IF e.kind = "Add" THEN voters \union {e.val} ELSE voters \ {e.val}

\* raft-rs post_conf_change: when a removal makes the quorum smaller, a leader
\* may find entries of its term committed that it waited for.
Committable(vs) ==
    IF /\ role = "Leader" /\ Self \in vs
       /\ vs \subseteq voters /\ vs # voters /\ Cardinality(voters) % 2 = 0
    THEN LET higher == {c \in (committed + 1)..stabled : log[c].term = term}
         IN  IF vs # {Self} THEN {committed} \union higher
             ELSE IF stabled \in higher THEN {stabled} ELSE {committed}
    ELSE {committed}

\* process_conf_change_entry / apply_conf_change: the library switches to the
\* new voters, which are saved to CLUSTER_STATE_TABLE; a leader queues appends
\* for the others.
ApplyConf(i) ==
    /\ voters' = NewVoters(log[i]) /\ voters' # {}
    /\ dCluster' = voters'
    /\ needsRepl' = (needsRepl \/ log[i].kind = "Add")
    /\ committed' \in Committable(voters')
    /\ outbox' = IF role = "Leader" /\ Self \in voters'
                 THEN outbox \union BcastAppend(log, voters') ELSE outbox
    /\ UNCHANGED <<smSet, smLog, answers>>

\* raft-rs refuses to remove the last voter: the error of apply_conf_change
\* leaves on_ready, the handler and run().
ApplyFails ==
    /\ pc \in {"apply", "newly"} /\ rd.lo <= rd.hi
    /\ IsConf(log[rd.lo]) /\ NewVoters(log[rd.lo]) = {}
    /\ Dropped({})
    /\ pc' = "failed"
    /\ UNCHANGED crashes

SkipEntry == UNCHANGED <<voters, dCluster, needsRepl, committed, outbox, smSet, smLog, answers>>

\* The next entry of ready.committed_entries().  The inline ready of
\* handle_raft_message handles configuration changes only.
ApplyCommitted ==
    /\ pc = "apply" /\ rd.lo <= rd.hi
    /\ CASE IsConf(log[rd.lo]) -> ApplyConf(rd.lo)
         [] log[rd.lo].kind = "Normal" /\ ~inline -> ApplyNormal(rd.lo)
         [] OTHER -> SkipEntry
    /\ rd' = [rd EXCEPT !.lo = @ + 1]
    /\ lastApplied' = rd.lo
    /\ UNCHANGED <<role, term, log, stabled, applied, since, pendingConf, prevHs,
                   softDirty, dTerm, dCommit, dLog, dFirst, dConf, pc, inline, ret,
                   lastCompaction, net, promised, crashes>>

\* raft-rs advance(): the entries of the ready are persisted, which commits
\* them when this node is the only voter; what can now be handed out moves
\* into the LightReady.
CommittedAfterPersist ==
    IF role = "Leader" /\ voters = {Self} THEN Max2(committed, rd.last) ELSE committed

Advance ==
    /\ pc = "apply" /\ rd.lo > rd.hi
    /\ stabled' = rd.last
    /\ committed' = CommittedAfterPersist
    /\ since' = Max2(since, Min2(committed', stabled'))
    /\ applied' = since
    /\ prevHs' = [prevHs EXCEPT !.commit = committed']
    /\ IF inline
       THEN \* let _ = node.advance(ready): the LightReady is dropped
            /\ outbox' = {}
            /\ inline' = FALSE /\ pc' = "ready"
            /\ UNCHANGED rd
       ELSE /\ rd' = [rd EXCEPT !.msgs = outbox, !.save = committed' > rd.hs.commit]
            /\ outbox' = {}
            /\ pc' = "light"
            /\ UNCHANGED inline
    /\ log' = dLog     \* stable entries are read back from the store
    /\ UNCHANGED <<role, term, voters, pendingConf, softDirty, diskVars, ret,
                   lastApplied, smLog, lastCompaction, needsRepl, answers, net, promised, crashes>>

\* current_applied, and the range of entries behind it that are read back from
\* the store when the LightReady carried a commit index.
CurrentApplied == IF lastApplied > 0 THEN lastApplied ELSE applied
NewlyStartOff == CurrentApplied
NewlyStartTwice == Max2(CurrentApplied, 1)
NewlyStart == CurrentApplied + 1
NewlyEndOff == committed - 1
NewlyEnd == committed

\* The commit index of the LightReady is saved with the current hard state.
LightCommitUnsaved == dCommit
LightCommit == IF rd.save THEN committed ELSE dCommit

\* advance_raft_node: sends the messages of the LightReady and saves its commit
\* index; handle_newly_committed_entries then reads the range to apply.
LightReady ==
    /\ pc = "light"
    /\ Transmit(rd.msgs)
    /\ dTerm' = IF rd.save THEN term ELSE dTerm
    /\ dCommit' = LightCommit
    /\ rd' = [rd EXCEPT !.lo = NewlyStart, !.hi = IF rd.save THEN NewlyEnd ELSE 0]
    /\ pc' = "newly"
    /\ UNCHANGED <<raftVars, dLog, dFirst, dConf, dCluster, smSet, inline, ret, lastApplied,
                   smLog, lastCompaction, needsRepl, answers, crashes>>

ApplyNewlyCommitted ==
    /\ pc = "newly" /\ rd.lo <= rd.hi
    /\ CASE IsConf(log[rd.lo]) -> ApplyConf(rd.lo)
         [] log[rd.lo].kind = "Normal" -> ApplyNormal(rd.lo)
         [] OTHER -> SkipEntry
    /\ rd' = [rd EXCEPT !.lo = @ + 1]
    /\ lastApplied' = rd.lo
    /\ applied' = IF rd.lo = rd.hi THEN rd.hi ELSE applied
    /\ UNCHANGED <<role, term, log, stabled, since, pendingConf, prevHs,
                   softDirty, dTerm, dCommit, dLog, dFirst, dConf, pc, inline, ret,
                   lastCompaction, net, promised, crashes>>

\* perform_log_compaction takes a snapshot and compacts the log before its index;
\* compact_log_before removes the rows below that index.
SnapshotIndex == Min2(applied, Len(dLog))
CompactedFirst(i) == Max2(dFirst, i)

\* check_and_trigger_log_compaction.
CompactLog ==
    /\ pc = "newly" /\ rd.lo > rd.hi
    /\ IF /\ applied > Threshold
          /\ lastCompaction = 0 \/ applied - lastCompaction > Threshold \div 2
       THEN /\ dFirst' = CompactedFirst(SnapshotIndex)
            /\ lastCompaction' = SnapshotIndex
       ELSE UNCHANGED <<dFirst, lastCompaction>>
    /\ pc' = ret
    /\ UNCHANGED <<raftVars, dTerm, dCommit, dLog, dConf, dCluster, smSet, inline, ret, rd,
                   lastApplied, smLog, needsRepl, answers, net, promised, crashes>>

-----------------------------------------------------------------------------
Init ==
    /\ role = "Follower" /\ term = 0 /\ voters = {} /\ log = <<>> /\ stabled = 0
    /\ committed = 0 /\ applied = 0 /\ since = 0 /\ pendingConf = 0 /\ outbox = {}
    /\ prevHs = [term |-> 0, commit |-> 0] /\ softDirty = FALSE
    /\ pc = "down" /\ inline = FALSE /\ ret = "idle" /\ rd = NoReady
    /\ lastApplied = 0 /\ smLog = <<>> /\ lastCompaction = 0 /\ needsRepl = FALSE
    /\ dTerm = 0 /\ dCommit = 0 /\ dLog = <<>> /\ dFirst = 1 /\ dConf = {}
    /\ dCluster = {} /\ smSet = {}
    /\ answers = [p \in Proposals |-> "none"]
    /\ net = {} /\ promised = {} /\ crashes = 0

\* The process dies at any point; the response channels die with it.
Crash ==
    /\ pc # "down" /\ crashes < MaxCrash
    /\ crashes' = crashes + 1
    /\ Dropped({})
    /\ pc' = "down"

Next ==
    \/ Start \/ Boot2
    \/ \E p \in Proposals : HandleProposal(p) \/ ProposalFails(p)
    \/ \E n \in Peers : HandleConfChange("Add", n)
    \/ \E n \in Leavers : HandleConfChange("Remove", n)
    \/ \E prev \in 0..MaxLog, n \in 0..MaxAppend, c \in 0..MaxLog :
           \E es \in [1..n -> LeaderEntries] : StepAppend(prev, es, c)
    \/ \E c \in 0..Len(log), more \in BOOLEAN : StepResponse(c, more)
    \/ \E due \in BOOLEAN : Tick(due) \/ Tick2(due)
    \/ TickElection
    \/ NoReadyToProcess \/ BeginReady \/ SaveEntries \/ SaveHardState \/ Send
    \/ ApplyCommitted \/ Advance \/ LightReady \/ ApplyNewlyCommitted \/ CompactLog
    \/ ApplyFails \/ Crash

Spec == Init /\ [][Next]_vars

-----------------------------------------------------------------------------
RaftType ==
    /\ role \in {"Follower", "Candidate", "Leader"} /\ term \in Nat
    /\ voters \in SUBSET Nodes /\ log \in Seq(Entries)
    /\ stabled \in Nat /\ committed \in Nat /\ applied \in Nat /\ since \in Nat
    /\ pendingConf \in Nat /\ outbox \in SUBSET Messages
    /\ prevHs \in HardStates /\ softDirty \in BOOLEAN
DiskType ==
    /\ dTerm \in Nat /\ dCommit \in Nat /\ dLog \in Seq(Entries) /\ dFirst \in Nat \ {0}
    /\ dConf \in SUBSET Nodes /\ dCluster \in SUBSET Nodes /\ smSet \in SUBSET Nat
DriverType ==
    /\ pc \in {"down", "idle", "ready", "boot2", "tick2", "entries", "hs", "send",
               "apply", "light", "newly", "failed"}
    /\ inline \in BOOLEAN /\ ret \in {"idle", "boot2", "tick2"}
    /\ rd \in Readies /\ lastApplied \in Nat /\ smLog \in Seq(Nat)
    /\ lastCompaction \in Nat /\ needsRepl \in BOOLEAN
OutsideType ==
    /\ answers \in [Proposals -> {"none", "waiting", "applied", "notleader", "dropped"}]
    /\ net \in SUBSET Messages
    /\ promised \in SUBSET Nat /\ crashes \in Nat

\* The type invariant of the driver, the library state it sees and the database.
TypeOK == RaftType /\ DiskType /\ DriverType /\ OutsideType

\* Nothing leaves the node before what it says is durable: the entries a
\* message vouches for are in the log table and the term it carries is in the
\* hard state when send_raft_message takes it.
SendAfterPersist ==
    [][\A m \in net' \ net : m.index <= Len(dLog) /\ m.term <= dTerm]_vars

\* Entries that this node acknowledged to its leader, or that the bootstrap
\* leader sent out, are never overwritten in the log table, whatever crashes,
\* restarts and conflicting appends follow.
PromisedEntriesStay ==
    [][\A i \in promised : i <= Len(dLog') /\ dLog'[i] = dLog[i]]_vars

\* The hard state on disk can always be loaded: raft-rs aborts the start of a
\* node whose commit index is outside the log it finds.
HardStateLoadable ==
    /\ dCommit <= Len(dLog)
    /\ dFirst - 1 <= dCommit \/ (dTerm = 0 /\ dCommit = 0 /\ dFirst - 1 <= Len(dLog))

\* An entry reaches the state machine only after the log row and a commit index
\* that covers it are durable.
ApplyAfterCommit ==
    [][\A i \in 1..Len(smLog') :
          i > Len(smLog) => /\ smLog'[i] <= dCommit /\ smLog'[i] <= Len(dLog)
                            /\ dLog[smLog'[i]] = log[smLog'[i]]]_vars

\* One incarnation applies every entry at most once and in log order, although
\* three different paths hand entries to the state machine.
ApplyInOrder == \A i, j \in 1..Len(smLog) : i < j => smLog[i] < smLog[j]

\* A client that was told its proposal is applied finds it committed on disk.
AppliedIsDurable ==
    \A p \in Proposals : answers[p] = "applied" =>
        \E i \in 1..dCommit : dLog[i].kind = "Normal" /\ dLog[i].val = p

\* The weaker promise of a durable commit: the entry is still in the log table.
AppliedStaysInLog ==
    \A p \in Proposals : answers[p] = "applied" =>
        \E i \in 1..Len(dLog) : dLog[i].kind = "Normal" /\ dLog[i].val = p

\* Between two handlers everything committed has been applied: no committed
\* proposal is passed over, by a restart either.
NothingPassedOver ==
    pc = "idle" => \A i \in 1..committed : log[i].kind = "Normal" => i \in smSet

\* The configuration that was saved is the one the node runs with, also after a
\* restart.
ConfSurvivesRestart == pc = "idle" /\ dCluster # {} => voters = dCluster

-----------------------------------------------------------------------------
\* What the event loop does by itself once a handler has begun.
Continue ==
    \/ Boot2 \/ \E due \in BOOLEAN : Tick2(due)
    \/ NoReadyToProcess \/ BeginReady \/ SaveEntries \/ SaveHardState \/ Send
    \/ ApplyCommitted \/ Advance \/ LightReady \/ ApplyNewlyCommitted \/ CompactLog
    \/ ApplyFails

\* A handler that has begun runs on, the loop keeps ticking, and followers keep
\* acknowledging what they were sent.
FairSpec ==
    /\ Spec
    /\ WF_vars(Continue)
    /\ WF_vars(\E due \in BOOLEAN : Tick(due))
    /\ SF_vars(\E c \in 0..Len(log) : c > committed /\ StepResponse(c, FALSE))

\* A client that waits for the result of its proposal gets an answer, unless the
\* process dies.
ProposalAnswered == \A p \in Proposals : answers[p] = "waiting" ~> answers[p] # "waiting"

=============================================================================
