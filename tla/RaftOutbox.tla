------------------------------ MODULE RaftOutbox ------------------------------
(***************************************************************************)
(* transport/iroh_raft_transport.rs: how Raft messages leave a node.  The   *)
(* message handler of node/transport.rs tries to send each message at once  *)
(* and puts it in the peer's buffer when that fails; the batch processor    *)
(* empties the buffers; the health checker drops old connections from the   *)
(* cache both senders use; shutdown waits for the two tasks.                *)
(* Messages are told apart by an identity and by their priority.  QUIC is   *)
(* external: a message written to a live connection is received, unless the *)
(* connection is lost first.                                                *)
(***************************************************************************)
EXTENDS Integers, Sequences, FiniteSets, FiniteSetsExt, Functions

CONSTANTS
    Peers,        \* nodes Raft sends to
    Priorities,   \* of 0..3: Election, Heartbeat, LogAppend, Snapshot
    MaxMessages,  \* bound: messages Raft produces
    MaxBuffered,  \* cluster.peer.max_buffered_messages
    BatchLimit,   \* messages a pass takes from one buffer (100)
    MaxOutages    \* bound: times a peer goes down

ASSUME OutboxAssumption ==
    /\ Priorities \subseteq 0..3
    /\ MaxMessages \in Nat /\ MaxBuffered \in Nat /\ BatchLimit \in Nat /\ MaxOutages \in Nat

VARIABLES
    peerInfo,     \* what the peer list says: "absent", "nameless", "addressed"
    registered,   \* peers the node registry has an address of
    reachable,    \* peers that are up
    outages,      \* outages so far
    connections,  \* the cache: "none", "live", "dead" for each peer
    aged,         \* peers whose cached connection is over 60 s old
    produced,     \* messages Raft has produced
    sender,       \* the message handler
    buffers,      \* message_buffer
    pass,         \* the batch processor: it holds the buffer lock unless "tick"
    shutdown,     \* "no", "signalled", "done"
    received      \* received[p]: the messages p got, in order

outboxVars == <<peerInfo, registered, reachable, outages, connections, aged,
                produced, sender, buffers, pass, shutdown, received>>

Snapshot == 3
Messages == [id : 1..MaxMessages, priority : Priorities]

SenderIdle == [at |-> "idle"]
SenderStates ==
    {SenderIdle}
    \union [at : {"connect", "buffer"}, to : Peers, msg : Messages]
    \union [at : {"write", "sent", "reply"}, to : Peers, msg : Messages, conn : {"live", "dead"}]

\* In a pass, the buffers still to visit; for the buffer it is at, the connection,
\* the messages it popped and, by priority, the places of those to send.
PassIdle == [at |-> "tick"]
PassGroups == [Priorities -> SUBSET (1..MaxBuffered)]
PassStates ==
    {PassIdle}
    \union [at : {"peers"}, left : SUBSET Peers]
    \union [at : {"groups"}, left : SUBSET Peers, to : Peers, conn : {"live", "dead"},
            taken : Seq(Messages), groups : PassGroups]
    \union [at : {"sent", "more"}, left : SUBSET Peers, to : Peers, conn : {"live", "dead"},
            taken : Seq(Messages), groups : PassGroups, prio : Priorities]

OutboxInit ==
    /\ peerInfo \in [Peers -> {"absent", "nameless", "addressed"}]
    /\ registered = {}
    /\ reachable = Peers /\ outages = 0
    /\ connections = [p \in Peers |-> "none"] /\ aged = {}
    /\ produced = 0
    /\ sender = SenderIdle
    /\ buffers = [p \in Peers |-> <<>>]
    /\ pass = PassIdle
    /\ shutdown = "no"
    /\ received = [p \in Peers |-> <<>>]

networkVars == <<peerInfo, reachable, outages>>

\* The peer list changes: a node joins, or its P2P address becomes known.
PeerLearned(p) ==
    /\ peerInfo' = [peerInfo EXCEPT ![p] = IF @ = "absent" THEN "nameless" ELSE "addressed"]
    /\ peerInfo' # peerInfo
    /\ UNCHANGED <<registered, reachable, outages, connections, aged, produced, sender,
                   buffers, pass, shutdown, received>>

\* A task that holds a connection to p finds it dead from now on.
Cut(task, p) ==
    IF task.at \in {"write", "sent", "reply", "groups", "more"} /\ task.to = p
    THEN [task EXCEPT !.conn = "dead"] ELSE task

\* A peer goes down, with every connection to it; it may come back.
PeerGoesDown(p) ==
    /\ p \in reachable /\ outages < MaxOutages
    /\ reachable' = reachable \ {p} /\ outages' = outages + 1
    /\ connections' = [connections EXCEPT ![p] = IF @ = "live" THEN "dead" ELSE @]
    /\ sender' = Cut(sender, p) /\ pass' = Cut(pass, p)
    /\ UNCHANGED <<peerInfo, registered, aged, produced, buffers, shutdown, received>>

PeerComesBack(p) ==
    /\ p \notin reachable
    /\ reachable' = reachable \cup {p}
    /\ UNCHANGED <<peerInfo, registered, outages, connections, aged, produced, sender,
                   buffers, pass, shutdown, received>>

-----------------------------------------------------------------------------
(* The message handler: send_message.                                       *)

\* A message to a peer that is not in the peer list is dropped.
SendToUnknown(p) ==
    /\ sender.at = "idle" /\ produced < MaxMessages
    /\ peerInfo[p] = "absent"
    /\ produced' = produced + 1
    /\ UNCHANGED <<networkVars, registered, connections, aged, sender, buffers, pass, shutdown, received>>

\* get_or_create_connection finds the cached connection, dead or not; a snapshot
\* always goes to the buffer.
SendMessage(p, prio) ==
    /\ sender.at = "idle" /\ produced < MaxMessages
    /\ peerInfo[p] # "absent"
    /\ produced' = produced + 1
    /\ LET msg == [id |-> produced + 1, priority |-> prio]
       IN sender' = IF prio = Snapshot THEN [at |-> "buffer", to |-> p, msg |-> msg]
                    ELSE IF connections[p] = "none" THEN [at |-> "connect", to |-> p, msg |-> msg]
                    ELSE [at |-> "write", to |-> p, msg |-> msg, conn |-> connections[p]]
    /\ UNCHANGED <<networkVars, registered, connections, aged, buffers, pass, shutdown, received>>

Connected(p) ==
    /\ connections' = [connections EXCEPT ![p] = "live"] /\ aged' = aged \ {p}

\* An address from the registry, or from the peer list, which is then
\* registered; the connection is stored over whatever is cached by now.
Connect ==
    /\ sender.at = "connect" /\ sender.to \in reachable
    /\ sender.to \in registered \/ peerInfo[sender.to] = "addressed"
    /\ registered' = registered \cup {sender.to}
    /\ Connected(sender.to)
    /\ sender' = [at |-> "write", to |-> sender.to, msg |-> sender.msg, conn |-> "live"]
    /\ UNCHANGED <<networkVars, produced, buffers, pass, shutdown, received>>

\* No address, or no answer within 10 s: buffer_message.
ConnectFails ==
    /\ sender.at = "connect"
    /\ \/ sender.to \notin registered /\ peerInfo[sender.to] # "addressed" /\ UNCHANGED registered
       \/ /\ sender.to \in registered \/ peerInfo[sender.to] = "addressed"
          /\ registered' = registered \cup {sender.to}
    /\ sender' = [at |-> "buffer", to |-> sender.to, msg |-> sender.msg]
    /\ UNCHANGED <<networkVars, connections, aged, produced, buffers, pass, shutdown, received>>

\* open_bi and the write fail on a dead connection; the cache keeps it.
WriteFails ==
    /\ sender.at = "write" /\ sender.conn = "dead"
    /\ sender' = [at |-> "buffer", to |-> sender.to, msg |-> sender.msg]
    /\ UNCHANGED <<networkVars, registered, connections, aged, produced, buffers, pass, shutdown, received>>

Write ==
    /\ sender.at = "write" /\ sender.conn = "live"
    /\ sender' = [sender EXCEPT !.at = "sent"]
    /\ UNCHANGED <<networkVars, registered, connections, aged, produced, buffers, pass, shutdown, received>>

\* The peer's IrohRaftService gets the message and answers.
Receive ==
    /\ sender.at = "sent" /\ sender.conn = "live"
    /\ received' = [received EXCEPT ![sender.to] = Append(@, sender.msg)]
    /\ sender' = [sender EXCEPT !.at = "reply"]
    /\ UNCHANGED <<networkVars, registered, connections, aged, produced, buffers, pass, shutdown>>

\* Mutant: an answer that cannot be read counts as a failure to send.
ReadReplyChecked ==
    /\ sender.at = "reply" \/ (sender.at = "sent" /\ sender.conn = "dead")
    /\ sender' = IF sender.conn = "live" THEN SenderIdle
                 ELSE [at |-> "buffer", to |-> sender.to, msg |-> sender.msg]
    /\ UNCHANGED <<networkVars, registered, connections, aged, produced, buffers, pass, shutdown, received>>

\* read_message returns, with the answer or an error: it is ignored.
ReadReply ==
    /\ sender.at = "reply" \/ (sender.at = "sent" /\ sender.conn = "dead")
    /\ sender' = SenderIdle
    /\ UNCHANGED <<networkVars, registered, connections, aged, produced, buffers, pass, shutdown, received>>

\* The first place whose message has a lower priority, or the end.
InsertPosition(queue, msg) ==
    LET later == {i \in DOMAIN queue : queue[i].priority > msg.priority}
    IN IF later = {} THEN Len(queue) + 1 ELSE Min(later)

\* VecDeque::insert: the message gets the place i.
InsertAt(queue, i, msg) == SubSeq(queue, 1, i - 1) \o <<msg>> \o SubSeq(queue, i, Len(queue))

Truncated(queue) == SubSeq(queue, 1, IF Len(queue) > MaxBuffered THEN MaxBuffered ELSE Len(queue))

\* Mutant: a message goes before its equals.
InsertBeforeEquals(queue, msg) ==
    LET later == {i \in DOMAIN queue : queue[i].priority >= msg.priority}
    IN InsertAt(queue, IF later = {} THEN Len(queue) + 1 ELSE Min(later), msg)
BufferedBeforeEquals(queue, msg) == Truncated(InsertBeforeEquals(queue, msg))

\* buffer_message: the lowest priorities fall off a full buffer.
Buffered(queue, msg) == Truncated(InsertAt(queue, InsertPosition(queue, msg), msg))

BufferMessage ==
    /\ sender.at = "buffer" /\ pass.at = "tick"
    /\ buffers' = [buffers EXCEPT ![sender.to] = Buffered(@, sender.msg)]
    /\ sender' = SenderIdle
    /\ UNCHANGED <<networkVars, registered, connections, aged, produced, pass, shutdown, received>>

-----------------------------------------------------------------------------
(* The batch processor: process_message_batches.                            *)

\* A tick takes the lock and visits every buffer with a message.
StartPass ==
    /\ pass.at = "tick" /\ shutdown = "no"
    /\ \E p \in Peers : buffers[p] # <<>>
    /\ pass' = [at |-> "peers", left |-> {p \in Peers : buffers[p] # <<>>}]
    /\ UNCHANGED <<networkVars, registered, connections, aged, produced, sender, buffers, shutdown, received>>

\* The messages that were popped and have not expired (30 s), by priority: a
\* group is the set of their places in the popped part, and goes out in order.
Collected(queue, expired, n) ==
    [prio \in Priorities |-> {i \in (1..n) \ expired : queue[i].priority = prio}]

\* How many messages leave the buffer when those in expired are skipped.
PoppedCount(queue, expired) ==
    LET full == {n \in DOMAIN queue : n \notin expired /\ Cardinality((1..n) \ expired) = BatchLimit}
    IN IF full = {} THEN Len(queue) ELSE CHOOSE n \in full : TRUE

Visit(p, conn) ==
    \E expired \in SUBSET DOMAIN buffers[p] :
      LET n == PoppedCount(buffers[p], expired)
      IN /\ expired \subseteq 1..n
         /\ buffers' = [buffers EXCEPT ![p] = SubSeq(@, n + 1, Len(@))]
         /\ pass' = [at |-> "groups", left |-> pass.left \ {p}, to |-> p, conn |-> conn,
                     taken |-> SubSeq(buffers[p], 1, n),
                     groups |-> Collected(buffers[p], expired, n)]

VisitConnected(p) ==
    /\ pass.at = "peers" /\ p \in pass.left /\ connections[p] # "none"
    /\ Visit(p, connections[p])
    /\ UNCHANGED <<networkVars, registered, connections, aged, produced, sender, shutdown, received>>

\* create_connection_for_peer: the peer list only, not the registry.
PassConnects(p) ==
    /\ pass.at = "peers" /\ p \in pass.left /\ connections[p] = "none"
    /\ peerInfo[p] = "addressed" /\ p \in reachable
    /\ Connected(p) /\ Visit(p, "live")
    /\ UNCHANGED <<networkVars, registered, produced, sender, shutdown, received>>

\* It fails: the buffer is left for the next pass.
PassSkips(p) ==
    /\ pass.at = "peers" /\ p \in pass.left /\ connections[p] = "none"
    /\ pass' = [pass EXCEPT !.left = @ \ {p}]
    /\ UNCHANGED <<networkVars, registered, connections, aged, produced, sender, buffers, shutdown, received>>

\* send_message_batch on a dead connection: the rest of the group is dropped.
GroupFails(prio) ==
    /\ pass.at = "groups" /\ pass.groups[prio] # {} /\ pass.conn = "dead"
    /\ pass' = [pass EXCEPT !.groups[prio] = {}]
    /\ UNCHANGED <<networkVars, registered, connections, aged, produced, sender, buffers, shutdown, received>>

\* The next message of a group is written; the groups come in any order.
GroupWrites(prio) ==
    /\ pass.at = "groups" /\ pass.groups[prio] # {} /\ pass.conn = "live"
    /\ pass' = [at |-> "sent", left |-> pass.left, to |-> pass.to, conn |-> "live",
                taken |-> pass.taken, groups |-> pass.groups, prio |-> prio]
    /\ UNCHANGED <<networkVars, registered, connections, aged, produced, sender, buffers, shutdown, received>>

\* The message that is sent, and the groups without it.
Current == pass.taken[Min(pass.groups[pass.prio])]
GroupsLeft == [pass.groups EXCEPT ![pass.prio] = @ \ {Min(@)}]

\* Mutant: the answer is waited for on a connection that is lost.
GroupSentWaits ==
    /\ pass.at = "sent" /\ pass.conn = "live"
    /\ received' = [received EXCEPT ![pass.to] = Append(@, Current)]
    /\ pass' = [at |-> "more", left |-> pass.left, to |-> pass.to, conn |-> pass.conn,
                taken |-> pass.taken, groups |-> GroupsLeft, prio |-> pass.prio]
    /\ UNCHANGED <<networkVars, registered, connections, aged, produced, sender, buffers, shutdown>>

\* The message is received and the answer read, or the connection is lost in
\* between: either way the loop goes on to the next message.
GroupSent ==
    /\ pass.at = "sent"
    /\ \/ pass.conn = "live" /\ received' = [received EXCEPT ![pass.to] = Append(@, Current)]
       \/ pass.conn = "dead" /\ UNCHANGED received
    /\ pass' = [at |-> "more", left |-> pass.left, to |-> pass.to, conn |-> pass.conn,
                taken |-> pass.taken, groups |-> GroupsLeft, prio |-> pass.prio]
    /\ UNCHANGED <<networkVars, registered, connections, aged, produced, sender, buffers, shutdown>>

\* The next message of the same group, or the next group.
GroupGoesOn ==
    /\ pass.at = "more"
    /\ IF pass.groups[pass.prio] # {} /\ pass.conn = "live"
       THEN pass' = [pass EXCEPT !.at = "sent"]
       ELSE pass' = [at |-> "groups", left |-> pass.left, to |-> pass.to, conn |-> pass.conn,
                     taken |-> pass.taken, groups |-> [pass.groups EXCEPT ![pass.prio] = {}]]
    /\ UNCHANGED <<networkVars, registered, connections, aged, produced, sender, buffers, shutdown, received>>

PeerDone ==
    /\ pass.at = "groups" /\ \A prio \in Priorities : pass.groups[prio] = {}
    /\ pass' = [at |-> "peers", left |-> pass.left]
    /\ UNCHANGED <<networkVars, registered, connections, aged, produced, sender, buffers, shutdown, received>>

PassDone ==
    /\ pass.at = "peers" /\ pass.left = {}
    /\ pass' = PassIdle
    /\ UNCHANGED <<networkVars, registered, connections, aged, produced, sender, buffers, shutdown, received>>

-----------------------------------------------------------------------------
\* 60 s pass since the connection was stored: sends do not refresh the cached
\* last_activity, only the copy they use.
ConnectionAges(p) ==
    /\ connections[p] # "none" /\ p \notin aged
    /\ aged' = aged \cup {p}
    /\ UNCHANGED <<networkVars, registered, connections, produced, sender, buffers, pass, shutdown, received>>

\* Mutant: the checker keeps connections it takes for live.
CheckHealthKeepsDead ==
    /\ shutdown = "no" /\ aged # {}
    /\ connections' = [p \in Peers |-> IF p \in aged /\ connections[p] = "live" THEN "none" ELSE connections[p]]
    /\ aged' = {p \in aged : connections[p] = "dead"}
    /\ UNCHANGED <<networkVars, registered, produced, sender, buffers, pass, shutdown, received>>

\* check_connection_health.
CheckHealth ==
    /\ shutdown = "no" /\ aged # {}
    /\ connections' = [p \in Peers |-> IF p \in aged THEN "none" ELSE connections[p]]
    /\ aged' = {}
    /\ UNCHANGED <<networkVars, registered, produced, sender, buffers, pass, shutdown, received>>

\* RaftTransport::shutdown, from Node::stop.
SignalShutdown ==
    /\ shutdown = "no" /\ shutdown' = "signalled"
    /\ UNCHANGED <<networkVars, registered, connections, aged, produced, sender, buffers, pass, received>>

\* The tasks end between two ticks; then the cache is cleared.  The message
\* handler is not told.
FinishShutdown ==
    /\ shutdown = "signalled" /\ pass.at = "tick"
    /\ shutdown' = "done"
    /\ connections' = [p \in Peers |-> "none"] /\ aged' = {}
    /\ UNCHANGED <<networkVars, registered, produced, sender, buffers, pass, received>>

HandlerStep ==
    Connect \/ ConnectFails \/ Write \/ WriteFails \/ Receive \/ ReadReply \/ BufferMessage

PassStep ==
    \/ \E p \in Peers : VisitConnected(p) \/ PassConnects(p) \/ PassSkips(p)
    \/ \E prio \in Priorities : GroupFails(prio) \/ GroupWrites(prio)
    \/ GroupSent \/ GroupGoesOn \/ PeerDone \/ PassDone

OutboxNext ==
    \/ \E p \in Peers : \/ PeerLearned(p) \/ PeerGoesDown(p) \/ PeerComesBack(p) \/ ConnectionAges(p)
                        \/ SendToUnknown(p)
                        \/ \E prio \in Priorities : SendMessage(p, prio)
    \/ HandlerStep \/ StartPass \/ PassStep \/ CheckHealth \/ SignalShutdown \/ FinishShutdown

OutboxFairness ==
    /\ WF_outboxVars(HandlerStep) /\ WF_outboxVars(PassStep) /\ WF_outboxVars(FinishShutdown)
    /\ WF_outboxVars(CheckHealth) /\ \A p \in Peers : WF_outboxVars(ConnectionAges(p))

OutboxSpec == OutboxInit /\ [][OutboxNext]_outboxVars /\ OutboxFairness

-----------------------------------------------------------------------------
\* The variables have their types.
OutboxTypeOK ==
    /\ sender \in SenderStates /\ pass \in PassStates /\ produced \in 0..MaxMessages
    /\ peerInfo \in [Peers -> {"absent", "nameless", "addressed"}] /\ outages \in 0..MaxOutages
    /\ connections \in [Peers -> {"none", "live", "dead"}]
    /\ registered \subseteq Peers /\ reachable \subseteq Peers /\ aged \subseteq Peers
    /\ \A p \in Peers : connections[p] = "none" => p \notin aged
    /\ buffers \in [Peers -> Seq(Messages)] /\ received \in [Peers -> Seq(Messages)]
    /\ shutdown \in {"no", "signalled", "done"}

\* Whatever fails between the immediate send, the buffer and the batches, a peer
\* receives no message twice.
SentAtMostOnce == \A p \in Peers : IsInjective(received[p])

\* A buffer holds at most max_buffered_messages, the urgent ones first and those
\* of one priority in the order Raft produced them.
BuffersInOrder ==
    \A p \in Peers :
      /\ Len(buffers[p]) <= MaxBuffered
      /\ \A i, j \in DOMAIN buffers[p] : i < j =>
           \/ buffers[p][i].priority < buffers[p][j].priority
           \/ buffers[p][i].priority = buffers[p][j].priority /\ buffers[p][i].id < buffers[p][j].id

\* Until shutdown, a cached connection to a peer that went down does not stay:
\* the peer is connected to anew.
DeadConnectionsAreDropped ==
    \A p \in Peers : (connections[p] = "dead" /\ shutdown = "no") ~> (connections[p] # "dead" \/ shutdown # "no")

\* Shutdown ends, though the batch processor may be in the middle of a pass.
ShutdownEnds == shutdown = "signalled" ~> shutdown = "done"
=============================================================================
