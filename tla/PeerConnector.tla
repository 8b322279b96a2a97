---------------------------- MODULE PeerConnector ----------------------------
(***************************************************************************)
(* transport/iroh_peer_connector.rs: the connections of a node to its       *)
(* peers, with connection_count kept beside the connection map and changed  *)
(* under a lock of its own.  Every await is a step.  Dialling is external:  *)
(* it succeeds or fails.  The idle connection clean-up removes nothing: the *)
(* health check touches every connection ten times within its limit.        *)
(***************************************************************************)
EXTENDS Integers, FiniteSets

CONSTANTS
    ConnPeers,       \* peers
    NoPeer,          \* the peer of a caller that is at rest
    ConnCallers,     \* tasks that use the connector
    MaxConnections,  \* cluster.peer.max_connections
    QueueLimit,      \* messages buffered for a peer (1000)
    MaxCount         \* bound: connection_count

ASSUME ConnectorAssumption ==
    /\ IsFiniteSet(ConnPeers) /\ NoPeer \notin ConnPeers /\ IsFiniteSet(ConnCallers)
    /\ MaxConnections \in Nat /\ QueueLimit \in Nat /\ MaxCount \in Nat

VARIABLES
    connected,   \* keys of connections
    connecting,  \* peers marked in connecting
    count,       \* connection_count
    caller,      \* caller[c]: where c is, and the peer it deals with
    addressed,   \* peers whose P2P address the peer list has
    queued,      \* queued[p]: messages in message_buffer
    stopped      \* shutdown has run

connectorVars == <<connected, connecting, count, caller, addressed, queued, stopped>>

AtRest == [at |-> "idle", to |-> NoPeer]

ConnectorInit ==
    /\ connected = {} /\ connecting = {} /\ count = 0
    /\ caller = [c \in ConnCallers |-> AtRest]
    /\ addressed \in SUBSET ConnPeers
    /\ queued = [p \in ConnPeers |-> 0]
    /\ stopped = FALSE

Goes(c, at, p) == caller' = [caller EXCEPT ![c] = [at |-> at, to |-> p]]
Returns(c) == caller' = [caller EXCEPT ![c] = AtRest]
At(c, at) == caller[c].at = at

\* connect_to_peer, with an address from a configuration change, or for
\* get_connection with one from the peer list.
StartConnect(c, p) ==
    /\ At(c, "idle") /\ p \notin connected
    /\ Goes(c, "dial", p)
    /\ UNCHANGED <<connected, connecting, count, addressed, queued, stopped>>

\* connect_to_peer_by_id: the count is read ...
StartConnectById(c, p) ==
    /\ At(c, "idle") /\ p \notin connected
    /\ count < MaxConnections
    /\ Goes(c, "mark", p)
    /\ UNCHANGED <<connected, connecting, count, addressed, queued, stopped>>

\* ... and the peer marked, unless another call is connecting to it.
MarkConnecting(c) ==
    /\ At(c, "mark")
    /\ IF caller[c].to \in connecting
       THEN Returns(c) /\ UNCHANGED connecting
       ELSE /\ connecting' = connecting \cup {caller[c].to}
            /\ Goes(c, "dialById", caller[c].to)
    /\ UNCHANGED <<connected, count, addressed, queued, stopped>>

\* The client is stored; the count follows when its lock is free.
Dialled(c) ==
    /\ count < MaxCount
    /\ \/ At(c, "dial") /\ Goes(c, "count", caller[c].to)
       \/ At(c, "dialById") /\ caller[c].to \in addressed /\ Goes(c, "countById", caller[c].to)
    /\ connected' = connected \cup {caller[c].to}
    /\ UNCHANGED <<connecting, count, addressed, queued, stopped>>

DialFails(c) ==
    /\ At(c, "dial") /\ Returns(c)
    /\ UNCHANGED <<connected, connecting, count, addressed, queued, stopped>>

\* Mutant: a failed dial returns before the mark is taken off.
DialByIdFailsMarked(c) ==
    /\ At(c, "dialById") /\ Returns(c)
    /\ UNCHANGED <<connected, connecting, count, addressed, queued, stopped>>

\* The `?` of the inner block: no address, or no connection.
DialByIdFails(c) ==
    /\ At(c, "dialById")
    /\ connecting' = connecting \ {caller[c].to}
    /\ Returns(c)
    /\ UNCHANGED <<connected, count, addressed, queued, stopped>>

Count(c) ==
    /\ At(c, "count") \/ At(c, "countById")
    /\ count' = count + 1
    /\ Goes(c, IF At(c, "count") THEN "flush" ELSE "unmark", caller[c].to)
    /\ UNCHANGED <<connected, connecting, addressed, queued, stopped>>

Unmark(c) ==
    /\ At(c, "unmark")
    /\ connecting' = connecting \ {caller[c].to}
    /\ Goes(c, "flush", caller[c].to)
    /\ UNCHANGED <<connected, count, addressed, queued, stopped>>

\* send_buffered_messages takes the whole buffer, and counts it in the statistics.
Flush(c) ==
    /\ At(c, "flush")
    /\ queued' = [queued EXCEPT ![caller[c].to] = 0]
    /\ Returns(c)
    /\ UNCHANGED <<connected, connecting, count, addressed, stopped>>

\* Mutant: the count goes down though there was no connection to remove.
DisconnectAnyway(c, p) ==
    /\ At(c, "idle")
    /\ connected' = connected \ {p}
    /\ Goes(c, "uncount", p)
    /\ UNCHANGED <<connecting, count, addressed, queued, stopped>>

\* disconnect_peer.
Disconnect(c, p) ==
    /\ At(c, "idle") /\ p \in connected
    /\ connected' = connected \ {p}
    /\ Goes(c, "uncount", p)
    /\ UNCHANGED <<connecting, count, addressed, queued, stopped>>

\* Mutant: a plain subtraction.
UncountWrapped(c) ==
    /\ At(c, "uncount")
    /\ count' = count - 1
    /\ Returns(c)
    /\ UNCHANGED <<connected, connecting, addressed, queued, stopped>>

\* saturating_sub.
Uncount(c) ==
    /\ At(c, "uncount")
    /\ count' = IF count = 0 THEN 0 ELSE count - 1
    /\ Returns(c)
    /\ UNCHANGED <<connected, connecting, addressed, queued, stopped>>

\* buffer_message: the oldest message makes room.
Queue(p) ==
    /\ queued[p] < QueueLimit
    /\ queued' = [queued EXCEPT ![p] = @ + 1]
    /\ UNCHANGED <<connected, connecting, count, caller, addressed, stopped>>

\* The buffer task drops the messages that are over five minutes old.
Expire(p) ==
    /\ ~stopped
    /\ \E n \in 0..(queued[p] - 1) : queued' = [queued EXCEPT ![p] = n]
    /\ UNCHANGED <<connected, connecting, count, caller, addressed, stopped>>

LearnAddress(p) ==
    /\ p \notin addressed /\ addressed' = addressed \cup {p}
    /\ UNCHANGED <<connected, connecting, count, caller, queued, stopped>>

\* shutdown clears the map and leaves the count; callers are not told.
ShutdownConnector ==
    /\ ~stopped /\ stopped' = TRUE
    /\ connected' = {}
    /\ UNCHANGED <<connecting, count, caller, addressed, queued>>

ConnectorNext ==
    \/ \E c \in ConnCallers :
         \/ \E p \in ConnPeers : StartConnect(c, p) \/ StartConnectById(c, p) \/ Disconnect(c, p)
         \/ MarkConnecting(c) \/ Dialled(c) \/ DialFails(c) \/ DialByIdFails(c)
         \/ Count(c) \/ Unmark(c) \/ Flush(c) \/ Uncount(c)
    \/ \E p \in ConnPeers : Queue(p) \/ Expire(p) \/ LearnAddress(p)
    \/ ShutdownConnector

ConnectorSpec == ConnectorInit /\ [][ConnectorNext]_connectorVars

-----------------------------------------------------------------------------
Places == {"idle", "dial", "mark", "dialById", "count", "countById", "flush", "unmark", "uncount"}

\* The variables have their types.
ConnectorTypeOK ==
    /\ connected \subseteq ConnPeers /\ connecting \subseteq ConnPeers /\ addressed \subseteq ConnPeers
    /\ count \in Nat
    /\ caller \in [ConnCallers -> [at : Places, to : ConnPeers \cup {NoPeer}]]
    /\ \A c \in ConnCallers : caller[c].at # "idle" => caller[c].to \in ConnPeers
    /\ queued \in [ConnPeers -> 0..QueueLimit]
    /\ stopped \in BOOLEAN

Uncounted == {c \in ConnCallers : caller[c].at \in {"count", "countById"}}
Undiscounted == {c \in ConnCallers : caller[c].at = "uncount"}

\* connection_count, corrected by the calls that still have to change it, is at
\* least the number of connections: the limit of connect_to_peer_by_id may come
\* too early (a connection replaced by a second dial is counted twice) and never
\* too late.
CountCoversConnections ==
    Cardinality(connected) + Cardinality(Undiscounted) <= count + Cardinality(Uncounted)

MarkOwner(c, p) == caller[c].to = p /\ caller[c].at \in {"dialById", "countById", "unmark"}

\* A peer is marked as connecting exactly while one call dials it by its id: no
\* two such calls overlap, and no failed one leaves the mark, after which the
\* peer could not be connected to again.
MarkHasOneOwner ==
    /\ \A p \in connecting : \E c \in ConnCallers : MarkOwner(c, p)
    /\ \A c \in ConnCallers, p \in ConnPeers : MarkOwner(c, p) =>
         p \in connecting /\ \A d \in ConnCallers : MarkOwner(d, p) => d = c
=============================================================================
