--------------------------- MODULE ProposalBatching ---------------------------
(***************************************************************************)
(* The way of a client's proposal to the state machine and of its result    *)
(* back: SharedNodeState::send_raft_proposal, the RaftBatchProcessor of     *)
(* raft_batch_processor.rs, RaftManager::handle_proposal, and the Batch     *)
(* branch of RaftStateMachine::apply_entry.                                 *)
(*                                                                         *)
(* A batch processor is started by RaftManager::new (raft/core.rs) and a    *)
(* second one in front of it by Node::initialize_raft, so Layers is 2 in    *)
(* the program; Layers = 0 is the configuration with batching disabled.     *)
(***************************************************************************)
EXTENDS Naturals, Sequences, FiniteSets, Functions

CONSTANTS
    Proposals,      \* clients' proposals, one per client
    Rejected,       \* proposals whose apply_* method returns an error
    Composite,      \* proposals whose data is a Batch already, like create_vm's
    Size,           \* Size[p]: serialized_size of a proposal's data
    Overhead,       \* length of a proposal id plus 64
    Layers,         \* batch processors between the clients and the RaftManager
    MaxBatchSize,   \* max_batch_size
    MaxBatchBytes   \* max_batch_bytes

ASSUME BatchAssumption ==
    /\ Rejected \subseteq Proposals /\ Composite \subseteq Proposals
    /\ Size \in [Proposals -> Nat] /\ Overhead \in Nat
    /\ Layers \in Nat /\ MaxBatchSize \in Nat \ {0} /\ MaxBatchBytes \in Nat

VARIABLES
    sent,      \* proposals in the order the clients sent them
    queue,     \* queue[l]: channel into batch processor l; the last one is proposal_rx
    batch,     \* batch[l]: proposals of current_batch
    total,     \* total[l]: total_size of current_batch
    aged,      \* aged[l]: current_batch is older than batch_timeout_ms
    entry,     \* entries of the log not yet applied, in order
    done,      \* sub-proposals of the entry at the head that were committed
    applied,   \* proposals whose transaction was committed, in order
    answer,    \* what each client's response channel holds
    serving    \* the RaftManager runs

vars == <<sent, queue, batch, total, aged, entry, done, applied, answer, serving>>

Layer == 1..Layers
Channel == 1..(Layers + 1)

\* The elements of all sequences of the sequence s, in order.
Flatten(s) ==
    IF Len(s) = 0 THEN s
    ELSE LET upTo[i \in 1..Len(s)] == IF i = 1 THEN s[i] ELSE upTo[i - 1] \o s[i]
         IN  upTo[Len(s)]

\* A RaftProposal is a sequence of parts and a part a sequence of client
\* proposals: <<<<p>>>> is a plain proposal, a Batch has one part for each of its
\* sub-proposals, and a part of several is a Batch within a Batch.  The parts of
\* a Composite proposal are not told apart.
Plain(p) == <<<<p>>>>
Clients(item) == Range(Flatten(item))
IsNested(item, part) == Len(part) > 1 \/ (Len(item) > 1 /\ part[1] \in Composite)

\* estimate_proposal_size.
Estimate(item) ==
    LET ps == Flatten(item)
        bytes[i \in 0..Len(ps)] == IF i = 0 THEN Overhead ELSE bytes[i - 1] + Size[ps[i]]
    IN  bytes[Len(ps)]

BatchedShort(items) ==
    IF Len(items) = 1 THEN items[1]
    ELSE [i \in 1..(Len(items) - 1) |-> Flatten(items[i])]
BatchedReversed(items) ==
    IF Len(items) = 1 THEN items[1]
    ELSE [i \in 1..Len(items) |-> Flatten(items[Len(items) + 1 - i])]
BatchedWrapped(items) == items
\* create_batched_proposal: the data of all proposals in one Batch; a batch of
\* one is sent on as it is.
Batched(items) ==
    IF Len(items) = 1 THEN items[1]
    ELSE [i \in 1..Len(items) |-> Flatten(items[i])]

Reply(ps, r) == answer' = [p \in Proposals |-> IF p \in ps THEN r ELSE answer[p]]

Init ==
    /\ sent = <<>> /\ entry = <<>> /\ done = 0 /\ applied = <<>> /\ serving = TRUE
    /\ queue = [c \in Channel |-> <<>>]
    /\ batch = [l \in Layer |-> <<>>] /\ total = [l \in Layer |-> 0]
    /\ aged = [l \in Layer |-> FALSE]
    /\ answer = [p \in Proposals |-> "none"]

\* send_raft_proposal puts the proposal into the outermost channel.  Without a
\* batch processor that is the RaftManager's, which may be gone.
Submit(p) ==
    /\ answer[p] = "none"
    /\ IF Layers = 0 /\ ~serving
       THEN Reply({p}, "error") /\ UNCHANGED <<sent, queue>>
       ELSE /\ Reply({p}, "waiting")
            /\ sent' = Append(sent, p)
            /\ queue' = [queue EXCEPT ![1] = Append(@, Plain(p))]
    /\ UNCHANGED <<batch, total, aged, entry, done, applied, serving>>

\* flush_specific_batch: sends items on, behind what queue q holds.  When the
\* RaftManager is gone the send fails and the response channels are dropped (the
\* clients of a Batch read "Batch response channel dropped").
Flush(l, q, items, lost) ==
    IF l = Layers /\ ~serving
    THEN /\ queue' = q
         /\ Reply(Clients(Flatten(items)) \union lost, "dropped")
    ELSE /\ queue' = [q EXCEPT ![l + 1] = Append(@, Batched(items))]
         /\ UNCHANGED answer

\* current_batch is replaced by ProposalBatch::new(), to which items are added.
NewBatch(l, items, bytes) ==
    /\ batch' = [batch EXCEPT ![l] = items]
    /\ total' = [total EXCEPT ![l] = bytes]
    /\ aged' = [aged EXCEPT ![l] = FALSE]

\* add_to_batch would go over a limit with a proposal of size n.
Exceeds(l, n) == Len(batch[l]) >= MaxBatchSize \/ total[l] + n > MaxBatchBytes
ReachesLate(l, n) == Len(batch[l]) + 1 > MaxBatchSize \/ total[l] + n >= MaxBatchBytes
\* add_to_batch has reached a limit with it.
Reaches(l, n) == Len(batch[l]) + 1 >= MaxBatchSize \/ total[l] + n >= MaxBatchBytes

\* run receives a proposal: add_to_batch.  A batch that has no room for it is
\* flushed first, and a failure of that flush drops the new proposal too.
AddToBatch(l) ==
    /\ queue[l] # <<>>
    /\ LET item == Head(queue[l])
           n == Estimate(item)
           q == [queue EXCEPT ![l] = Tail(@)]
       IN  IF batch[l] # <<>> /\ Exceeds(l, n)
           THEN /\ Flush(l, q, batch[l], Clients(item))
                /\ IF l = Layers /\ ~serving THEN NewBatch(l, <<>>, 0)
                   ELSE NewBatch(l, <<item>>, n)
           ELSE IF Reaches(l, n)
           THEN Flush(l, q, Append(batch[l], item), {}) /\ NewBatch(l, <<>>, 0)
           ELSE /\ queue' = q
                /\ batch' = [batch EXCEPT ![l] = Append(@, item)]
                /\ total' = [total EXCEPT ![l] = @ + n]
                /\ UNCHANGED <<answer, aged>>
    /\ UNCHANGED <<sent, entry, done, applied, serving>>

\* The batch timeout passes; it is counted from the creation of the batch, an
\* empty one too.
Age(l) ==
    /\ ~aged[l]
    /\ aged' = [aged EXCEPT ![l] = TRUE]
    /\ UNCHANGED <<sent, queue, batch, total, entry, done, applied, answer, serving>>

\* The flush interval ticks: check_and_flush_batch.
CheckAndFlush(l) ==
    /\ batch[l] # <<>> /\ aged[l]
    /\ Flush(l, queue, batch[l], {})
    /\ NewBatch(l, <<>>, 0)
    /\ UNCHANGED <<sent, entry, done, applied, serving>>

-----------------------------------------------------------------------------
Proposed == queue[Layers + 1]

\* handle_proposal on a leader: the entry goes to the log.
HandleProposal ==
    /\ serving /\ Proposed # <<>>
    /\ entry' = Append(entry, Head(Proposed))
    /\ queue' = [queue EXCEPT ![Layers + 1] = Tail(@)]
    /\ UNCHANGED <<sent, batch, total, aged, done, applied, answer, serving>>

\* handle_proposal on a node that is not leader: NotLeader to all clients of it.
RefuseProposal ==
    /\ serving /\ Proposed # <<>>
    /\ Reply(Clients(Head(Proposed)), "error")
    /\ queue' = [queue EXCEPT ![Layers + 1] = Tail(@)]
    /\ UNCHANGED <<sent, batch, total, aged, entry, done, applied, serving>>

\* apply_entry commits the next sub-proposal in a transaction of its own; the
\* result goes to all clients of the entry when the last one is through.
ApplySub ==
    /\ serving /\ entry # <<>>
    /\ LET item == Head(entry)
           part == item[done + 1]
       IN  /\ ~IsNested(item, part) /\ part[1] \notin Rejected
           /\ applied' = applied \o part
           /\ IF done + 1 = Len(item)
              THEN entry' = Tail(entry) /\ done' = 0 /\ Reply(Clients(item), "ok")
              ELSE done' = done + 1 /\ UNCHANGED <<entry, answer>>
    /\ UNCHANGED <<sent, queue, batch, total, aged, serving>>

ApplyErrorAsOk ==
    /\ serving /\ entry # <<>>
    /\ LET part == Head(entry)[done + 1]
       IN  IsNested(Head(entry), part) \/ part[1] \in Rejected
    /\ entry' = Tail(entry) /\ done' = 0
    /\ Reply(Clients(Head(entry)), "ok")
    /\ UNCHANGED <<sent, queue, batch, total, aged, applied, serving>>

\* apply_entry fails: a nested batch, or a sub-proposal that is rejected.  What
\* was committed before stays, the rest is skipped.
ApplyError ==
    /\ serving /\ entry # <<>>
    /\ LET part == Head(entry)[done + 1]
       IN  IsNested(Head(entry), part) \/ part[1] \in Rejected
    /\ entry' = Tail(entry) /\ done' = 0
    /\ Reply(Clients(Head(entry)), "error")
    /\ UNCHANGED <<sent, queue, batch, total, aged, applied, serving>>

\* run() of the RaftManager ends: its receiver and pending_proposals are dropped.
Stop ==
    /\ serving
    /\ serving' = FALSE
    /\ Reply(Clients(Flatten(entry \o Proposed)), "dropped")
    /\ queue' = [queue EXCEPT ![Layers + 1] = <<>>]
    /\ entry' = <<>> /\ done' = 0
    /\ UNCHANGED <<sent, batch, total, aged, applied>>

Next ==
    \/ \E p \in Proposals : Submit(p)
    \/ \E l \in Layer : AddToBatch(l) \/ Age(l) \/ CheckAndFlush(l)
    \/ HandleProposal \/ RefuseProposal \/ ApplySub \/ ApplyError \/ Stop

Spec == Init /\ [][Next]_vars

\* The tasks of the batch processors and of the RaftManager keep running, and
\* time passes.
FairSpec ==
    /\ Spec
    /\ \A l \in Layer : WF_vars(AddToBatch(l)) /\ WF_vars(Age(l)) /\ WF_vars(CheckAndFlush(l))
    /\ WF_vars(HandleProposal \/ RefuseProposal)
    /\ WF_vars(ApplySub \/ ApplyError)
-----------------------------------------------------------------------------
Items == Seq(Seq(Seq(Proposals)))

\* The type invariant of the channels, the accumulating batches and the answers.
TypeOK ==
    /\ sent \in Seq(Proposals) /\ applied \in Seq(Proposals)
    /\ queue \in [Channel -> Items] /\ entry \in Items
    /\ batch \in [Layer -> Items] /\ total \in [Layer -> Nat]
    /\ aged \in [Layer -> BOOLEAN] /\ done \in Nat /\ serving \in BOOLEAN
    /\ answer \in [Proposals -> {"none", "waiting", "ok", "error", "dropped"}]

\* A batch that waits for more proposals is below both limits of BatchConfig,
\* unless one single proposal is larger than max_batch_bytes by itself; flushing
\* in add_to_batch happens before a limit is passed and as soon as one is met.
BatchWithinLimits ==
    \A l \in Layer : batch[l] # <<>> =>
        /\ Len(batch[l]) < MaxBatchSize
        /\ total[l] <= MaxBatchBytes \/ Len(batch[l]) = 1

Places(p) ==
    LET held == Flatten(Flatten(
                    Flatten([c \in Channel |-> queue[c]])
                    \o Flatten([l \in Layer |-> batch[l]]) \o entry))
    IN  Cardinality({i \in 1..Len(held) : held[i] = p})

\* A client that waits is waited for: its proposal is in exactly one channel,
\* batch or log entry, also while batches are replaced, split and dropped.
WaiterIsHeld == \A p \in Proposals : Places(p) = IF answer[p] = "waiting" THEN 1 ELSE 0

Before(s, p, q) == \E i, j \in 1..Len(s) : i < j /\ s[i] = p /\ s[j] = q

\* Batching does not reorder: proposals take effect in the order the clients
\* sent them, through both layers and whatever is dropped on the way.
AppliedInOrderSent ==
    \A p, q \in Proposals : Before(applied, p, q) => Before(sent, p, q)

\* A client that is told Ok has had its proposal applied, exactly once.
OkIsApplied ==
    \A p \in Proposals : answer[p] = "ok" =>
        Cardinality({i \in 1..Len(applied) : applied[i] = p}) = 1

Service == INSTANCE ProposalService
    WITH Asked <- Proposals, asked <- sent, effects <- applied, result <- answer

\* Channels, batches and log entries together implement ProposalService: seen by
\* the clients they are one queue, served from its head, though several proposals
\* are committed, refused or dropped in one step.
ImplementsService == Service!ServiceSpec

\* No batch holds another batch when it is proposed.
NoNestedBatch ==
    \A i \in 1..Len(Proposed) : \A j \in 1..Len(Proposed[i]) : ~IsNested(Proposed[i], Proposed[i][j])

\* Every client that was not refused at once is answered: no proposal is stuck
\* in a batch that never fills up.
EventuallyAnswered == \A p \in Proposals : answer[p] = "waiting" ~> answer[p] # "waiting"
=============================================================================
