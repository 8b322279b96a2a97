------------------------ MODULE ProposalBatchingProofs ------------------------
(***************************************************************************)
(* Proofs about ProposalBatching, for every set of proposals, number of     *)
(* layers and limits.  The inductive invariant says that the pipeline of    *)
(* ProposalBatchingPipeline holds exactly the waiting clients, each once    *)
(* and in the order they sent, behind everything that was applied.  A step  *)
(* of the program moves clients to the stage in front, or lets some of them *)
(* leave.  From the invariant follow the safety properties of the runs, and *)
(* that the pipeline implements ProposalService.                            *)
(***************************************************************************)
EXTENDS ProposalBatchingPipeline, FiniteSetTheorems

-----------------------------------------------------------------------------
\* The steps of the program, on the pipeline.

\* A step after which the clients of D are not waited for any more: they leave
\* the pipeline, and the rest of it keeps its order.
Leaves(D, B) ==
    /\ D \subseteq Crowd(queue, batch, entry)
    /\ Pipe(queue', batch', entry', B)
    /\ Crowd(queue', batch', entry') = Crowd(queue, batch, entry) \ D

\* add_to_batch: nobody leaves, unless the RaftManager is gone.
LEMMA AddLeaves ==
    ASSUME NEW B, Irreflexive(B), Bounded, Pipe(queue, batch, entry, B), NEW l \in Layer, AddToBatch(l)
    PROVE  \E D : Leaves(D, B) /\ Reply(D, "dropped")
<1> DEFINE item == Head(queue[l])
           n == Estimate(item)
           q == [queue EXCEPT ![l] = Tail(@)]
           c == l + 1
<1>1. /\ queue \in [Channel -> Items] /\ batch \in [Layer -> Items] /\ answer \in [Proposals -> Answers]
      /\ l \in Channel /\ c \in Channel /\ c # l
    BY BatchAssumption DEF Bounded, TypeOK, Layer, Channel, Answers
<1>2. queue[l] # <<>> /\ entry' = entry
    BY DEF AddToBatch
<1>3. answer' = answer => Reply({}, "dropped")
    BY <1>1 DEF Reply
<1>4. q[l] = Tail(queue[l]) /\ q[c] = queue[c] /\ \A i \in Channel \ {l} : q[i] = queue[i]
    BY <1>1
<1>5. CASE batch[l] # <<>> /\ Exceeds(l, n)
  <2>1. CASE l = Layers /\ ~serving
    <3>1. /\ queue' = q /\ Reply(Clients(Flatten(batch[l])) \union Clients(item), "dropped")
          /\ batch' = [batch EXCEPT ![l] = <<>>]
        BY <1>5, <2>1 DEF AddToBatch, Flush, NewBatch
    <3>2. Clients(Flatten(batch[l])) = Held(batch[l])
        BY <1>1, HeldIs
    <3>3. Discards(batch, batch', l) /\ Skips(queue, queue', l)
        BY <1>1, <1>2, <1>4, <3>1 DEF Discards, Skips
    <3>4. /\ Pipe(queue, batch', entry, B)
          /\ \A x : x \in Crowd(queue, batch', entry) <=> x \in Crowd(queue, batch, entry) /\ x \notin Held(batch[l])
        BY <3>3, PipeDropBatch
    <3>5. /\ Pipe(queue', batch', entry, B)
          /\ \A x : x \in Crowd(queue', batch', entry) <=> x \in Crowd(queue, batch', entry) /\ x \notin Clients(item)
        BY <1>1, <3>3, <3>4, PipeDropFirst
    <3>6. Held(batch[l]) \subseteq Crowd(queue, batch, entry)
        BY PipeParts
    <3>7. Clients(item) \subseteq Crowd(queue, batch, entry)
      <4>1. Lined(queue[l], B) /\ Held(queue[l]) \subseteq Crowd(queue, batch, entry)
          BY <1>1, PipeParts
      <4> QED
          BY <1>2, <4>1, LinedTail
    <3> HIDE DEF item
    <3>8. Leaves(Held(batch[l]) \union Clients(item), B)
        BY <1>2, <3>4, <3>5, <3>6, <3>7 DEF Leaves
    <3> QED
        BY <3>1, <3>2, <3>8
  <2>2. CASE ~(l = Layers /\ ~serving)
    <3>1. /\ queue' = [q EXCEPT ![c] = Append(@, Batched(batch[l]))] /\ answer' = answer
          /\ batch' = [batch EXCEPT ![l] = <<item>>]
        BY <1>5, <2>2 DEF AddToBatch, Flush, NewBatch
    <3> DEFINE r == [queue EXCEPT ![c] = Append(@, Batched(batch[l]))]
               d == [batch EXCEPT ![l] = <<>>]
    <3>2. Sends(queue, batch, r, d, l, c)
        BY <1>1, <1>5 DEF Sends
    <3>3. r[l] = queue[l] /\ d[l] = <<>> /\ queue'[l] = Tail(queue[l]) /\ batch'[l] = <<item>>
        BY <1>1, <3>1
    <3>4. Append(<<>>, item) = <<item>>
        OBVIOUS
    <3>5. \A i \in Channel \ {l} : queue'[i] = r[i]
        BY <1>1, <1>4, <3>1
    <3>6. \A m \in Layer \ {l} : batch'[m] = d[m]
        BY <1>1, <3>1
    <3> HIDE DEF r, d, c
    <3>7. Takes(r, d, queue', batch', l)
        BY <1>2, <3>3, <3>4, <3>5, <3>6 DEF Takes
    <3>8. Pipe(r, d, entry, B) /\ Crowd(r, d, entry) = Crowd(queue, batch, entry)
        BY <1>1, <3>2, PipeFlush
    <3>9. Pipe(queue', batch', entry, B) /\ Crowd(queue', batch', entry) = Crowd(r, d, entry)
        BY <3>7, <3>8, PipeTake
    <3>10. Leaves({}, B)
        BY <1>2, <3>8, <3>9 DEF Leaves
    <3> QED
        BY <1>3, <3>1, <3>10
  <2> QED
      BY <2>1, <2>2
<1>6. CASE ~(batch[l] # <<>> /\ Exceeds(l, n))
  <2> DEFINE d == [batch EXCEPT ![l] = Append(@, item)]
  <2>1. Takes(queue, batch, q, d, l)
      BY <1>1, <1>2, <1>4 DEF Takes
  <2>2. Pipe(q, d, entry, B) /\ Crowd(q, d, entry) = Crowd(queue, batch, entry)
    <3> HIDE DEF q, d
    <3> QED
        BY <2>1, PipeTake
  <2>3. d[l] = Append(batch[l], item) /\ \A m \in Layer \ {l} : d[m] = batch[m]
      BY <1>1
  <2>4. d[l] # <<>> /\ d[l] \in Items
    <3>1. batch[l] \in Seq(Seq(Seq(Proposals))) /\ queue[l] \in Seq(Seq(Seq(Proposals)))
        BY <1>1 DEF Items
    <3>2. item \in Seq(Seq(Proposals))
        BY <1>2, <3>1
    <3> HIDE DEF item
    <3> QED
        BY <2>3, <3>1, <3>2 DEF Items
  <2>5. CASE Reaches(l, n) /\ l = Layers /\ ~serving
    <3>1. /\ queue' = q /\ Reply(Clients(Flatten(Append(batch[l], item))) \union {}, "dropped")
          /\ batch' = [batch EXCEPT ![l] = <<>>]
        BY <1>6, <2>5 DEF AddToBatch, Flush, NewBatch
    <3>2. Reply(Held(d[l]), "dropped")
      <4>1. Clients(Flatten(d[l])) = Held(d[l])
          BY <2>4, HeldIs
      <4>2. Clients(Flatten(Append(batch[l], item))) \union {} = Held(d[l])
          BY <2>3, <4>1
      <4> QED
          BY <3>1, <4>2
    <3>3. Discards(d, batch', l)
        BY <1>1, <2>3, <3>1 DEF Discards
    <3> HIDE DEF q, d
    <3>4. Pipe(q, batch', entry, B)
          /\ \A x : x \in Crowd(q, batch', entry) <=> x \in Crowd(q, d, entry) /\ x \notin Held(d[l])
        BY <2>2, <3>3, PipeDropBatch
    <3>5. Held(d[l]) \subseteq Crowd(q, d, entry)
        BY <2>2, PipeParts
    <3>6. Leaves(Held(d[l]), B)
        BY <1>2, <2>2, <3>1, <3>4, <3>5 DEF Leaves
    <3> QED
        BY <3>2, <3>6
  <2>6. CASE Reaches(l, n) /\ ~(l = Layers /\ ~serving)
    <3>1. /\ queue' = [q EXCEPT ![c] = Append(@, Batched(Append(batch[l], item)))] /\ answer' = answer
          /\ batch' = [batch EXCEPT ![l] = <<>>]
        BY <1>6, <2>6 DEF AddToBatch, Flush, NewBatch
    <3>2. /\ queue'[c] = Append(q[c], Batched(d[l])) /\ batch'[l] = <<>>
          /\ (\A i \in Channel \ {c} : queue'[i] = q[i]) /\ \A m \in Layer \ {l} : batch'[m] = d[m]
        BY <1>1, <2>3, <3>1
    <3> HIDE DEF q, d
    <3>3. Sends(q, d, queue', batch', l, c)
        BY <2>4, <3>2 DEF Sends
    <3> HIDE DEF c
    <3>4. Pipe(queue', batch', entry, B) /\ Crowd(queue', batch', entry) = Crowd(q, d, entry)
        BY <1>1, <2>2, <3>3, PipeFlush
    <3>5. Leaves({}, B)
        BY <1>2, <2>2, <3>4 DEF Leaves
    <3> QED
        BY <1>3, <3>1, <3>5
  <2>7. CASE ~Reaches(l, n)
    <3>1. queue' = q /\ batch' = d /\ answer' = answer
        BY <1>6, <2>7 DEF AddToBatch
    <3> HIDE DEF q, d
    <3>2. Leaves({}, B)
        BY <1>2, <2>2, <3>1 DEF Leaves
    <3> QED
        BY <1>3, <3>1, <3>2
  <2> QED
      BY <2>5, <2>6, <2>7
<1> QED
    BY <1>5, <1>6

\* check_and_flush_batch.
LEMMA FlushLeaves ==
    ASSUME NEW B, Irreflexive(B), Bounded, Pipe(queue, batch, entry, B), NEW l \in Layer, CheckAndFlush(l)
    PROVE  \E D : Leaves(D, B) /\ Reply(D, "dropped")
<1> DEFINE c == l + 1
<1>1. /\ queue \in [Channel -> Items] /\ batch \in [Layer -> Items] /\ answer \in [Proposals -> Answers]
      /\ c \in Channel
    BY BatchAssumption DEF Bounded, TypeOK, Layer, Channel, Answers
<1>2. batch[l] # <<>> /\ entry' = entry /\ batch' = [batch EXCEPT ![l] = <<>>]
    BY DEF CheckAndFlush, NewBatch
<1>3. answer' = answer => Reply({}, "dropped")
    BY <1>1 DEF Reply
<1>4. CASE l = Layers /\ ~serving
  <2>1. queue' = queue /\ Reply(Clients(Flatten(batch[l])) \union {}, "dropped")
      BY <1>4 DEF CheckAndFlush, Flush
  <2>2. Reply(Held(batch[l]), "dropped")
    <3>1. Clients(Flatten(batch[l])) = Held(batch[l])
        BY <1>1, HeldIs
    <3>2. Clients(Flatten(batch[l])) \union {} = Held(batch[l])
        BY <3>1
    <3> QED
        BY <2>1, <3>2
  <2>3. Discards(batch, batch', l)
      BY <1>1, <1>2 DEF Discards
  <2>4. Pipe(queue, batch', entry, B)
        /\ \A x : x \in Crowd(queue, batch', entry) <=> x \in Crowd(queue, batch, entry) /\ x \notin Held(batch[l])
      BY <2>3, PipeDropBatch
  <2>5. Held(batch[l]) \subseteq Crowd(queue, batch, entry)
      BY PipeParts
  <2>6. Leaves(Held(batch[l]), B)
      BY <1>2, <2>1, <2>4, <2>5 DEF Leaves
  <2> QED
      BY <2>2, <2>6
<1>5. CASE ~(l = Layers /\ ~serving)
  <2>1. queue' = [queue EXCEPT ![c] = Append(@, Batched(batch[l]))] /\ answer' = answer
      BY <1>5 DEF CheckAndFlush, Flush
  <2>2. Sends(queue, batch, queue', batch', l, c)
      BY <1>1, <1>2, <2>1 DEF Sends
  <2> HIDE DEF c
  <2>3. Pipe(queue', batch', entry, B) /\ Crowd(queue', batch', entry) = Crowd(queue, batch, entry)
      BY <1>1, <2>2, PipeFlush
  <2>4. Leaves({}, B)
      BY <1>2, <2>3 DEF Leaves
  <2> QED
      BY <1>3, <2>1, <2>4
<1> QED
    BY <1>4, <1>5

\* The RaftManager's channel, and the types of what it works on.
LEMMA ManagerTypes ==
    ASSUME Bounded
    PROVE  /\ queue \in [Channel -> Items] /\ entry \in Items /\ answer \in [Proposals -> Answers]
           /\ Layers + 1 \in Channel /\ Proposed \in Items
<1>1. Layers + 1 \in Channel
    BY BatchAssumption DEF Channel
<1> QED
    BY <1>1 DEF Bounded, TypeOK, Answers, Proposed

\* handle_proposal: nobody leaves.
LEMMA HandleLeaves ==
    ASSUME NEW B, Bounded, Pipe(queue, batch, entry, B), HandleProposal
    PROVE  Leaves({}, B)
<1> DEFINE c == Layers + 1
<1>1. queue \in [Channel -> Items] /\ c \in Channel
    BY ManagerTypes
<1>2. /\ queue[c] # <<>> /\ entry' = Append(entry, Head(queue[c])) /\ batch' = batch
      /\ queue' = [queue EXCEPT ![c] = Tail(@)]
    BY DEF HandleProposal, Proposed
<1>3. Proposes(queue, entry, queue', entry', c)
    BY <1>1, <1>2 DEF Proposes
<1> HIDE DEF c
<1>4. Pipe(queue', batch, entry', B) /\ Crowd(queue', batch, entry') = Crowd(queue, batch, entry)
    BY <1>1, <1>3, PipeHandle
<1> QED
    BY <1>2, <1>4 DEF Leaves

\* NotLeader: the clients of the first proposal leave.
LEMMA RefuseLeaves ==
    ASSUME NEW B, Irreflexive(B), Bounded, Pipe(queue, batch, entry, B), RefuseProposal
    PROVE  Leaves(Clients(Head(Proposed)), B)
<1> DEFINE c == Layers + 1
<1>1. queue \in [Channel -> Items] /\ c \in Channel
    BY ManagerTypes
<1>2. /\ queue[c] # <<>> /\ entry' = entry /\ batch' = batch
      /\ queue' = [queue EXCEPT ![c] = Tail(@)]
    BY DEF RefuseProposal, Proposed
<1>3. Skips(queue, queue', c)
    BY <1>1, <1>2 DEF Skips
<1>4. Lined(queue[c], B) /\ Held(queue[c]) \subseteq Crowd(queue, batch, entry)
    BY <1>1, PipeParts
<1> HIDE DEF c
<1>5. Clients(Head(queue[c])) \subseteq Crowd(queue, batch, entry)
    BY <1>2, <1>4, LinedTail
<1>6. Pipe(queue', batch, entry, B)
      /\ \A x : x \in Crowd(queue', batch, entry) <=> x \in Crowd(queue, batch, entry) /\ x \notin Clients(Head(queue[c]))
    BY <1>1, <1>3, PipeDropFirst
<1>7. Leaves(Clients(Head(queue[c])), B)
    BY <1>2, <1>5, <1>6, Zenon DEF Leaves
<1> QED
    BY <1>7 DEF Proposed, c

\* The first entry is done with: its clients leave.
LEMMA EntryLeaves ==
    ASSUME NEW B, Irreflexive(B), Pipe(queue, batch, entry, B), entry # <<>>,
           entry' = Tail(entry), UNCHANGED <<queue, batch>>
    PROVE  Leaves(Clients(Head(entry)), B)
<1>1. Clients(Head(entry)) \subseteq Crowd(queue, batch, entry)
    BY PipeFront
<1>2. Pipe(queue, batch, entry', B)
      /\ \A x : x \in Crowd(queue, batch, entry') <=> x \in Crowd(queue, batch, entry) /\ x \notin Clients(Head(entry))
    BY PipeDropEntry
<1> QED
    BY <1>1, <1>2 DEF Leaves

\* The clients of two queues.
LEMMA HeldConcat ==
    ASSUME NEW s \in Items, NEW t \in Items
    PROVE  s \o t \in Items /\ Held(s \o t) = Held(s) \union Held(t)
<1>1. s \in Seq(Seq(Seq(Proposals))) /\ t \in Seq(Seq(Seq(Proposals)))
    BY DEF Items
<1>2. /\ s \o t \in Seq(Seq(Seq(Proposals)))
      /\ \A x : x \in Range(s \o t) <=> x \in Range(s) \/ x \in Range(t)
    BY <1>1, ChainConcat, Zenon
<1>3. ASSUME NEW u \in Seq(Seq(Seq(Proposals))), NEW p
      PROVE  p \in Held(u) <=> p \in Proposals /\ \E x \in Range(u) : p \in Clients(x)
    BY Elements DEF Held
<1> QED
    BY <1>1, <1>2, <1>3 DEF Items

\* Stop: the clients of the log and of the channel leave.
LEMMA StopLeaves ==
    ASSUME NEW B, Irreflexive(B), Bounded, Pipe(queue, batch, entry, B), Stop
    PROVE  /\ Leaves(Held(entry) \union Held(Proposed), B)
           /\ Reply(Held(entry) \union Held(Proposed), "dropped")
<1> DEFINE c == Layers + 1
           D == Held(entry) \union Held(queue[c])
<1>1. queue \in [Channel -> Items] /\ c \in Channel /\ entry \in Items /\ queue[c] \in Items
    BY ManagerTypes
<1>2. /\ queue' = [queue EXCEPT ![c] = <<>>] /\ entry' = <<>> /\ batch' = batch
      /\ Reply(Clients(Flatten(entry \o queue[c])), "dropped")
    BY DEF Stop, Proposed
<1>3. Clients(Flatten(entry \o queue[c])) = D
  <2>1. entry \o queue[c] \in Items /\ Held(entry \o queue[c]) = D
      BY <1>1, HeldConcat
  <2> QED
      BY <2>1, HeldIs
<1>4. Closes(queue, queue', c)
    BY <1>1, <1>2 DEF Closes
<1> HIDE DEF c
<1>5. Pipe(queue', batch, entry, B)
      /\ \A x : x \in Crowd(queue', batch, entry) <=> x \in Crowd(queue, batch, entry) /\ x \notin Held(queue[c])
    BY <1>1, <1>4, PipeDropChannel
<1>6. Pipe(queue', batch, entry', B)
      /\ \A x : x \in Crowd(queue', batch, entry') <=> x \in Crowd(queue', batch, entry) /\ x \notin Held(entry)
    BY <1>2, <1>5, PipeDropLog
<1>7. D \subseteq Crowd(queue, batch, entry)
    BY <1>1, PipeParts
<1>8. Leaves(D, B)
    BY <1>2, <1>5, <1>6, <1>7 DEF Leaves
<1>9. D = Held(entry) \union Held(Proposed)
    BY DEF Proposed, c
<1> HIDE DEF D
<1> QED
    BY <1>2, <1>3, <1>8, <1>9

-----------------------------------------------------------------------------
\* The inductive invariant.

\* The clients of the parts of the first entry that were committed.
Committing(e, d) == {p \in Proposals : \E k \in 1..d : p \in Range(Head(e)[k])}

\* No client sends twice, and who has not sent has no answer.
SendingOnce ==
    Chain(sent, Distinct) /\ \A p \in Proposals : p \in Range(sent) => answer[p] # "none"
\* Channels, batches and log hold the waiting clients in the order they sent.
WaitingInLine ==
    /\ Pipe(queue, batch, entry, SentBefore(sent))
    /\ \A p : p \in Crowd(queue, batch, entry) <=> p \in Proposals /\ answer[p] = "waiting"
    /\ Crowd(queue, batch, entry) \subseteq Range(sent)
\* What was applied was sent, and stands in that order.
AppliedInLine ==
    /\ Range(applied) \subseteq Range(sent) /\ Chain(applied, SentBefore(sent))
    /\ \A p \in Proposals : answer[p] = "ok" => p \in Range(applied)
\* What was applied was sent before what is waited for, but for the parts of the
\* entry that is being applied.
AheadOfLine ==
    /\ IF entry = <<>> THEN done = 0 ELSE done < Len(Head(entry))
    /\ Committing(entry, done) \subseteq Range(applied)
    /\ \A p \in Range(applied), q \in Crowd(queue, batch, entry) :
         q \in Committing(entry, done) \/ <<p, q>> \in SentBefore(sent)

\* The inductive invariant.
BatchInv == Bounded /\ SendingOnce /\ WaitingInLine /\ AppliedInLine /\ AheadOfLine

\* A sound proposal has a part.
LEMMA SoundLen ==
    ASSUME NEW B, NEW item, Sound(item, B)
    PROVE  Len(item) \in Nat /\ 0 < Len(item)
    BY DEF Sound

\* Nothing is committed of an entry that apply_entry has not begun with.
LEMMA CommittingNone ==
    ASSUME NEW e
    PROVE  Committing(e, 0) = {}
    BY DEF Committing

\* The parts committed so far are parts of the entry.
LEMMA CommittingIn ==
    ASSUME NEW B, NEW e, e # <<>>, Sound(Head(e), B), NEW d \in Nat, d < Len(Head(e))
    PROVE  Committing(e, d) \subseteq Clients(Head(e))
<1>1. Head(e) \in Seq(Seq(Proposals)) /\ Len(Head(e)) \in Nat
    BY DEF Sound
<1>2. \A k \in 1..d : k \in 1..Len(Head(e))
    BY <1>1
<1> QED
    BY <1>1, <1>2, ItemClients DEF Committing

\* It holds at the start.
LEMMA BatchInit == Init => BatchInv
<1> SUFFICES ASSUME Init PROVE BatchInv
    OBVIOUS
<1>1. Bounded
    BY BoundedInit
<1>2. sent = <<>> /\ applied = <<>> /\ entry = <<>> /\ done = 0 /\ answer = [p \in Proposals |-> "none"]
      /\ (\A c \in Channel : queue[c] = <<>>) /\ \A l \in Layer : batch[l] = <<>>
    BY DEF Init
<1>3. <<>> \in Seq(Proposals) /\ Len(<<>>) = 0 /\ 1..0 = {}
    OBVIOUS
<1>4. Range(sent) = {} /\ Range(applied) = {}
    BY <1>2, <1>3, Elements
<1>5. Chain(<<>>, Distinct) /\ Chain(<<>>, SentBefore(sent))
    BY <1>3 DEF Chain
<1>6. Pipe(queue, batch, entry, SentBefore(sent)) /\ Crowd(queue, batch, entry) = {}
    BY <1>2, PipeEmpty
<1>7. SendingOnce
    BY <1>2, <1>4, <1>5 DEF SendingOnce
<1>8. WaitingInLine
    BY <1>2, <1>6 DEF WaitingInLine
<1>9. AppliedInLine
    BY <1>2, <1>4, <1>5 DEF AppliedInLine
<1>10. AheadOfLine
    BY <1>2, <1>4, CommittingNone DEF AheadOfLine
<1> QED
    BY <1>1, <1>7, <1>8, <1>9, <1>10 DEF BatchInv

\* A step by which clients leave, told that they failed, or by which nobody does.
LEMMA LeavingKeeps ==
    ASSUME BatchInv, Bounded', NEW D, NEW r \in {"error", "dropped"}, Leaves(D, SentBefore(sent)), Reply(D, r),
           UNCHANGED <<sent, applied>>,
           IF entry' = <<>> THEN done' = 0 ELSE done' < Len(Head(entry')),
           Committing(entry', done') \subseteq Committing(entry, done),
           \A p \in Committing(entry, done) : p \in Committing(entry', done') \/ p \in D
    PROVE  BatchInv'
<1>1. answer \in [Proposals -> Answers]
      /\ \A p \in Proposals : answer'[p] = IF p \in D THEN r ELSE answer[p]
    BY DEF BatchInv, Bounded, TypeOK, Answers, Reply
<1>2. /\ Pipe(queue', batch', entry', SentBefore(sent'))
      /\ \A p : p \in Crowd(queue', batch', entry') <=> p \in Crowd(queue, batch, entry) /\ p \notin D
      /\ D \subseteq Crowd(queue, batch, entry) /\ sent' = sent /\ applied' = applied
    BY DEF Leaves
<1>3. SendingOnce'
    BY <1>1, <1>2 DEF BatchInv, SendingOnce
<1>4. WaitingInLine'
  <2>1. \A p : p \in Crowd(queue', batch', entry') <=> p \in Proposals /\ answer'[p] = "waiting"
      BY <1>1, <1>2 DEF BatchInv, WaitingInLine
  <2>2. Crowd(queue', batch', entry') \subseteq Range(sent')
      BY <1>2 DEF BatchInv, WaitingInLine
  <2> QED
      BY <1>2, <2>1, <2>2 DEF WaitingInLine
<1>5. AppliedInLine'
    BY <1>1, <1>2 DEF BatchInv, AppliedInLine
<1>6. AheadOfLine'
  <2>1. ASSUME NEW p \in Range(applied), NEW q \in Crowd(queue', batch', entry')
        PROVE  q \in Committing(entry', done') \/ <<p, q>> \in SentBefore(sent)
      BY <1>2 DEF BatchInv, AheadOfLine
  <2>2. Committing(entry', done') \subseteq Range(applied)
      BY DEF BatchInv, AheadOfLine
  <2> QED
      BY <1>2, <2>1, <2>2 DEF AheadOfLine
<1> QED
    BY <1>3, <1>4, <1>5, <1>6 DEF BatchInv

\* What the invariant says of the pipeline.
LEMMA LineFacts ==
    ASSUME BatchInv
    PROVE  /\ Bounded /\ Pipe(queue, batch, entry, SentBefore(sent)) /\ Irreflexive(SentBefore(sent))
           /\ sent \in Seq(Proposals) /\ applied \in Seq(Proposals) /\ entry \in Items /\ done \in Nat
           /\ answer \in [Proposals -> Answers] /\ queue \in [Channel -> Items] /\ serving \in BOOLEAN
           /\ aged \in [Layer -> BOOLEAN]
<1>1. /\ Bounded /\ Pipe(queue, batch, entry, SentBefore(sent)) /\ Chain(sent, Distinct)
    BY DEF BatchInv, WaitingInLine, SendingOnce
<1>2. /\ sent \in Seq(Proposals) /\ applied \in Seq(Proposals) /\ entry \in Items /\ done \in Nat
      /\ answer \in [Proposals -> Answers] /\ queue \in [Channel -> Items] /\ serving \in BOOLEAN
      /\ aged \in [Layer -> BOOLEAN]
    BY <1>1 DEF Bounded, TypeOK, Answers
<1> QED
    BY <1>1, <1>2, OrderIrreflexive

\* The batch processors.
LEMMA LayerKeeps ==
    ASSUME BatchInv, NEW l \in Layer, AddToBatch(l) \/ Age(l) \/ CheckAndFlush(l)
    PROVE  BatchInv'
<1>1. UNCHANGED <<sent, entry, done, applied>>
    BY DEF AddToBatch, Age, CheckAndFlush
<1>2. IF entry' = <<>> THEN done' = 0 ELSE done' < Len(Head(entry'))
    BY <1>1 DEF BatchInv, AheadOfLine
<1>3. Committing(entry', done') = Committing(entry, done)
    BY <1>1
<1>4. ASSUME Bounded', NEW D, Leaves(D, SentBefore(sent)), Reply(D, "dropped") PROVE BatchInv'
    BY <1>1, <1>2, <1>3, <1>4, LeavingKeeps
<1>5. CASE AddToBatch(l)
  <2>1. Bounded'
      BY <1>5, LineFacts, BoundedAdd
  <2>2. PICK D : Leaves(D, SentBefore(sent)) /\ Reply(D, "dropped")
      BY <1>5, LineFacts, AddLeaves
  <2> QED
      BY <1>4, <2>1, <2>2
<1>6. CASE CheckAndFlush(l)
  <2>1. Bounded'
      BY <1>6, LineFacts, BoundedFlush
  <2>2. PICK D : Leaves(D, SentBefore(sent)) /\ Reply(D, "dropped")
      BY <1>6, LineFacts, FlushLeaves
  <2> QED
      BY <1>4, <2>1, <2>2
<1>7. CASE Age(l)
  <2>1. UNCHANGED <<sent, queue, batch, total, entry, done, applied, answer, serving>>
        /\ aged' = [aged EXCEPT ![l] = TRUE]
      BY <1>7 DEF Age
  <2>2. Bounded'
      BY <2>1, LineFacts, BoundedRest
  <2>3. Leaves({}, SentBefore(sent)) /\ Reply({}, "dropped")
      BY <2>1, LineFacts DEF Leaves, Reply
  <2> QED
      BY <1>4, <2>2, <2>3
<1> QED
    BY <1>5, <1>6, <1>7

\* handle_proposal on a leader.
LEMMA HandleKeeps ==
    ASSUME BatchInv, HandleProposal
    PROVE  BatchInv'
<1> DEFINE c == Layers + 1
           x == Head(queue[c])
<1>1. /\ queue[c] # <<>> /\ entry' = Append(entry, x) /\ queue' = [queue EXCEPT ![c] = Tail(@)]
      /\ UNCHANGED <<sent, batch, total, aged, done, applied, answer, serving>>
    BY DEF HandleProposal, Proposed
<1>2. queue[c] \in Seq(Seq(Seq(Proposals))) /\ entry \in Seq(Seq(Seq(Proposals)))
    BY LineFacts, ManagerTypes DEF Items
<1>3. x \in Seq(Seq(Proposals)) /\ Tail(queue[c]) \in Items
    BY <1>1, <1>2 DEF Items
<1>4. entry' \in Items /\ entry' # <<>> /\ (entry # <<>> => Head(entry') = Head(entry))
  <2> HIDE DEF x
  <2> QED
      BY <1>1, <1>2, <1>3 DEF Items
<1>5. queue' \in [Channel -> Items]
    BY <1>1, <1>3, LineFacts
<1>6. Bounded'
    BY <1>1, <1>4, <1>5, LineFacts, BoundedRest
<1>7. Leaves({}, SentBefore(sent)) /\ Reply({}, "error")
    BY <1>1, LineFacts, HandleLeaves DEF Reply
<1>8. Sound(Head(entry'), SentBefore(sent))
  <2>1. Pipe(queue', batch', entry', SentBefore(sent))
      BY <1>7 DEF Leaves
  <2> QED
      BY <1>4, <2>1, PipeFront
<1>9. Len(Head(entry')) \in Nat /\ 0 < Len(Head(entry'))
    BY <1>8, SoundLen
<1>10. done' < Len(Head(entry')) /\ Committing(entry', done') = Committing(entry, done)
  <2>1. CASE entry = <<>>
    <3>1. done = 0
        BY <2>1 DEF BatchInv, AheadOfLine
    <3> QED
        BY <1>1, <1>9, <3>1, CommittingNone
  <2>2. CASE entry # <<>>
    <3>1. done < Len(Head(entry))
        BY <2>2 DEF BatchInv, AheadOfLine
    <3> QED
        BY <1>1, <1>4, <2>2, <3>1 DEF Committing
  <2> QED
      BY <2>1, <2>2
<1> QED
    BY <1>1, <1>4, <1>6, <1>7, <1>10, LeavingKeeps

\* handle_proposal on a node that is not leader.
LEMMA RefuseKeeps ==
    ASSUME BatchInv, RefuseProposal
    PROVE  BatchInv'
<1> DEFINE c == Layers + 1
<1>1. /\ queue[c] # <<>> /\ queue' = [queue EXCEPT ![c] = Tail(@)] /\ Reply(Clients(Head(Proposed)), "error")
      /\ UNCHANGED <<sent, batch, total, aged, entry, done, applied, serving>>
    BY DEF RefuseProposal, Proposed
<1>2. queue[c] \in Seq(Seq(Seq(Proposals)))
    BY LineFacts, ManagerTypes DEF Items
<1>3. Tail(queue[c]) \in Items
    BY <1>1, <1>2 DEF Items
<1>4. queue' \in [Channel -> Items]
    BY <1>1, <1>3, LineFacts
<1>5. answer' \in [Proposals -> Answers]
    BY <1>1, LineFacts, ReplyType DEF Answers, Bounded
<1>6. Bounded'
    BY <1>1, <1>4, <1>5, LineFacts, BoundedRest
<1>7. Leaves(Clients(Head(Proposed)), SentBefore(sent))
    BY LineFacts, RefuseLeaves
<1>8. IF entry' = <<>> THEN done' = 0 ELSE done' < Len(Head(entry'))
    BY <1>1 DEF BatchInv, AheadOfLine
<1>9. Committing(entry', done') = Committing(entry, done)
    BY <1>1
<1> HIDE DEF c
<1> QED
    BY <1>1, <1>6, <1>7, <1>8, <1>9, LeavingKeeps

\* The first entry leaves the log.
LEMMA NextEntry ==
    ASSUME BatchInv, entry # <<>>, entry' = Tail(entry), done' = 0, UNCHANGED <<queue, batch, sent>>
    PROVE  /\ entry' \in Items /\ Leaves(Clients(Head(entry)), SentBefore(sent))
           /\ IF entry' = <<>> THEN done' = 0 ELSE done' < Len(Head(entry'))
           /\ Committing(entry', done') = {} /\ Committing(entry, done) \subseteq Clients(Head(entry))
<1>1. entry \in Seq(Seq(Seq(Proposals)))
    BY LineFacts DEF Items
<1>2. entry' \in Items
    BY <1>1 DEF Items
<1>3. Leaves(Clients(Head(entry)), SentBefore(sent))
    BY LineFacts, EntryLeaves
<1>4. ASSUME entry' # <<>> PROVE 0 < Len(Head(entry'))
  <2>1. Pipe(queue', batch', entry', SentBefore(sent))
      BY <1>3 DEF Leaves
  <2>2. Sound(Head(entry'), SentBefore(sent))
      BY <1>4, <2>1, PipeFront
  <2> QED
      BY <2>2, SoundLen
<1>5. Committing(entry, done) \subseteq Clients(Head(entry))
  <2>1. Sound(Head(entry), SentBefore(sent))
      BY LineFacts, PipeFront
  <2>2. done < Len(Head(entry)) /\ done \in Nat
      BY LineFacts DEF BatchInv, AheadOfLine
  <2> QED
      BY <2>1, <2>2, CommittingIn
<1> QED
    BY <1>2, <1>3, <1>4, <1>5, CommittingNone

\* apply_entry fails.
LEMMA ErrorKeeps ==
    ASSUME BatchInv, ApplyError
    PROVE  BatchInv'
<1>1. /\ entry # <<>> /\ entry' = Tail(entry) /\ done' = 0 /\ Reply(Clients(Head(entry)), "error")
      /\ UNCHANGED <<sent, queue, batch, total, aged, applied, serving>>
    BY DEF ApplyError
<1>2. /\ entry' \in Items /\ Leaves(Clients(Head(entry)), SentBefore(sent))
      /\ IF entry' = <<>> THEN done' = 0 ELSE done' < Len(Head(entry'))
      /\ Committing(entry', done') = {} /\ Committing(entry, done) \subseteq Clients(Head(entry))
    BY <1>1, NextEntry
<1>3. answer' \in [Proposals -> Answers]
    BY <1>1, LineFacts, ReplyType DEF Answers, Bounded
<1>4. Bounded'
    BY <1>1, <1>2, <1>3, LineFacts, BoundedRest
<1> QED
    BY <1>1, <1>2, <1>4, LeavingKeeps

\* The RaftManager stops.
LEMMA StopKeeps ==
    ASSUME BatchInv, Stop
    PROVE  BatchInv'
<1> DEFINE D == Held(entry) \union Held(Proposed)
<1>1. /\ entry' = <<>> /\ done' = 0 /\ serving' = FALSE /\ queue' = [queue EXCEPT ![Layers + 1] = <<>>]
      /\ UNCHANGED <<sent, batch, total, aged, applied>>
    BY DEF Stop
<1>2. Leaves(D, SentBefore(sent)) /\ Reply(D, "dropped")
    BY LineFacts, StopLeaves
<1>3. <<>> \in Items
    BY DEF Items
<1>4. queue' \in [Channel -> Items]
    BY <1>1, <1>3, LineFacts
<1>5. answer' \in [Proposals -> Answers]
    BY <1>2, LineFacts, ReplyType DEF Answers, Bounded
<1>6. Bounded'
    BY <1>1, <1>3, <1>4, <1>5, LineFacts, BoundedRest
<1>7. Committing(entry, done) \subseteq D
  <2>1. CASE entry = <<>>
    <3>1. done = 0
        BY <2>1 DEF BatchInv, AheadOfLine
    <3> QED
        BY <3>1, CommittingNone
  <2>2. CASE entry # <<>>
    <3>1. Sound(Head(entry), SentBefore(sent)) /\ Lined(entry, SentBefore(sent))
        BY <2>2, LineFacts, PipeFront
    <3>2. done < Len(Head(entry)) /\ done \in Nat
        BY <2>2, LineFacts DEF BatchInv, AheadOfLine
    <3>3. Committing(entry, done) \subseteq Clients(Head(entry))
        BY <2>2, <3>1, <3>2, CommittingIn, Zenon
    <3>4. Clients(Head(entry)) \subseteq Held(entry)
        BY <2>2, <3>1, LinedTail
    <3> QED
        BY <3>3, <3>4
  <2> QED
      BY <2>1, <2>2
<1>8. Committing(entry', done') = {}
    BY <1>1, CommittingNone
<1> HIDE DEF D
<1> QED
    BY <1>1, <1>2, <1>6, <1>7, <1>8, LeavingKeeps

\* The sub-proposal p that apply_entry commits next.
IsNextSub(p) ==
    /\ p \in Proposals /\ applied' = Append(applied, p)
    /\ p \in Clients(Head(entry)) /\ p \in Crowd(queue, batch, entry) /\ p \notin Range(applied)
    /\ \A q \in Range(applied) : <<q, p>> \in SentBefore(sent)
    /\ \A q \in Crowd(queue, batch, entry) :
         q \in Committing(entry, done) \/ q = p \/ <<p, q>> \in SentBefore(sent)
    /\ Committing(entry, done + 1) = Committing(entry, done) \union {p}
    /\ done + 1 = Len(Head(entry)) => Clients(Head(entry)) = Committing(entry, done + 1)

\* It is the first in line that was not applied.
LEMMA NextSub ==
    ASSUME BatchInv, ApplySub
    PROVE  \E p : IsNextSub(p)
<1> DEFINE item == Head(entry)
           k == done + 1
           part == item[k]
           B == SentBefore(sent)
<1>1. entry # <<>> /\ ~IsNested(item, part) /\ applied' = applied \o part
    BY DEF ApplySub
<1>2. /\ Sound(item, B) /\ Clients(item) \subseteq Crowd(queue, batch, entry)
      /\ \A x \in Clients(item), y \in Crowd(queue, batch, entry) \ Clients(item) : <<x, y>> \in B
    BY <1>1, LineFacts, PipeFront
<1>3. done \in Nat /\ done < Len(item) /\ Irreflexive(B) /\ applied \in Seq(Proposals)
    BY <1>1, LineFacts, SMTT(60) DEF BatchInv, AheadOfLine
<1>4. item \in Seq(Seq(Proposals)) /\ Len(item) \in Nat /\ k \in 1..Len(item)
    BY <1>2, <1>3 DEF Sound
<1>5. /\ part \in Seq(Proposals) /\ part # <<>>
      /\ \A j \in 1..Len(item) : j < k => Joins(item[j], part, B)
      /\ \A j \in 1..Len(item) : k < j => Joins(part, item[j], B)
    BY <1>2, <1>4 DEF Sound
<1> HIDE DEF item, k, part, B
<1>6. Len(part) = 1
  <2>1. Len(part) \in Nat /\ Len(part) # 0 /\ ~(Len(part) > 1)
      BY <1>1, <1>5 DEF IsNested
  <2> QED
      BY <2>1
<1> DEFINE p == part[1]
<1>7. part = <<p>> /\ p \in Proposals
    BY <1>5, <1>6
<1>8. Range(part) = {p}
  <2>1. \A x : x \in Range(part) <=> \E i \in 1..1 : x = part[i]
      BY <1>5, <1>6, Elements
  <2> QED
      BY <2>1
<1>9. applied' = Append(applied, p)
    BY <1>1, <1>3, <1>7, Appended
<1> HIDE DEF p
<1>10. p \in Clients(item) /\ \A x : x \in Clients(item) <=> \E j \in 1..Len(item) : x \in Range(item[j])
  <2>1. \A x : x \in Clients(item) <=> \E j \in 1..Len(item) : x \in Range(item[j])
      BY <1>4, ItemClients
  <2>2. p \in Range(item[k])
      BY <1>8 DEF part
  <2> QED
      BY <1>4, <2>1, <2>2
<1>11. \A q : q \in Committing(entry, done) <=> q \in Proposals /\ \E j \in 1..done : q \in Range(item[j])
    BY DEF Committing, item
<1>12. \A j \in 1..Len(item) : j < k <=> j \in 1..done
    BY <1>3, <1>4 DEF k
<1>13. p \notin Committing(entry, done)
  <2> SUFFICES ASSUME p \in Committing(entry, done) PROVE FALSE
      OBVIOUS
  <2>1. PICK j \in 1..done : p \in Range(item[j])
      BY <1>11
  <2>2. j \in 1..Len(item) /\ j < k
      BY <1>3, <1>4 DEF k
  <2>3. <<p, p>> \in B
      BY <1>5, <1>8, <2>1, <2>2 DEF Joins
  <2> QED
      BY <1>3, <2>3 DEF Irreflexive
<1>14. \A q \in Range(applied) : <<q, p>> \in B
    BY <1>2, <1>10, <1>13 DEF BatchInv, AheadOfLine, B
<1>15. p \notin Range(applied)
    BY <1>3, <1>14 DEF Irreflexive
<1>16. ASSUME NEW q \in Crowd(queue, batch, entry)
       PROVE  q \in Committing(entry, done) \/ q = p \/ <<p, q>> \in B
  <2>1. CASE q \notin Clients(item)
      BY <1>2, <1>10, <2>1
  <2>2. CASE q \in Clients(item)
    <3>1. PICK j \in 1..Len(item) : q \in Range(item[j])
        BY <1>10, <2>2
    <3>2. CASE j < k
      <4>1. q \in Proposals
          BY DEF Crowd, Everyone
      <4> QED
          BY <1>11, <1>12, <3>1, <3>2, <4>1
    <3>3. CASE j = k
        BY <1>8, <3>1, <3>3 DEF part
    <3>4. CASE k < j
      <4>1. Joins(part, item[j], B)
          BY <1>5, <3>4
      <4> QED
          BY <1>8, <3>1, <4>1 DEF Joins
    <3> QED
        BY <1>4, <3>2, <3>3, <3>4
  <2> QED
      BY <2>1, <2>2
<1>17. ASSUME NEW q PROVE q \in Committing(entry, k) <=> q \in Committing(entry, done) \/ q = p
  <2>1. q \in Committing(entry, k) <=> q \in Proposals /\ \E j \in 1..k : q \in Range(item[j])
      BY DEF Committing, item
  <2>2. \A j : j \in 1..k <=> j \in 1..done \/ j = k
      BY <1>3 DEF k
  <2>3. q \in Range(item[k]) <=> q = p
      BY <1>8 DEF part
  <2> QED
      BY <1>7, <1>11, <2>1, <2>2, <2>3
<1>18. ASSUME k = Len(item), NEW q PROVE q \in Clients(item) <=> q \in Committing(entry, k)
  <2>1. q \in Committing(entry, k) <=> q \in Proposals /\ \E j \in 1..Len(item) : q \in Range(item[j])
      BY <1>18 DEF Committing, item
  <2>2. Clients(item) \subseteq Proposals
      BY <1>4, ItemClients
  <2> QED
      BY <1>10, <2>1, <2>2
<1>19. k = Len(item) => Clients(item) = Committing(entry, k)
    BY <1>18
<1>20. Committing(entry, k) = Committing(entry, done) \union {p}
    BY <1>17
<1>21. IsNextSub(p)
    BY <1>2, <1>7, <1>9, <1>10, <1>14, <1>15, <1>16, <1>19, <1>20 DEF IsNextSub, item, k, B
<1> QED
    BY <1>21

\* apply_entry commits a sub-proposal, and answers when it was the last one.
LEMMA SubKeeps ==
    ASSUME BatchInv, ApplySub
    PROVE  BatchInv'
<1> DEFINE item == Head(entry)
<1>1. /\ entry # <<>> /\ UNCHANGED <<sent, queue, batch, total, aged, serving>>
      /\ IF done + 1 = Len(item)
         THEN entry' = Tail(entry) /\ done' = 0 /\ Reply(Clients(item), "ok")
         ELSE done' = done + 1 /\ UNCHANGED <<entry, answer>>
    BY DEF ApplySub
<1>2. PICK p : IsNextSub(p)
    BY NextSub
<1>3. p \in Proposals /\ applied' = Append(applied, p) /\ p \in Clients(item) /\ p \in Crowd(queue, batch, entry)
    BY <1>2 DEF IsNextSub
<1>4. applied' \in Seq(Proposals) /\ Range(applied') = Range(applied) \union {p}
    BY <1>3, LineFacts, Appended
<1>5. Chain(applied', SentBefore(sent))
  <2>1. Chain(applied, SentBefore(sent)) /\ \A q \in Range(applied) : <<q, p>> \in SentBefore(sent)
      BY <1>2 DEF BatchInv, AppliedInLine, IsNextSub
  <2> QED
      BY <1>3, <2>1, LineFacts, ChainAppend
<1>6. Range(applied') \subseteq Range(sent)
    BY <1>3, <1>4 DEF BatchInv, AppliedInLine, WaitingInLine
<1>7. done \in Nat /\ done < Len(item) /\ Len(item) \in Nat
  <2>1. Sound(item, SentBefore(sent))
      BY <1>1, LineFacts, PipeFront
  <2> QED
      BY <1>1, <2>1, LineFacts, SoundLen, SMTT(30) DEF BatchInv, AheadOfLine
<1>8. Committing(entry, done + 1) \subseteq Range(applied')
    BY <1>2, <1>4 DEF BatchInv, AheadOfLine, IsNextSub
<1>9. \A x \in Range(applied'), y \in Crowd(queue, batch, entry) :
        y \in Committing(entry, done + 1) \/ <<x, y>> \in SentBefore(sent)
    BY <1>2, <1>4 DEF BatchInv, AheadOfLine, IsNextSub
<1>10. CASE done + 1 = Len(item)
  <2>1. /\ entry' \in Items /\ Leaves(Clients(item), SentBefore(sent))
        /\ IF entry' = <<>> THEN done' = 0 ELSE done' < Len(Head(entry'))
        /\ Committing(entry', done') = {} /\ done' = 0 /\ Reply(Clients(item), "ok")
      BY <1>1, <1>10, NextEntry
  <2>2. /\ Pipe(queue', batch', entry', SentBefore(sent'))
        /\ \A x : x \in Crowd(queue', batch', entry') <=> x \in Crowd(queue, batch, entry) /\ x \notin Clients(item)
        /\ Clients(item) \subseteq Crowd(queue, batch, entry)
      BY <1>1, <2>1 DEF Leaves
  <2>3. Clients(item) = Committing(entry, done + 1)
      BY <1>2, <1>10 DEF IsNextSub
  <2>4. answer' \in [Proposals -> Answers]
        /\ \A x \in Proposals : answer'[x] = IF x \in Clients(item) THEN "ok" ELSE answer[x]
    <3>1. answer' \in [Proposals -> Answers]
        BY <2>1, LineFacts, ReplyType DEF Answers, Bounded
    <3> QED
        BY <2>1, <3>1 DEF Reply
  <2> HIDE DEF item
  <2>5. Bounded'
      BY <1>1, <1>4, <2>1, <2>4, LineFacts, BoundedRest
  <2>6. SendingOnce'
      BY <1>1, <2>4 DEF BatchInv, SendingOnce
  <2>7. WaitingInLine'
    <3>1. \A x : x \in Crowd(queue', batch', entry') <=> x \in Proposals /\ answer'[x] = "waiting"
        BY <2>2, <2>4 DEF BatchInv, WaitingInLine
    <3>2. Crowd(queue', batch', entry') \subseteq Range(sent')
        BY <1>1, <2>2 DEF BatchInv, WaitingInLine
    <3> QED
        BY <2>2, <3>1, <3>2 DEF WaitingInLine
  <2>8. AppliedInLine'
    <3>1. \A x \in Proposals : answer'[x] = "ok" => x \in Range(applied')
        BY <1>4, <1>8, <2>3, <2>4 DEF BatchInv, AppliedInLine
    <3> QED
        BY <1>1, <1>5, <1>6, <3>1 DEF AppliedInLine
  <2>9. AheadOfLine'
    <3>1. \A x \in Range(applied'), y \in Crowd(queue', batch', entry') : <<x, y>> \in SentBefore(sent)
        BY <1>9, <2>2, <2>3
    <3> QED
        BY <1>1, <2>1, <3>1 DEF AheadOfLine
  <2> QED
      BY <2>5, <2>6, <2>7, <2>8, <2>9 DEF BatchInv
<1>11. CASE done + 1 # Len(item)
  <2>1. done' = done + 1 /\ entry' = entry /\ answer' = answer
      BY <1>1, <1>11
  <2>2. done' < Len(Head(entry')) /\ done' \in Nat
      BY <1>7, <1>11, <2>1
  <2>3. Bounded'
      BY <1>1, <1>4, <2>1, <2>2, LineFacts, BoundedRest
  <2>4. SendingOnce' /\ WaitingInLine'
      BY <1>1, <2>1 DEF BatchInv, SendingOnce, WaitingInLine
  <2>5. AppliedInLine'
      BY <1>1, <1>4, <1>5, <1>6, <2>1 DEF BatchInv, AppliedInLine
  <2>6. AheadOfLine'
      BY <1>1, <1>8, <1>9, <2>1, <2>2 DEF AheadOfLine
  <2> QED
      BY <2>3, <2>4, <2>5, <2>6 DEF BatchInv
<1> QED
    BY <1>10, <1>11

\* send_raft_proposal.
LEMMA SubmitKeeps ==
    ASSUME BatchInv, NEW p \in Proposals, Submit(p)
    PROVE  BatchInv'
<1>1. /\ answer[p] = "none" /\ UNCHANGED <<batch, total, aged, entry, done, applied, serving>>
      /\ \/ Reply({p}, "error") /\ UNCHANGED <<sent, queue>>
         \/ /\ Reply({p}, "waiting") /\ sent' = Append(sent, p)
            /\ queue' = [queue EXCEPT ![1] = Append(@, Plain(p))]
    BY DEF Submit
<1>2. p \notin Range(sent) /\ p \notin Crowd(queue, batch, entry)
    BY <1>1 DEF BatchInv, SendingOnce, WaitingInLine
<1>3. CASE Reply({p}, "error") /\ UNCHANGED <<sent, queue>>
  <2>1. answer' \in [Proposals -> Answers] /\ \A x \in Proposals : answer'[x] = IF x = p THEN "error" ELSE answer[x]
    <3>1. answer' \in [Proposals -> Answers]
        BY <1>3, LineFacts, ReplyType DEF Answers, Bounded
    <3> QED
        BY <1>3, <3>1 DEF Reply
  <2>2. Bounded'
      BY <1>1, <1>3, <2>1, LineFacts, BoundedRest
  <2>3. SendingOnce'
      BY <1>3, <2>1 DEF BatchInv, SendingOnce
  <2>4. WaitingInLine'
      BY <1>1, <1>2, <1>3, <2>1 DEF BatchInv, WaitingInLine
  <2>5. AppliedInLine'
      BY <1>1, <1>3, <2>1 DEF BatchInv, AppliedInLine
  <2>6. AheadOfLine'
      BY <1>1, <1>3 DEF BatchInv, AheadOfLine
  <2> QED
      BY <2>2, <2>3, <2>4, <2>5, <2>6 DEF BatchInv
<1>4. CASE /\ Reply({p}, "waiting") /\ sent' = Append(sent, p)
           /\ queue' = [queue EXCEPT ![1] = Append(@, Plain(p))]
  <2>1. answer' \in [Proposals -> Answers] /\ \A x \in Proposals : answer'[x] = IF x = p THEN "waiting" ELSE answer[x]
    <3>1. answer' \in [Proposals -> Answers]
        BY <1>4, LineFacts, ReplyType DEF Answers, Bounded
    <3> QED
        BY <1>4, <3>1 DEF Reply
  <2>2. sent' \in Seq(Proposals) /\ Range(sent') = Range(sent) \union {p}
      BY <1>4, LineFacts, Appended
  <2>3. 1 \in Channel /\ queue[1] \in Seq(Seq(Seq(Proposals))) /\ Plain(p) \in Seq(Seq(Proposals))
    <3>1. 1 \in Channel
        BY BatchAssumption DEF Channel
    <3>2. Plain(p) \in Seq(Seq(Proposals))
        BY DEF Plain
    <3> QED
        BY <3>1, <3>2, LineFacts DEF Items
  <2>4. queue' \in [Channel -> Items] /\ queue'[1] = Append(queue[1], Plain(p))
        /\ \A i \in Channel \ {1} : queue'[i] = queue[i]
    <3>1. Append(queue[1], Plain(p)) \in Items
        BY <2>3 DEF Items
    <3> QED
        BY <1>4, <2>3, <3>1, LineFacts
  <2>5. Bounded'
      BY <1>1, <2>1, <2>2, <2>4, LineFacts, BoundedRest
  <2>6. /\ SentBefore(sent) \subseteq SentBefore(sent')
        /\ \A x \in Range(sent) : <<x, p>> \in SentBefore(sent')
      BY <1>4, LineFacts, OrderAppend
  <2>7. Chain(sent', Distinct)
    <3>1. \A x \in Range(sent) : <<x, p>> \in Distinct
      <4>1. Range(sent) \subseteq Proposals
          BY LineFacts, Elements
      <4> QED
          BY <1>2, <4>1, OrderIs
    <3>2. Chain(sent, Distinct)
        BY DEF BatchInv, SendingOnce
    <3> QED
        BY <1>4, <3>1, <3>2, LineFacts, ChainAppend
  <2>8. SendingOnce'
      BY <2>1, <2>2, <2>7 DEF BatchInv, SendingOnce
  <2>9. /\ Pipe(queue', batch, entry, SentBefore(sent'))
        /\ \A x : x \in Crowd(queue', batch, entry) <=> x \in Crowd(queue, batch, entry) \/ x = p
    <3>1. \A x \in Crowd(queue, batch, entry) : <<x, p>> \in SentBefore(sent')
        BY <2>6 DEF BatchInv, WaitingInLine
    <3>2. Receives(queue, queue', p)
        BY <2>4 DEF Receives
    <3>3. Pipe(queue, batch, entry, SentBefore(sent'))
        BY <2>6, LineFacts, PipeMono, SMTT(30)
    <3> QED
        BY <3>1, <3>2, <3>3, PipeEnter
  <2>10. WaitingInLine'
      BY <1>1, <1>2, <2>1, <2>2, <2>9 DEF BatchInv, WaitingInLine
  <2>11. AppliedInLine'
    <3>1. Chain(applied, SentBefore(sent'))
        BY <2>6, ChainMono DEF BatchInv, AppliedInLine
    <3> QED
        BY <1>1, <2>1, <2>2, <3>1 DEF BatchInv, AppliedInLine
  <2>12. AheadOfLine'
    <3>1. ASSUME NEW x \in Range(applied), NEW y \in Crowd(queue', batch, entry)
          PROVE  y \in Committing(entry, done) \/ <<x, y>> \in SentBefore(sent')
      <4>1. x \in Range(sent)
          BY DEF BatchInv, AppliedInLine
      <4>2. CASE y = p
          BY <2>6, <4>1, <4>2
      <4>3. CASE y \in Crowd(queue, batch, entry)
          BY <2>6, <4>3 DEF BatchInv, AheadOfLine
      <4> QED
          BY <2>9, <4>2, <4>3
    <3> QED
        BY <1>1, <3>1 DEF BatchInv, AheadOfLine
  <2> QED
      BY <2>5, <2>8, <2>10, <2>11, <2>12 DEF BatchInv
<1> QED
    BY <1>1, <1>3, <1>4

\* Every step keeps the invariant.
LEMMA BatchStep == BatchInv /\ [Next]_vars => BatchInv'
<1> SUFFICES ASSUME BatchInv, [Next]_vars PROVE BatchInv'
    OBVIOUS
<1>1. ASSUME UNCHANGED vars PROVE BatchInv'
  <2>1. UNCHANGED <<sent, queue, batch, total, aged, entry, done, applied, answer, serving>>
      BY <1>1 DEF vars
  <2>2. Bounded'
      BY <2>1, LineFacts, BoundedRest, SMTT(30)
  <2>3. (SendingOnce /\ WaitingInLine /\ AppliedInLine /\ AheadOfLine)'
      BY <2>1 DEF BatchInv, SendingOnce, WaitingInLine, AppliedInLine, AheadOfLine
  <2> QED
      BY <2>2, <2>3 DEF BatchInv
<1> QED
    BY <1>1, SubmitKeeps, LayerKeeps, HandleKeeps, RefuseKeeps, SubKeeps, ErrorKeeps, StopKeeps DEF Next

\* The invariant holds in every state of the system.
THEOREM PipelineInvariant == Spec => []BatchInv
    BY BatchInit, BatchStep, PTL DEF Spec

-----------------------------------------------------------------------------
\* What the invariant implies.

\* Different clients, either way.
LEMMA DistinctSymmetric ==
    ASSUME NEW p, NEW q, <<p, q>> \in Distinct
    PROVE  <<q, p>> \in Distinct
    BY OrderIs

\* How often a client stands in a sequence of different ones.
LEMMA CountOfDistinct ==
    ASSUME NEW s \in Seq(Proposals), Chain(s, Distinct), NEW p
    PROVE  Cardinality({i \in 1..Len(s) : s[i] = p}) = IF p \in Range(s) THEN 1 ELSE 0
<1> DEFINE I == {i \in 1..Len(s) : s[i] = p}
<1>1. p \in Range(s) <=> \E i \in 1..Len(s) : p = s[i]
    BY Elements
<1>2. CASE p \notin Range(s)
  <2>1. I = {}
      BY <1>1, <1>2
  <2> QED
      BY <1>2, <2>1, FS_EmptySet
<1>3. CASE p \in Range(s)
  <2>1. PICK i \in 1..Len(s) : p = s[i]
      BY <1>1, <1>3
  <2>2. ASSUME NEW j \in I, j # i PROVE FALSE
    <3>1. j \in 1..Len(s) /\ s[j] = p /\ (i < j \/ j < i)
        BY <2>2
    <3>2. <<p, p>> \in Distinct
        BY <2>1, <3>1 DEF Chain
    <3> QED
        BY <3>2, OrderIs
  <2>3. I = {i}
      BY <2>1, <2>2
  <2> HIDE DEF I
  <2>4. Cardinality(I) = 1
      BY <2>3, FS_Singleton
  <2> QED
      BY <1>3, <2>4 DEF I
<1> QED
    BY <1>2, <1>3

\* Proposals whose clients stand in the order B.
ItemsOrder(B) ==
    {x \in Seq(Seq(Proposals)) \X Seq(Seq(Proposals)) :
        \A p \in Clients(x[1]), q \in Clients(x[2]) : <<p, q>> \in B}

\* Its members.
LEMMA ItemsOrderIs ==
    ASSUME NEW B, NEW x \in Seq(Seq(Proposals)), NEW y \in Seq(Seq(Proposals))
    PROVE  <<x, y>> \in ItemsOrder(B) <=> \A p \in Clients(x), q \in Clients(y) : <<p, q>> \in B
<1>1. <<x, y>>[1] = x /\ <<x, y>>[2] = y
    OBVIOUS
<1> QED
    BY <1>1 DEF ItemsOrder

\* A queue in line is a chain of proposals.
LEMMA LinedIsChain ==
    ASSUME NEW B, NEW s \in Items
    PROVE  Lined(s, B) <=> Chain(s, ItemsOrder(B)) /\ \A x \in Range(s) : Sound(x, B)
<1>1. s \in Seq(Seq(Seq(Proposals))) /\ \A i \in 1..Len(s) : s[i] \in Seq(Seq(Proposals))
    BY DEF Items
<1>2. \A x : x \in Range(s) <=> \E i \in 1..Len(s) : x = s[i]
    BY <1>1, Elements
<1>3. \A i, j \in 1..Len(s) :
        <<s[i], s[j]>> \in ItemsOrder(B) <=> \A p \in Clients(s[i]), q \in Clients(s[j]) : <<p, q>> \in B
    BY <1>1, ItemsOrderIs
<1>4. ASSUME Lined(s, B) PROVE Chain(s, ItemsOrder(B)) /\ \A x \in Range(s) : Sound(x, B)
    BY <1>2, <1>3, <1>4 DEF Lined, Chain
<1>5. ASSUME Chain(s, ItemsOrder(B)), \A x \in Range(s) : Sound(x, B) PROVE Lined(s, B)
    BY <1>2, <1>3, <1>5 DEF Lined, Chain
<1> QED
    BY <1>4, <1>5

\* The clients of a queue.
LEMMA HeldElements ==
    ASSUME NEW s \in Items, NEW p
    PROVE  p \in Held(s) <=> p \in Proposals /\ \E x \in Range(s) : p \in Clients(x)
    BY Elements DEF Held, Items

\* Queues joined end to end.
LEMMA LinedConcat ==
    ASSUME NEW B, NEW s, NEW t, Lined(s, B), Lined(t, B), \A p \in Held(s), q \in Held(t) : <<p, q>> \in B
    PROVE  Lined(s \o t, B)
<1>1. s \in Items /\ t \in Items
    BY DEF Lined
<1>2. s \in Seq(Seq(Seq(Proposals))) /\ t \in Seq(Seq(Seq(Proposals))) /\ s \o t \in Items
    BY <1>1, HeldConcat DEF Items
<1>3. Chain(s, ItemsOrder(B)) /\ Chain(t, ItemsOrder(B))
      /\ \A x : x \in Range(s) \/ x \in Range(t) => Sound(x, B)
    BY <1>1, LinedIsChain
<1>4. Joins(s, t, ItemsOrder(B))
  <2> SUFFICES ASSUME NEW x \in Range(s), NEW y \in Range(t) PROVE <<x, y>> \in ItemsOrder(B)
      BY DEF Joins
  <2>1. x \in Seq(Seq(Proposals)) /\ y \in Seq(Seq(Proposals))
        /\ Clients(x) \subseteq Proposals /\ Clients(y) \subseteq Proposals
    <3>1. x \in Seq(Seq(Proposals)) /\ y \in Seq(Seq(Proposals))
        BY <1>2, Elements
    <3> QED
        BY <3>1, ItemClients
  <2>2. Clients(x) \subseteq Held(s) /\ Clients(y) \subseteq Held(t)
      BY <1>1, <2>1, HeldElements
  <2> QED
      BY <2>1, <2>2, ItemsOrderIs
<1>5. Chain(s \o t, ItemsOrder(B)) /\ \A x : x \in Range(s \o t) => x \in Range(s) \/ x \in Range(t)
    BY <1>2, <1>3, <1>4, ChainConcat
<1> QED
    BY <1>2, <1>3, <1>5, LinedIsChain

\* A sequence of queues joined end to end.
LEMMA LinedFlatten ==
    ASSUME NEW B, NEW ss \in Seq(Items), \A k \in 1..Len(ss) : Lined(ss[k], B),
           \A j, k \in 1..Len(ss) : j < k => \A p \in Held(ss[j]), q \in Held(ss[k]) : <<p, q>> \in B
    PROVE  /\ Lined(Flatten(ss), B)
           /\ \A p : p \in Held(Flatten(ss)) <=> \E k \in 1..Len(ss) : p \in Held(ss[k])
<1> DEFINE X == Seq(Seq(Proposals))
           s == Flatten(ss)
<1>1. ss \in Seq(Seq(X)) /\ \A k \in 1..Len(ss) : ss[k] \in Items /\ ss[k] \in Seq(X)
    BY DEF Items
<1>2. s \in Seq(X) /\ \A x : x \in Range(s) <=> \E k \in 1..Len(ss) : x \in Range(ss[k])
    BY <1>1, FlattenChain
<1>3. s \in Items
    BY <1>2 DEF Items
<1>4. \A k \in 1..Len(ss) : Chain(ss[k], ItemsOrder(B)) /\ \A x \in Range(ss[k]) : Sound(x, B)
    BY <1>1, LinedIsChain
<1>5. ASSUME NEW j \in 1..Len(ss), NEW k \in 1..Len(ss), j < k PROVE Joins(ss[j], ss[k], ItemsOrder(B))
  <2> SUFFICES ASSUME NEW x \in Range(ss[j]), NEW y \in Range(ss[k]) PROVE <<x, y>> \in ItemsOrder(B)
      BY DEF Joins
  <2>1. x \in Seq(Seq(Proposals)) /\ y \in Seq(Seq(Proposals))
        /\ Clients(x) \subseteq Proposals /\ Clients(y) \subseteq Proposals
    <3>1. x \in Seq(Seq(Proposals)) /\ y \in Seq(Seq(Proposals))
        BY <1>1, Elements
    <3> QED
        BY <3>1, ItemClients
  <2>2. Clients(x) \subseteq Held(ss[j]) /\ Clients(y) \subseteq Held(ss[k])
      BY <1>1, <2>1, HeldElements
  <2> QED
      BY <1>5, <2>1, <2>2, ItemsOrderIs
<1>6. Chain(s, ItemsOrder(B))
    BY <1>1, <1>4, <1>5, FlattenChain
<1> HIDE DEF s
<1>7. Lined(s, B)
    BY <1>2, <1>3, <1>4, <1>6, LinedIsChain
<1>8. ASSUME NEW p PROVE p \in Held(s) <=> \E k \in 1..Len(ss) : p \in Held(ss[k])
    BY <1>1, <1>2, <1>3, HeldElements
<1> QED
    BY <1>7, <1>8 DEF s

\* Different stages of the pipeline have different clients.
LEMMA StagesApart ==
    ASSUME NEW q, NEW b, NEW e, Pipe(q, b, e, Distinct), NEW j \in 1..Stages, NEW k \in 1..Stages, j # k,
           NEW x \in Held(StageOf(q, b, e)[j]), NEW y \in Held(StageOf(q, b, e)[k])
    PROVE  <<x, y>> \in Distinct
<1>1. j < k \/ k < j
    BY StageOrder
<1>2. <<x, y>> \in Distinct \/ <<y, x>> \in Distinct
    BY <1>1 DEF Pipe, Flow
<1> QED
    BY <1>2, DistinctSymmetric

\* Channels, batches and log joined end to end hold every client once.
AllHeld ==
    Flatten([c \in Channel |-> queue[c]]) \o Flatten([l \in Layer |-> batch[l]]) \o entry

\* They are one queue of the clients in the pipeline.
LEMMA AllInLine ==
    ASSUME TypeOK, Pipe(queue, batch, entry, Distinct)
    PROVE  Lined(AllHeld, Distinct) /\ \A p : p \in Held(AllHeld) <=> p \in Crowd(queue, batch, entry)
<1> DEFINE qs == [c \in Channel |-> queue[c]]
           bs == [l \in Layer |-> batch[l]]
           S == StageOf(queue, batch, entry)
<1>1. qs \in Seq(Items) /\ Len(qs) = Layers + 1 /\ \A c \in Channel : qs[c] = queue[c]
    BY BatchAssumption DEF TypeOK, Channel
<1>2. bs \in Seq(Items) /\ Len(bs) = Layers /\ \A l \in Layer : bs[l] = batch[l]
    BY BatchAssumption DEF TypeOK, Layer
<1>3. Channel = 1..Len(qs) /\ Layer = 1..Len(bs)
    BY <1>1, <1>2 DEF Channel, Layer
<1>4. AllHeld = Flatten(qs) \o Flatten(bs) \o entry
    BY DEF AllHeld
<1>5. /\ \A c \in Channel : S[ChannelStage(c)] = queue[c] /\ ChannelStage(c) \in 1..Stages
      /\ \A l \in Layer : S[BatchStage(l)] = batch[l] /\ BatchStage(l) \in 1..Stages
      /\ S[Stages] = entry /\ Stages \in 1..Stages
    BY StageAt, StageOrder
<1>6. /\ \A c \in Channel : Lined(queue[c], Distinct)
      /\ \A l \in Layer : Lined(batch[l], Distinct)
      /\ Lined(entry, Distinct)
    BY PipeParts
<1>7. \A j, k \in 1..Stages : j # k => \A x \in Held(S[j]), y \in Held(S[k]) : <<x, y>> \in Distinct
    BY StagesApart
<1> HIDE DEF qs, bs, S
<1>8. \A c, d \in Channel : c # d => \A x \in Held(queue[c]), y \in Held(queue[d]) : <<x, y>> \in Distinct
  <2> SUFFICES ASSUME NEW c \in Channel, NEW d \in Channel, c # d, NEW x \in Held(queue[c]), NEW y \in Held(queue[d])
               PROVE  <<x, y>> \in Distinct
      OBVIOUS
  <2>1. ChannelStage(c) # ChannelStage(d)
      BY StageOrder
  <2> QED
      BY <1>5, <1>7, <2>1
<1>9. \A l, m \in Layer : l # m => \A x \in Held(batch[l]), y \in Held(batch[m]) : <<x, y>> \in Distinct
  <2> SUFFICES ASSUME NEW l \in Layer, NEW m \in Layer, l # m, NEW x \in Held(batch[l]), NEW y \in Held(batch[m])
               PROVE  <<x, y>> \in Distinct
      OBVIOUS
  <2>1. BatchStage(l) # BatchStage(m)
      BY StageOrder
  <2> QED
      BY <1>5, <1>7, <2>1
<1>10. \A c \in Channel, l \in Layer : \A x \in Held(queue[c]), y \in Held(batch[l]) : <<x, y>> \in Distinct
  <2> SUFFICES ASSUME NEW c \in Channel, NEW l \in Layer, NEW x \in Held(queue[c]), NEW y \in Held(batch[l])
               PROVE  <<x, y>> \in Distinct
      OBVIOUS
  <2>1. ChannelStage(c) # BatchStage(l)
      BY StageOrder
  <2> QED
      BY <1>5, <1>7, <2>1
<1>11. /\ \A c \in Channel : \A x \in Held(queue[c]), y \in Held(entry) : <<x, y>> \in Distinct
       /\ \A l \in Layer : \A x \in Held(batch[l]), y \in Held(entry) : <<x, y>> \in Distinct
  <2>1. ASSUME NEW c \in Channel, NEW x \in Held(queue[c]), NEW y \in Held(entry) PROVE <<x, y>> \in Distinct
    <3>1. ChannelStage(c) # Stages
        BY StageOrder
    <3> QED
        BY <1>5, <1>7, <3>1
  <2>2. ASSUME NEW l \in Layer, NEW x \in Held(batch[l]), NEW y \in Held(entry) PROVE <<x, y>> \in Distinct
    <3>1. BatchStage(l) # Stages
        BY StageOrder
    <3> QED
        BY <1>5, <1>7, <3>1
  <2> QED
      BY <2>1, <2>2
<1>12. Lined(Flatten(qs), Distinct) /\ \A p : p \in Held(Flatten(qs)) <=> \E c \in Channel : p \in Held(queue[c])
  <2>1. \A c \in 1..Len(qs) : Lined(qs[c], Distinct)
      BY <1>1, <1>3, <1>6
  <2>2. \A c, d \in 1..Len(qs) : c < d => \A x \in Held(qs[c]), y \in Held(qs[d]) : <<x, y>> \in Distinct
    <3> SUFFICES ASSUME NEW c \in 1..Len(qs), NEW d \in 1..Len(qs), c < d
                 PROVE  \A x \in Held(qs[c]), y \in Held(qs[d]) : <<x, y>> \in Distinct
        OBVIOUS
    <3>1. c \in Channel /\ d \in Channel /\ c # d /\ qs[c] = queue[c] /\ qs[d] = queue[d]
        BY <1>1, <1>3
    <3> QED
        BY <1>8, <3>1
  <2>3. \A p : p \in Held(Flatten(qs)) <=> \E c \in 1..Len(qs) : p \in Held(qs[c])
      BY <1>1, <2>1, <2>2, LinedFlatten
  <2>4. Lined(Flatten(qs), Distinct)
      BY <1>1, <2>1, <2>2, LinedFlatten
  <2> QED
      BY <1>1, <1>3, <2>3, <2>4
<1>13. Lined(Flatten(bs), Distinct) /\ \A p : p \in Held(Flatten(bs)) <=> \E l \in Layer : p \in Held(batch[l])
  <2>1. \A l \in 1..Len(bs) : Lined(bs[l], Distinct)
      BY <1>2, <1>3, <1>6
  <2>2. \A l, m \in 1..Len(bs) : l < m => \A x \in Held(bs[l]), y \in Held(bs[m]) : <<x, y>> \in Distinct
    <3> SUFFICES ASSUME NEW l \in 1..Len(bs), NEW m \in 1..Len(bs), l < m
                 PROVE  \A x \in Held(bs[l]), y \in Held(bs[m]) : <<x, y>> \in Distinct
        OBVIOUS
    <3>1. l \in Layer /\ m \in Layer /\ l # m /\ bs[l] = batch[l] /\ bs[m] = batch[m]
        BY <1>2, <1>3
    <3> QED
        BY <1>9, <3>1
  <2>3. \A p : p \in Held(Flatten(bs)) <=> \E l \in 1..Len(bs) : p \in Held(bs[l])
      BY <1>2, <2>1, <2>2, LinedFlatten
  <2>4. Lined(Flatten(bs), Distinct)
      BY <1>2, <2>1, <2>2, LinedFlatten
  <2> QED
      BY <1>2, <1>3, <2>3, <2>4
<1> DEFINE u == Flatten(qs) \o Flatten(bs)
<1>14. Lined(u, Distinct) /\ \A p : p \in Held(u) <=> p \in Held(Flatten(qs)) \/ p \in Held(Flatten(bs))
  <2>1. Lined(u, Distinct)
      BY <1>10, <1>12, <1>13, LinedConcat
  <2>2. Flatten(qs) \in Items /\ Flatten(bs) \in Items
      BY <1>12, <1>13 DEF Lined
  <2>3. Held(u) = Held(Flatten(qs)) \union Held(Flatten(bs))
      BY <2>2, HeldConcat
  <2> QED
      BY <2>1, <2>3
<1> HIDE DEF u
<1>15. Lined(u \o entry, Distinct) /\ \A p : p \in Held(u \o entry) <=> p \in Held(u) \/ p \in Held(entry)
  <2>1. Lined(u \o entry, Distinct)
      BY <1>6, <1>11, <1>12, <1>13, <1>14, LinedConcat
  <2>2. u \in Items /\ entry \in Items
      BY <1>6, <1>14 DEF Lined
  <2>3. Held(u \o entry) = Held(u) \union Held(entry)
      BY <2>2, HeldConcat
  <2> QED
      BY <2>1, <2>3
<1>16. ASSUME NEW p
       PROVE  p \in Crowd(queue, batch, entry) <=>
                \/ \E c \in Channel : p \in Held(queue[c])
                \/ \E l \in Layer : p \in Held(batch[l])
                \/ p \in Held(entry)
  <2>1. p \in Crowd(queue, batch, entry) <=> p \in Proposals /\ \E k \in 1..Stages : p \in Held(S[k])
      BY DEF Crowd, Everyone, S
  <2>2. ASSUME NEW k \in 1..Stages, p \in Held(S[k])
        PROVE  \/ \E c \in Channel : p \in Held(queue[c])
               \/ \E l \in Layer : p \in Held(batch[l])
               \/ p \in Held(entry)
      BY <1>5, <2>2, StageCases
  <2>3. ASSUME \/ \E c \in Channel : p \in Held(queue[c])
               \/ \E l \in Layer : p \in Held(batch[l])
               \/ p \in Held(entry)
        PROVE  p \in Proposals /\ \E k \in 1..Stages : p \in Held(S[k])
    <3>1. p \in Proposals
        BY <2>3 DEF Held
    <3> QED
        BY <1>5, <2>3, <3>1
  <2> QED
      BY <2>1, <2>2, <2>3
<1>17. AllHeld = u \o entry
    BY <1>4 DEF u
<1> QED
    BY <1>12, <1>13, <1>14, <1>15, <1>16, <1>17

\* Parts whose clients are different.
PartsApart ==
    {x \in Seq(Proposals) \X Seq(Proposals) : Joins(x[1], x[2], Distinct)}

\* The clients of a queue in line, one by one, are different.
LEMMA LineIsDistinct ==
    ASSUME NEW s, Lined(s, Distinct)
    PROVE  /\ Flatten(Flatten(s)) \in Seq(Proposals) /\ Chain(Flatten(Flatten(s)), Distinct)
           /\ Range(Flatten(Flatten(s))) = Held(s)
<1> DEFINE X == Seq(Proposals)
           t == Flatten(s)
<1>1. s \in Items /\ s \in Seq(Seq(X)) /\ \A i \in 1..Len(s) : s[i] \in Seq(X) /\ Sound(s[i], Distinct)
    BY DEF Lined, Items
<1>2. \A x, y \in X : <<x, y>> \in PartsApart <=> Joins(x, y, Distinct)
    BY DEF PartsApart
<1>3. \A i \in 1..Len(s) : Chain(s[i], PartsApart)
  <2> SUFFICES ASSUME NEW i \in 1..Len(s), NEW j \in 1..Len(s[i]), NEW k \in 1..Len(s[i]), j < k
               PROVE  <<s[i][j], s[i][k]>> \in PartsApart
      BY DEF Chain
  <2>1. s[i][j] \in X /\ s[i][k] \in X
      BY <1>1
  <2>2. Joins(s[i][j], s[i][k], Distinct)
      BY <1>1 DEF Sound
  <2> QED
      BY <1>2, <2>1, <2>2
<1>4. ASSUME NEW i \in 1..Len(s), NEW j \in 1..Len(s), i < j PROVE Joins(s[i], s[j], PartsApart)
  <2> SUFFICES ASSUME NEW x \in Range(s[i]), NEW y \in Range(s[j]) PROVE <<x, y>> \in PartsApart
      BY DEF Joins
  <2>1. x \in X /\ y \in X
      BY <1>1, Elements
  <2>2. Range(x) \subseteq Clients(s[i]) /\ Range(y) \subseteq Clients(s[j])
    <3>1. PICK k \in 1..Len(s[i]) : x = s[i][k]
        BY <1>1, Elements
    <3>2. PICK m \in 1..Len(s[j]) : y = s[j][m]
        BY <1>1, Elements
    <3> QED
        BY <1>1, <3>1, <3>2, ItemClients
  <2>3. Joins(x, y, Distinct)
      BY <1>4, <2>2 DEF Lined, Joins
  <2> QED
      BY <1>2, <2>1, <2>3
<1>5. t \in Seq(X) /\ Chain(t, PartsApart) /\ \A x : x \in Range(t) <=> \E i \in 1..Len(s) : x \in Range(s[i])
  <2>1. t \in Seq(X) /\ \A x : x \in Range(t) <=> \E i \in 1..Len(s) : x \in Range(s[i])
      BY <1>1, FlattenChain
  <2>2. Chain(t, PartsApart)
      BY <1>1, <1>3, <1>4, FlattenChain
  <2> QED
      BY <2>1, <2>2
<1>6. Clients(t) = Held(s)
    BY <1>1, HeldIs
<1> HIDE DEF t
<1>7. \A k \in 1..Len(t) : Chain(t[k], Distinct)
  <2> SUFFICES ASSUME NEW k \in 1..Len(t) PROVE Chain(t[k], Distinct)
      OBVIOUS
  <2>1. t[k] \in Range(t)
      BY <1>5, Elements
  <2>2. PICK i \in 1..Len(s) : t[k] \in Range(s[i])
      BY <1>5, <2>1
  <2>3. PICK j \in 1..Len(s[i]) : t[k] = s[i][j]
      BY <1>1, <2>2, Elements
  <2> QED
      BY <1>1, <2>3 DEF Sound
<1>8. \A j, k \in 1..Len(t) : j < k => Joins(t[j], t[k], Distinct)
  <2> SUFFICES ASSUME NEW j \in 1..Len(t), NEW k \in 1..Len(t), j < k PROVE Joins(t[j], t[k], Distinct)
      OBVIOUS
  <2>1. <<t[j], t[k]>> \in PartsApart
      BY <1>5 DEF Chain
  <2>2. t[j] \in X /\ t[k] \in X
      BY <1>5
  <2> QED
      BY <1>2, <2>1, <2>2
<1>9. Flatten(t) \in Seq(Proposals) /\ Chain(Flatten(t), Distinct)
    BY <1>5, <1>7, <1>8, FlattenChain
<1> QED
    BY <1>6, <1>9 DEF Clients, t

\* The promises of the invariant.
LEMMA InvImplies ==
    ASSUME BatchInv
    PROVE  TypeOK /\ BatchWithinLimits /\ WaiterIsHeld /\ AppliedInOrderSent /\ OkIsApplied
<1>1. TypeOK /\ BatchWithinLimits
    BY DEF BatchInv, Bounded
<1>2. SentBefore(sent) \subseteq Distinct
    BY LineFacts, OrderIrreflexive DEF BatchInv, SendingOnce
<1>3. WaiterIsHeld
  <2> SUFFICES ASSUME NEW p \in Proposals PROVE Places(p) = IF answer[p] = "waiting" THEN 1 ELSE 0
      BY DEF WaiterIsHeld
  <2> DEFINE held == Flatten(Flatten(AllHeld))
  <2>1. Places(p) = Cardinality({i \in 1..Len(held) : held[i] = p})
      BY DEF Places, AllHeld
  <2>2. Pipe(queue, batch, entry, Distinct)
      BY <1>2, LineFacts, PipeMono
  <2>3. Lined(AllHeld, Distinct) /\ (p \in Held(AllHeld) <=> p \in Crowd(queue, batch, entry))
      BY <1>1, <2>2, AllInLine
  <2>4. held \in Seq(Proposals) /\ Chain(held, Distinct) /\ Range(held) = Held(AllHeld)
      BY <2>3, LineIsDistinct
  <2>5. p \in Range(held) <=> answer[p] = "waiting"
      BY <2>3, <2>4 DEF BatchInv, WaitingInLine
  <2> HIDE DEF held
  <2>6. Cardinality({i \in 1..Len(held) : held[i] = p}) = IF p \in Range(held) THEN 1 ELSE 0
      BY <2>4, CountOfDistinct
  <2> QED
      BY <2>1, <2>5, <2>6
<1>4. AppliedInOrderSent
  <2> SUFFICES ASSUME NEW p \in Proposals, NEW q \in Proposals, Before(applied, p, q) PROVE Before(sent, p, q)
      BY DEF AppliedInOrderSent
  <2>1. PICK i \in 1..Len(applied), j \in 1..Len(applied) : i < j /\ applied[i] = p /\ applied[j] = q
      BY DEF Before
  <2>2. <<p, q>> \in SentBefore(sent)
      BY <2>1 DEF BatchInv, AppliedInLine, Chain
  <2> QED
      BY <2>2, OrderIs
<1>5. OkIsApplied
  <2> SUFFICES ASSUME NEW p \in Proposals, answer[p] = "ok"
               PROVE  Cardinality({i \in 1..Len(applied) : applied[i] = p}) = 1
      BY DEF OkIsApplied
  <2>1. p \in Range(applied)
      BY DEF BatchInv, AppliedInLine
  <2>2. Chain(applied, Distinct)
      BY <1>2, ChainMono DEF BatchInv, AppliedInLine
  <2>3. Cardinality({i \in 1..Len(applied) : applied[i] = p}) = IF p \in Range(applied) THEN 1 ELSE 0
      BY <2>2, LineFacts, CountOfDistinct
  <2> QED
      BY <2>1, <2>3
<1> QED
    BY <1>1, <1>3, <1>4, <1>5

\* The channels, batches and answers keep their types.
THEOREM BatchingTypes == Spec => []TypeOK
    BY PipelineInvariant, InvImplies, PTL

\* add_to_batch never leaves a batch at or over a limit.
THEOREM BatchesStayBelowLimits == Spec => []BatchWithinLimits
    BY PipelineInvariant, InvImplies, PTL

\* No waiting client's proposal is lost or duplicated between channels, batches
\* and log, for any number of layers.
THEOREM WaitersAreHeldOnce == Spec => []WaiterIsHeld
    BY PipelineInvariant, InvImplies, PTL

\* Batching, splitting and dropping never reorder what is applied.
THEOREM BatchingKeepsOrder == Spec => []AppliedInOrderSent
    BY PipelineInvariant, InvImplies, PTL

\* Ok is answered to proposals that were applied, once.
THEOREM OkMeansApplied == Spec => []OkIsApplied
    BY PipelineInvariant, InvImplies, PTL

-----------------------------------------------------------------------------
\* The service the clients see.

\* The clients that wait for the service are those in the pipeline.
LEMMA WaitingIsCrowd ==
    ASSUME BatchInv
    PROVE  Service!Waiting = Crowd(queue, batch, entry)
    BY DEF BatchInv, WaitingInLine, Service!Waiting

\* Clients that leave were told of a failure, or nobody left.
LEMMA LeavingFails ==
    ASSUME BatchInv, NEW D, NEW r \in {"error", "dropped"}, Leaves(D, SentBefore(sent)), Reply(D, r),
           UNCHANGED <<sent, applied>>
    PROVE  Service!Fail \/ UNCHANGED Service!serviceVars
<1>1. CASE D = {}
  <2>1. answer' = answer
      BY <1>1, LineFacts DEF Reply
  <2> QED
      BY <2>1 DEF Service!serviceVars
<1>2. CASE D # {}
  <2>1. D \in SUBSET Service!Waiting
      BY WaitingIsCrowd DEF Leaves
  <2>2. Service!Tells(D, r)
      BY DEF Reply, Service!Tells
  <2> QED
      BY <1>2, <2>1, <2>2 DEF Service!Fail
<1> QED
    BY <1>1, <1>2

\* A committed sub-proposal takes effect.
LEMMA SubTakesEffect ==
    ASSUME BatchInv, ApplySub
    PROVE  Service!TakeEffect
<1> DEFINE item == Head(entry)
<1>1. /\ entry # <<>> /\ UNCHANGED <<sent, queue, batch>>
      /\ IF done + 1 = Len(item)
         THEN entry' = Tail(entry) /\ done' = 0 /\ Reply(Clients(item), "ok")
         ELSE answer' = answer
    BY DEF ApplySub
<1>2. PICK p : IsNextSub(p)
    BY NextSub
<1>3. p \in Proposals /\ applied' = Append(applied, p) /\ p \in Crowd(queue, batch, entry) /\ p \notin Range(applied)
    BY <1>2 DEF IsNextSub
<1>4. \A x : Service!HadEffect(x) <=> x \in Range(applied)
  <2>1. \A x : x \in Range(applied) <=> \E i \in 1..Len(applied) : x = applied[i]
      BY LineFacts, Elements
  <2> QED
      BY <2>1 DEF Service!HadEffect
<1>5. applied' \in Seq(Proposals) /\ Range(applied') = Range(applied) \union {p}
    BY <1>3, LineFacts, Appended
<1>6. \A x : Service!HadEffect(x)' <=> x \in Range(applied')
  <2>1. \A x : x \in Range(applied') <=> \E i \in 1..Len(applied') : x = applied'[i]
      BY <1>5, Elements
  <2> QED
      BY <2>1 DEF Service!HadEffect
<1>7. \A x : x \in Service!Pending <=> x \in Crowd(queue, batch, entry) /\ x \notin Range(applied)
    BY <1>4, WaitingIsCrowd DEF Service!Pending
<1>8. ASSUME NEW q \in Service!Pending, q # p PROVE Service!Precedes(p, q)
  <2>1. q \notin Committing(entry, done)
      BY <1>7 DEF BatchInv, AheadOfLine
  <2>2. <<p, q>> \in SentBefore(sent)
      BY <1>2, <1>7, <1>8, <2>1 DEF IsNextSub
  <2>3. Before(sent, p, q)
      BY <2>2, OrderIs
  <2> QED
      BY <2>3 DEF Before, Service!Precedes
<1>9. Service!IsFirst(p)
    BY <1>3, <1>7, <1>8 DEF Service!IsFirst
<1>10. \E x \in Proposals : Service!IsFirst(x) /\ applied' = Append(applied, x)
    BY <1>3, <1>9
<1>11. CASE done + 1 = Len(item)
  <2>1. Clients(item) = Committing(entry, done + 1) /\ Committing(entry, done + 1) = Committing(entry, done) \union {p}
      BY <1>2, <1>11 DEF IsNextSub
  <2>2. Clients(item) \subseteq Range(applied')
      BY <1>5, <2>1 DEF BatchInv, AheadOfLine
  <2>3. Clients(item) \in SUBSET Service!Waiting
    <3>1. Clients(item) \subseteq Crowd(queue, batch, entry)
        BY <1>1, LineFacts, PipeFront
    <3> QED
        BY <3>1, WaitingIsCrowd
  <2>4. Service!Tells(Clients(item), "ok")
      BY <1>1, <1>11 DEF Reply, Service!Tells
  <2> HIDE DEF item
  <2>5. \E ps \in SUBSET Service!Waiting : (\A x \in ps : Service!HadEffect(x)') /\ Service!Tells(ps, "ok")
      BY <1>6, <2>2, <2>3, <2>4
  <2> QED
      BY <1>1, <1>10, <2>5 DEF Service!TakeEffect
<1>12. CASE done + 1 # Len(item)
    BY <1>1, <1>10, <1>12 DEF Service!TakeEffect
<1> QED
    BY <1>11, <1>12

\* Every step of the pipeline is a step of the service, or none.
LEMMA ServiceStep ==
    BatchInv /\ [Next]_vars => [Service!ServiceNext]_(Service!serviceVars)
<1> SUFFICES ASSUME BatchInv, [Next]_vars PROVE Service!ServiceNext \/ UNCHANGED Service!serviceVars
    OBVIOUS
<1>1. ASSUME NEW p \in Proposals, Submit(p) PROVE Service!ServiceNext
  <2>1. Service!Ask(p)
      BY <1>1 DEF Submit, Reply, Service!Ask, Service!Tells
  <2> QED
      BY <2>1 DEF Service!ServiceNext
<1>2. ASSUME NEW l \in Layer, AddToBatch(l) PROVE Service!ServiceNext \/ UNCHANGED Service!serviceVars
  <2>1. PICK D : Leaves(D, SentBefore(sent)) /\ Reply(D, "dropped")
      BY <1>2, LineFacts, AddLeaves
  <2>2. UNCHANGED <<sent, applied>>
      BY <1>2 DEF AddToBatch
  <2> QED
      BY <2>1, <2>2, LeavingFails DEF Service!ServiceNext
<1>3. ASSUME NEW l \in Layer, CheckAndFlush(l) PROVE Service!ServiceNext \/ UNCHANGED Service!serviceVars
  <2>1. PICK D : Leaves(D, SentBefore(sent)) /\ Reply(D, "dropped")
      BY <1>3, LineFacts, FlushLeaves
  <2>2. UNCHANGED <<sent, applied>>
      BY <1>3 DEF CheckAndFlush
  <2> QED
      BY <2>1, <2>2, LeavingFails DEF Service!ServiceNext
<1>4. ASSUME (\E l \in Layer : Age(l)) \/ HandleProposal \/ UNCHANGED vars PROVE UNCHANGED Service!serviceVars
    BY <1>4 DEF Age, HandleProposal, vars, Service!serviceVars
<1>5. ASSUME RefuseProposal PROVE Service!ServiceNext \/ UNCHANGED Service!serviceVars
  <2>1. Leaves(Clients(Head(Proposed)), SentBefore(sent))
      BY <1>5, LineFacts, RefuseLeaves
  <2>2. Reply(Clients(Head(Proposed)), "error") /\ UNCHANGED <<sent, applied>>
      BY <1>5 DEF RefuseProposal
  <2> QED
      BY <2>1, <2>2, LeavingFails DEF Service!ServiceNext
<1>6. ASSUME ApplySub PROVE Service!ServiceNext
    BY <1>6, SubTakesEffect DEF Service!ServiceNext
<1>7. ASSUME ApplyError PROVE Service!ServiceNext \/ UNCHANGED Service!serviceVars
  <2>1. /\ entry # <<>> /\ entry' = Tail(entry) /\ Reply(Clients(Head(entry)), "error")
        /\ UNCHANGED <<sent, queue, batch, applied>>
      BY <1>7 DEF ApplyError
  <2>2. Leaves(Clients(Head(entry)), SentBefore(sent))
      BY <2>1, LineFacts, EntryLeaves
  <2> QED
      BY <2>1, <2>2, LeavingFails DEF Service!ServiceNext
<1>8. ASSUME Stop PROVE Service!ServiceNext \/ UNCHANGED Service!serviceVars
  <2>1. /\ Leaves(Held(entry) \union Held(Proposed), SentBefore(sent))
        /\ Reply(Held(entry) \union Held(Proposed), "dropped")
      BY <1>8, LineFacts, StopLeaves
  <2>2. UNCHANGED <<sent, applied>>
      BY <1>8 DEF Stop
  <2> QED
      BY <2>1, <2>2, LeavingFails DEF Service!ServiceNext
<1> QED
    BY <1>1, <1>2, <1>3, <1>4, <1>5, <1>6, <1>7, <1>8 DEF Next

\* Seen by the clients, the channels, batches and log entries are one queue of
\* proposals, served from its head.
THEOREM BatchingImplementsService == Spec => ImplementsService
<1>1. Init => Service!ServiceInit
    BY DEF Init, Service!ServiceInit
<1> QED
    BY <1>1, ServiceStep, PipelineInvariant, PTL DEF Spec, ImplementsService, Service!ServiceSpec

\* What a step of the service leaves of a client that was answered.
LEMMA ServiceSettles ==
    ASSUME BatchInv, [Service!ServiceNext]_(Service!serviceVars),
           NEW p \in Proposals, answer[p] \notin {"none", "waiting"}
    PROVE  answer'[p] = answer[p] /\ (Service!HadEffect(p)' => Service!HadEffect(p))
<1>1. TypeOK
    BY InvImplies
<1>2. applied \in Seq(Proposals)
    BY <1>1 DEF TypeOK
<1>3. CASE UNCHANGED Service!serviceVars
    BY <1>3 DEF Service!serviceVars, Service!HadEffect
<1>4. ASSUME NEW q \in Proposals, Service!Ask(q) PROVE answer'[p] = answer[p] /\ applied' = applied
  <2>1. q # p
      BY <1>4 DEF Service!Ask
  <2> QED
      BY <1>4, <2>1 DEF Service!Ask, Service!Tells
<1>5. ASSUME Service!Fail PROVE answer'[p] = answer[p] /\ applied' = applied
    BY <1>5 DEF Service!Fail, Service!Tells, Service!Waiting
<1>6. ASSUME Service!TakeEffect
      PROVE  answer'[p] = answer[p] /\ (Service!HadEffect(p)' => Service!HadEffect(p))
  <2>1. answer'[p] = answer[p]
      BY <1>6 DEF Service!TakeEffect, Service!Tells, Service!Waiting
  <2>2. PICK q \in Proposals : Service!IsFirst(q) /\ applied' = Append(applied, q)
      BY <1>6 DEF Service!TakeEffect
  <2>3. q # p
      BY <2>2 DEF Service!IsFirst, Service!Pending, Service!Waiting
  <2>4. ASSUME NEW i \in 1..Len(applied'), applied'[i] = p
        PROVE  i \in 1..Len(applied) /\ applied[i] = p
      BY <1>2, <2>2, <2>3, <2>4
  <2> QED
      BY <2>1, <2>4 DEF Service!HadEffect
<1>7. applied' = applied => (Service!HadEffect(p)' => Service!HadEffect(p))
    BY DEF Service!HadEffect
<1> QED
    BY <1>3, <1>4, <1>5, <1>6, <1>7 DEF Service!ServiceNext

\* A client is answered once, and a proposal that had no effect when its client
\* was answered has none later, as long as the process lives.
AnsweredIsSettled ==
    [][\A p \in Proposals :
          answer[p] \notin {"none", "waiting"} =>
            /\ answer'[p] = answer[p]
            /\ p \in Range(applied') => p \in Range(applied)]_vars

\* No step answers a client again, and none applies the proposal of a client that
\* was told of a failure: its waiter leaves pending_proposals with the answer, and
\* what an error, a refusal or the end of the RaftManager takes out of the pipeline
\* never comes back into it.
THEOREM AnsweredStaysSettled == Spec => AnsweredIsSettled
<1>1. ASSUME BatchInv, [Next]_vars, NEW p \in Proposals, answer[p] \notin {"none", "waiting"}
      PROVE  answer'[p] = answer[p] /\ (p \in Range(applied') => p \in Range(applied))
  <2>1. [Service!ServiceNext]_(Service!serviceVars)
      BY <1>1, ServiceStep
  <2>2. answer'[p] = answer[p] /\ (Service!HadEffect(p)' => Service!HadEffect(p))
      BY <1>1, <2>1, ServiceSettles
  <2>3. TypeOK
      BY <1>1, InvImplies
  <2>4. applied \in Seq(Proposals) /\ (p \in Range(applied) <=> Service!HadEffect(p))
      BY <2>3 DEF TypeOK, Range, Service!HadEffect
  <2>5. BatchInv'
      BY <1>1, BatchStep
  <2>6. TypeOK'
      BY <2>5, InvImplies, PTL
  <2>7. applied' \in Seq(Proposals) /\ (p \in Range(applied') <=> Service!HadEffect(p)')
      BY <2>6 DEF TypeOK, Range, Service!HadEffect
  <2> QED
      BY <2>2, <2>4, <2>7
<1>2. BatchInv /\ [Next]_vars =>
        [\A p \in Proposals :
            answer[p] \notin {"none", "waiting"} =>
              /\ answer'[p] = answer[p]
              /\ p \in Range(applied') => p \in Range(applied)]_vars
    BY <1>1
<1> QED
    BY <1>2, PipelineInvariant, PTL DEF Spec, AnsweredIsSettled
=============================================================================
