-------------------------- MODULE RaftOutboxProofs --------------------------
(***************************************************************************)
(* The messages of the transport, from the handler to the peers, for any    *)
(* peers and limits: a peer receives no message twice, whatever fails, and  *)
(* the buffers keep their order.                                            *)
(***************************************************************************)
EXTENDS RaftOutbox, SequenceTheorems, WellFoundedInduction, TLAPS

\* The identities up to this one are not in the hands of the message handler.
Settled == IF sender.at \in {"idle", "reply"} THEN produced ELSE produced - 1

\* The messages of a sequence are told apart by their identities, all settled.
Distinct(queue) ==
    /\ \A i \in DOMAIN queue : queue[i].id <= Settled
    /\ \A i, j \in DOMAIN queue : queue[i].id = queue[j].id => i = j

\* What the batch processor has taken from a buffer.
InGroups == pass.at \in {"groups", "sent", "more"}
PassInv ==
    InGroups =>
      /\ Distinct(pass.taken)
      /\ \A i \in DOMAIN pass.taken, j \in DOMAIN buffers[pass.to] :
            pass.taken[i].id # buffers[pass.to][j].id
      /\ \A prio \in Priorities : \A i \in pass.groups[prio] :
            /\ i \in DOMAIN pass.taken /\ pass.taken[i].priority = prio
            /\ \A j \in DOMAIN received[pass.to] : pass.taken[i].id # received[pass.to][j].id
      /\ pass.at = "sent" => pass.groups[pass.prio] # {}

\* The handler has the newest message, and of what it has let go a peer's messages
\* are received, buffered or taken by the batch processor, one of the three.
OutboxInv ==
    /\ OutboxTypeOK /\ BuffersInOrder
    /\ sender.at # "idle" => sender.msg.id = produced
    /\ \A p \in Peers :
         /\ Distinct(buffers[p]) /\ Distinct(received[p])
         /\ \A i \in DOMAIN buffers[p], j \in DOMAIN received[p] :
               buffers[p][i].id # received[p][j].id
    /\ PassInv

\* Urgent messages first, those of one priority in the order of their identities.
Ordered(queue) ==
    \A i, j \in DOMAIN queue : i < j =>
        \/ queue[i].priority < queue[j].priority
        \/ queue[i].priority = queue[j].priority /\ queue[i].id < queue[j].id

\* The least element, for a relation that contains <.
LEMMA LeastByRelation ==
    ASSUME NEW R, IsWellFoundedOn(R, Nat),
           \A x, y \in Nat : y < x => <<y, x>> \in R,
           NEW S, S \subseteq Nat, S # {}
    PROVE  \E x \in S : \A y \in S : x <= y
<1>1. PICK x \in S : \A y \in S : ~(<<y, x>> \in R)
    BY WFMin
<1>2. \A y \in S : ~(y < x)
    BY <1>1
<1>3. \A y \in S : x <= y
    BY <1>2, SMT
<1> QED
    BY <1>3

\* A set of natural numbers that is not empty has a least element.
LEMMA LeastNatural ==
    ASSUME NEW S, S \subseteq Nat, S # {}
    PROVE  \E x \in S : \A y \in S : x <= y
<1> DEFINE R == OpToRel(<, Nat)
<1>1. IsWellFoundedOn(R, Nat)
    BY NatLessThanWellFounded
<1>2. \A x, y \in Nat : y < x => <<y, x>> \in R
    BY DEF OpToRel
<1> HIDE DEF R
<1> QED
    BY <1>1, <1>2, LeastByRelation

\* Min of a set of natural numbers.
LEMMA MinIsLeast ==
    ASSUME NEW S, S \subseteq Nat, S # {}
    PROVE  Min(S) \in S /\ \A x \in S : Min(S) <= x
<1>1. \E x \in S : \A y \in S : x <= y
    BY LeastNatural
<1> QED
    BY <1>1, Zenon DEF Min

\* The fields of a message.
LEMMA MessageFields ==
    ASSUME NEW msg \in Messages
    PROVE  /\ msg.id \in 1..MaxMessages /\ msg.id \in Nat
           /\ msg.priority \in Priorities /\ msg.priority \in Nat
<1>1. msg.id \in 1..MaxMessages /\ msg.priority \in Priorities
    BY DEF Messages
<1>2. Priorities \subseteq Nat
    BY OutboxAssumption
<1>3. msg.id \in Nat
    BY <1>1, OutboxAssumption
<1> QED
    BY <1>1, <1>2, <1>3

\* Where buffer_message puts a message: behind all that are as urgent, before all
\* that are less.
LEMMA InsertedPlace ==
    ASSUME NEW queue \in Seq(Messages), NEW msg \in Messages, Ordered(queue)
    PROVE  /\ InsertPosition(queue, msg) \in 1..(Len(queue) + 1)
           /\ \A i \in 1..Len(queue) :
                /\ i < InsertPosition(queue, msg) => queue[i].priority <= msg.priority
                /\ i >= InsertPosition(queue, msg) => queue[i].priority > msg.priority
<1> DEFINE later == {i \in DOMAIN queue : queue[i].priority > msg.priority}
<1>0. \A i \in 1..Len(queue) : queue[i].priority \in Nat
    BY MessageFields
<1>1. msg.priority \in Nat
    BY MessageFields
<1>2. CASE later = {}
    <2>1. InsertPosition(queue, msg) = Len(queue) + 1
        BY <1>2 DEF InsertPosition
    <2>2. \A i \in 1..Len(queue) : queue[i].priority <= msg.priority
        BY <1>0, <1>1, <1>2
    <2> QED
        BY <2>1, <2>2
<1>3. CASE later # {}
    <2>1. InsertPosition(queue, msg) = Min(later)
        BY <1>3 DEF InsertPosition
    <2>2. later \subseteq 1..Len(queue) /\ later \subseteq Nat
        OBVIOUS
    <2>3. Min(later) \in later /\ \A x \in later : Min(later) <= x
        BY <1>3, <2>2, MinIsLeast, Zenon
    <2> DEFINE k == Min(later)
    <2> HIDE DEF k
    <2>4. k \in 1..Len(queue) /\ queue[k].priority > msg.priority
          /\ \A i \in 1..Len(queue) : queue[i].priority > msg.priority => k <= i
        BY <2>3 DEF k
    <2>5. \A i \in 1..Len(queue) : i < k => queue[i].priority <= msg.priority
        BY <1>0, <1>1, <2>4
    <2>6. \A i \in 1..Len(queue) : i >= k => queue[i].priority > msg.priority
        BY <1>0, <1>1, <2>4 DEF Ordered
    <2> QED
        BY <2>1, <2>4, <2>5, <2>6 DEF k
<1> QED
    BY <1>2, <1>3

\* The buffer after InsertAt.
LEMMA Inserted ==
    ASSUME NEW queue \in Seq(Messages), NEW msg \in Messages, NEW k \in 1..(Len(queue) + 1)
    PROVE  /\ InsertAt(queue, k, msg) \in Seq(Messages)
           /\ Len(InsertAt(queue, k, msg)) = Len(queue) + 1
           /\ \A i \in 1..(Len(queue) + 1) :
                InsertAt(queue, k, msg)[i] =
                    IF i < k THEN queue[i] ELSE IF i = k THEN msg ELSE queue[i - 1]
<1> DEFINE a == SubSeq(queue, 1, k - 1)
           b == SubSeq(queue, k, Len(queue))
<1>0. Len(queue) \in Nat /\ \A i \in 1..Len(queue) : queue[i] \in Messages
    OBVIOUS
<1>1. a \in Seq(Messages) /\ Len(a) = k - 1 /\ \A i \in 1..(k - 1) : a[i] = queue[i]
    BY <1>0, SubSeqProperties
<1>2. b \in Seq(Messages) /\ Len(b) = Len(queue) - k + 1
      /\ \A i \in 1..(Len(queue) - k + 1) : b[i] = queue[k + i - 1]
    BY <1>0, SubSeqProperties
<1> HIDE DEF a, b
<1>3. /\ a \o <<msg>> \in Seq(Messages) /\ Len(a \o <<msg>>) = k
      /\ \A i \in 1..k : (a \o <<msg>>)[i] = IF i < k THEN queue[i] ELSE msg
    BY <1>1
<1> DEFINE c == a \o <<msg>>
<1> HIDE DEF c
<1>a. c \in Seq(Messages) /\ Len(c) = k
    BY <1>3 DEF c
<1>b. Len(c) + Len(b) = Len(queue) + 1
    BY <1>0, <1>2, <1>a
<1>4. c \o b \in Seq(Messages) /\ Len(c \o b) = Len(c) + Len(b)
    BY <1>2, <1>a, ConcatProperties, Zenon
<1>5. \A i \in 1..(Len(c) + Len(b)) : (c \o b)[i] = IF i <= Len(c) THEN c[i] ELSE b[i - Len(c)]
    BY <1>2, <1>a, ConcatProperties, Zenon
<1>6. InsertAt(queue, k, msg) = c \o b
    BY DEF InsertAt, a, b, c
<1>7. \A i \in 1..k : c[i] = IF i < k THEN queue[i] ELSE msg
    BY <1>3 DEF c
<1>8. \A i \in 1..(Len(queue) + 1) : i > k => b[i - k] = queue[i - 1]
    BY <1>0, <1>2
<1>9. \A i \in 1..(Len(queue) + 1) :
         (c \o b)[i] = IF i < k THEN queue[i] ELSE IF i = k THEN msg ELSE queue[i - 1]
    <2> SUFFICES ASSUME NEW i \in 1..(Len(queue) + 1)
                 PROVE  (c \o b)[i] = IF i < k THEN queue[i] ELSE IF i = k THEN msg ELSE queue[i - 1]
        OBVIOUS
    <2>1. (c \o b)[i] = IF i <= k THEN c[i] ELSE b[i - k]
        BY <1>5, <1>a, <1>b
    <2> QED
        BY <1>0, <1>7, <1>8, <2>1
<1> QED
    BY <1>4, <1>6, <1>9, <1>b

\* buffer_message keeps the order, the limit and the identities: what it holds
\* afterwards is the message or was there before.
LEMMA BufferedInOrder ==
    ASSUME NEW queue \in Seq(Messages), NEW msg \in Messages, Ordered(queue),
           \A i, j \in DOMAIN queue : queue[i].id = queue[j].id => i = j,
           \A i \in DOMAIN queue : queue[i].id < msg.id
    PROVE  LET new == Buffered(queue, msg) IN
           /\ new \in Seq(Messages) /\ Len(new) <= MaxBuffered /\ Ordered(new)
           /\ \A i, j \in DOMAIN new : new[i].id = new[j].id => i = j
           /\ \A i \in DOMAIN new : new[i] = msg \/ \E j \in DOMAIN queue : new[i] = queue[j]
<1> DEFINE k == InsertPosition(queue, msg)
           all == InsertAt(queue, k, msg)
           new == Truncated(all)
<1>1. k \in 1..(Len(queue) + 1)
      /\ \A i \in 1..Len(queue) : /\ i < k => queue[i].priority <= msg.priority
                                  /\ i >= k => queue[i].priority > msg.priority
    BY InsertedPlace
<1> HIDE DEF k
<1>2. /\ all \in Seq(Messages) /\ Len(all) = Len(queue) + 1
      /\ \A i \in 1..(Len(queue) + 1) :
            all[i] = IF i < k THEN queue[i] ELSE IF i = k THEN msg ELSE queue[i - 1]
    BY <1>1, Inserted
<1> HIDE DEF all
<1>3. DOMAIN queue = 1..Len(queue) /\ Len(queue) \in Nat
    OBVIOUS
<1>4. msg.priority \in Nat /\ msg.id \in Nat
      /\ \A i \in 1..Len(queue) : queue[i].priority \in Nat /\ queue[i].id \in Nat
    BY <1>3, MessageFields
<1>5. Ordered(all)
    <2> SUFFICES ASSUME NEW i \in 1..(Len(queue) + 1), NEW j \in 1..(Len(queue) + 1), i < j
                 PROVE  \/ all[i].priority < all[j].priority
                        \/ all[i].priority = all[j].priority /\ all[i].id < all[j].id
        BY <1>2 DEF Ordered
    <2>1. CASE i < k /\ j < k
        <3>1. all[i] = queue[i] /\ all[j] = queue[j]
            BY <1>2, <2>1
        <3>2. i \in 1..Len(queue) /\ j \in 1..Len(queue)
            BY <1>1, <1>3, <2>1
        <3> QED
            BY <1>3, <3>1, <3>2 DEF Ordered
    <2>2. CASE i < k /\ j = k
        BY <1>1, <1>2, <1>3, <1>4, <2>2
    <2>3. CASE i < k /\ j > k
        BY <1>1, <1>2, <1>3, <1>4, <2>3
    <2>4. CASE i = k
        BY <1>1, <1>2, <1>3, <1>4, <2>4
    <2>5. CASE i > k
        <3>1. all[i] = queue[i - 1] /\ all[j] = queue[j - 1]
            BY <1>1, <1>2, <1>3, <2>5
        <3>2. i - 1 \in 1..Len(queue) /\ j - 1 \in 1..Len(queue) /\ i - 1 < j - 1
            BY <1>1, <1>3, <2>5
        <3> QED
            BY <1>3, <3>1, <3>2 DEF Ordered
    <2> QED
        BY <1>1, <1>3, <2>1, <2>2, <2>3, <2>4, <2>5
<1> DEFINE back(x) == IF x < k THEN x ELSE x - 1
<1>a. ASSUME NEW x \in 1..Len(all), x # k
      PROVE  back(x) \in 1..Len(queue) /\ all[x] = queue[back(x)] /\ all[x].id < msg.id
    <2>1. back(x) \in 1..Len(queue) /\ all[x] = queue[back(x)]
        BY <1>1, <1>2, <1>3, <1>a
    <2> QED
        BY <1>3, <2>1
<1>b. all[k] = msg
    BY <1>1, <1>2
<1>6. \A i \in 1..Len(all) : all[i] = msg \/ \E j \in DOMAIN queue : all[i] = queue[j]
    BY <1>3, <1>a, <1>b
<1>7. \A i, j \in 1..Len(all) : all[i].id = all[j].id => i = j
    <2> SUFFICES ASSUME NEW i \in 1..Len(all), NEW j \in 1..Len(all), all[i].id = all[j].id
                 PROVE  i = j
        OBVIOUS
    <2>3. CASE i = k \/ j = k
        BY <1>1, <1>4, <1>a, <1>b, <2>3
    <2>4. CASE i # k /\ j # k
        <3>1. back(i) = back(j)
            BY <1>3, <1>a, <2>4
        <3> QED
            BY <1>1, <1>2, <1>3, <2>4, <3>1
    <2> QED
        BY <2>3, <2>4
<1>8. /\ new \in Seq(Messages) /\ Len(new) <= MaxBuffered /\ Len(new) <= Len(all)
      /\ \A i \in 1..Len(new) : new[i] = all[i]
    <2> DEFINE n == IF Len(all) > MaxBuffered THEN MaxBuffered ELSE Len(all)
    <2>1. n \in Nat /\ n <= Len(all) /\ n <= MaxBuffered
        BY <1>2, <1>3, OutboxAssumption
    <2> HIDE DEF n
    <2>2. \A i \in 1..n : all[i] \in Messages
        BY <1>2, <2>1
    <2>3. SubSeq(all, 1, n) \in Seq(Messages) /\ Len(SubSeq(all, 1, n)) = n
          /\ \A i \in 1..n : SubSeq(all, 1, n)[i] = all[i]
        BY <2>1, <2>2, SubSeqProperties
    <2> QED
        BY <2>1, <2>3 DEF Truncated, n
<1> HIDE DEF new
<1>9. DOMAIN new = 1..Len(new) /\ DOMAIN all = 1..Len(all) /\ Len(new) \in Nat /\ Len(all) \in Nat
    BY <1>2, <1>8
<1>10. Ordered(new)
    BY <1>5, <1>8, <1>9 DEF Ordered
<1>11. \A i \in 1..Len(new) : i \in 1..Len(all)
    BY <1>8, <1>9
<1>12. Buffered(queue, msg) = new
    BY DEF Buffered, k, all, new
<1> QED
    BY <1>6, <1>7, <1>8, <1>9, <1>10, <1>11, <1>12

\* A pass pops a part of the buffer, at most all of it.
LEMMA PoppedPart ==
    ASSUME NEW queue \in Seq(Messages), NEW expired
    PROVE  PoppedCount(queue, expired) \in 0..Len(queue)
<1> DEFINE full == {n \in DOMAIN queue :
                       n \notin expired /\ Cardinality((1..n) \ expired) = BatchLimit}
<1>1. CASE full = {}
    BY <1>1 DEF PoppedCount
<1>2. CASE full # {}
    <2>1. PoppedCount(queue, expired) = CHOOSE n \in full : TRUE
        BY <1>2, Zenon DEF PoppedCount
    <2>2. (CHOOSE n \in full : TRUE) \in full
        BY <1>2, Zenon
    <2>3. full \subseteq 0..Len(queue)
        OBVIOUS
    <2> QED
        BY <2>1, <2>2, <2>3
<1> QED
    BY <1>1, <1>2

\* The fields of the message handler in its states.
LEMMA SenderFields ==
    ASSUME sender \in SenderStates
    PROVE  /\ sender.at \in {"idle", "connect", "buffer", "write", "sent", "reply"}
           /\ sender.at # "idle" => sender.to \in Peers /\ sender.msg \in Messages
           /\ sender.at \in {"write", "sent", "reply"} =>
                sender \in [at : {"write", "sent", "reply"}, to : Peers, msg : Messages,
                           conn : {"live", "dead"}]
    BY DEF SenderStates, SenderIdle

\* The fields of the batch processor in its states.
LEMMA PassFields ==
    ASSUME pass \in PassStates
    PROVE  /\ pass.at \in {"tick", "peers", "groups", "sent", "more"}
           /\ pass.at = "tick" => pass = PassIdle
           /\ pass.at = "peers" => pass \in [at : {"peers"}, left : SUBSET Peers]
           /\ pass.at = "groups" =>
                pass \in [at : {"groups"}, left : SUBSET Peers, to : Peers, conn : {"live", "dead"},
                         taken : Seq(Messages), groups : PassGroups]
           /\ pass.at \in {"sent", "more"} =>
                pass \in [at : {"sent", "more"}, left : SUBSET Peers, to : Peers,
                         conn : {"live", "dead"}, taken : Seq(Messages), groups : PassGroups,
                         prio : Priorities]
    BY DEF PassStates, PassIdle

\* A connection that is lost changes nothing else of the task that holds it.
LEMMA CutFields ==
    ASSUME OutboxTypeOK, NEW p
    PROVE  /\ Cut(sender, p) \in SenderStates /\ Cut(sender, p).at = sender.at
           /\ sender.at # "idle" => Cut(sender, p).msg = sender.msg
           /\ Cut(pass, p) \in PassStates /\ Cut(pass, p).at = pass.at
           /\ InGroups => /\ Cut(pass, p).to = pass.to /\ Cut(pass, p).taken = pass.taken
                          /\ Cut(pass, p).groups = pass.groups
           /\ pass.at = "sent" => Cut(pass, p).prio = pass.prio
<1>1. /\ Cut(sender, p) \in SenderStates /\ Cut(sender, p).at = sender.at
      /\ sender.at # "idle" => Cut(sender, p).msg = sender.msg
    <2>1. CASE sender.at \in {"write", "sent", "reply"}
        BY <2>1, SenderFields DEF OutboxTypeOK, Cut, SenderStates
    <2>2. CASE sender.at \notin {"write", "sent", "reply"}
        BY <2>2, SenderFields DEF OutboxTypeOK, Cut
    <2> QED
        BY <2>1, <2>2
<1>2. CASE pass.at = "groups"
    BY <1>1, <1>2, PassFields, Zenon DEF OutboxTypeOK, Cut, PassStates, InGroups
<1>3. CASE pass.at \in {"sent", "more"}
    BY <1>1, <1>3, PassFields DEF OutboxTypeOK, Cut, PassStates, InGroups
<1>4. CASE pass.at \notin {"groups", "sent", "more"}
    BY <1>1, <1>4, PassFields DEF OutboxTypeOK, Cut, InGroups
<1> QED
    BY <1>2, <1>3, <1>4

\* A step that moves no message, or drops some, keeps the invariant.
LEMMA NothingMoves ==
    ASSUME OutboxInv, OutboxTypeOK', UNCHANGED <<buffers, received>>, Settled <= Settled',
           sender'.at # "idle" => sender'.msg.id = produced',
           InGroups' => /\ InGroups /\ pass'.to = pass.to /\ pass'.taken = pass.taken
                        /\ \A prio \in Priorities : pass'.groups[prio] \subseteq pass.groups[prio]
                        /\ pass'.at = "sent" => pass'.groups[pass'.prio] # {}
    PROVE  OutboxInv'
<1>1. Settled \in Int /\ Settled' \in Int
    BY DEF OutboxInv, OutboxTypeOK, Settled
<1>2. ASSUME NEW queue \in Seq(Messages), Distinct(queue)
      PROVE  /\ \A i \in DOMAIN queue : queue[i].id <= Settled'
             /\ \A i, j \in DOMAIN queue : queue[i].id = queue[j].id => i = j
    <2>1. \A i \in DOMAIN queue : queue[i].id \in Nat
        BY MessageFields
    <2> QED
        BY <1>1, <1>2, <2>1 DEF Distinct
<1>3. ASSUME NEW p \in Peers
      PROVE  /\ Distinct(buffers[p])' /\ Distinct(received[p])'
             /\ \A i \in DOMAIN buffers'[p], j \in DOMAIN received'[p] :
                   buffers'[p][i].id # received'[p][j].id
    <2>1. buffers[p] \in Seq(Messages) /\ received[p] \in Seq(Messages)
        BY DEF OutboxInv, OutboxTypeOK
    <2>2. Distinct(buffers[p]) /\ Distinct(received[p])
          /\ \A i \in DOMAIN buffers[p], j \in DOMAIN received[p] :
                   buffers[p][i].id # received[p][j].id
        BY DEF OutboxInv
    <2> QED
        BY <1>2, <2>1, <2>2 DEF Distinct
<1>4. PassInv'
    <2> SUFFICES ASSUME InGroups' PROVE PassInv'
        BY DEF PassInv
    <2>1. pass.taken \in Seq(Messages) /\ Distinct(pass.taken)
        BY PassFields DEF OutboxInv, OutboxTypeOK, PassInv, InGroups
    <2>2. Distinct(pass.taken)'
        BY <1>2, <2>1 DEF Distinct
    <2> QED
        BY <2>2 DEF OutboxInv, PassInv
<1>5. BuffersInOrder'
    BY DEF OutboxInv, BuffersInOrder
<1> QED
    BY <1>3, <1>4, <1>5 DEF OutboxInv

\* Before Raft has produced a message.
LEMMA OutboxInitInv == OutboxInit => OutboxInv
<1> SUFFICES ASSUME OutboxInit PROVE OutboxInv
    OBVIOUS
<1>1. OutboxTypeOK
    BY OutboxAssumption DEF OutboxInit, OutboxTypeOK, SenderStates, PassStates
<1>2. \A p \in Peers : Distinct(buffers[p]) /\ Distinct(received[p])
    BY DEF OutboxInit, Distinct
<1>3. BuffersInOrder
    BY OutboxAssumption DEF OutboxInit, BuffersInOrder
<1>4. PassInv
    BY DEF OutboxInit, PassInv, InGroups, PassIdle
<1> QED
    BY <1>1, <1>2, <1>3, <1>4 DEF OutboxInit, OutboxInv, SenderIdle

\* The peers, the cache of connections and the shutdown.
LEMMA NetworkStep ==
    ASSUME OutboxInv,
           \/ \E p \in Peers : \/ PeerLearned(p) \/ PeerGoesDown(p) \/ PeerComesBack(p)
                               \/ ConnectionAges(p)
           \/ CheckHealth \/ SignalShutdown \/ FinishShutdown \/ UNCHANGED outboxVars
    PROVE  OutboxInv'
<1> USE DEF networkVars
<1>1. Settled \in Int
    BY DEF OutboxInv, OutboxTypeOK, Settled
<1>2. ASSUME OutboxTypeOK', UNCHANGED <<produced, sender, buffers, pass, received>>
      PROVE  OutboxInv'
    <2>1. Settled' = Settled /\ (InGroups' <=> InGroups)
        BY <1>2 DEF Settled, InGroups
    <2> QED
        BY <1>1, <1>2, <2>1, NothingMoves DEF OutboxInv, PassInv
<1>3. ASSUME NEW p \in Peers, PeerLearned(p) PROVE OutboxInv'
    BY <1>2, <1>3 DEF PeerLearned, OutboxInv, OutboxTypeOK
<1>4. ASSUME NEW p \in Peers, PeerComesBack(p) PROVE OutboxInv'
    BY <1>2, <1>4 DEF PeerComesBack, OutboxInv, OutboxTypeOK
<1>5. ASSUME NEW p \in Peers, ConnectionAges(p) PROVE OutboxInv'
    BY <1>2, <1>5 DEF ConnectionAges, OutboxInv, OutboxTypeOK
<1>6. CASE CheckHealth
    BY <1>2, <1>6 DEF CheckHealth, OutboxInv, OutboxTypeOK
<1>7. CASE SignalShutdown
    BY <1>2, <1>7 DEF SignalShutdown, OutboxInv, OutboxTypeOK
<1>8. CASE FinishShutdown
    BY <1>2, <1>8 DEF FinishShutdown, OutboxInv, OutboxTypeOK
<1>9. CASE UNCHANGED outboxVars
    BY <1>2, <1>9 DEF outboxVars, OutboxInv, OutboxTypeOK
<1>10. ASSUME NEW p \in Peers, PeerGoesDown(p) PROVE OutboxInv'
    <2>1. sender' = Cut(sender, p) /\ pass' = Cut(pass, p) /\ UNCHANGED <<produced, buffers, received>>
        BY <1>10 DEF PeerGoesDown
    <2>2. OutboxTypeOK'
        <3>1. sender' \in SenderStates /\ pass' \in PassStates
            BY <2>1, CutFields DEF OutboxInv
        <3> QED
            BY <1>10, <3>1, OutboxAssumption DEF PeerGoesDown, OutboxInv, OutboxTypeOK
    <2>3. Settled' = Settled /\ (InGroups' <=> InGroups)
        BY <2>1, CutFields DEF Settled, InGroups, OutboxInv
    <2>4. sender'.at # "idle" => sender'.msg.id = produced'
        BY <2>1, CutFields DEF OutboxInv
    <2>5. InGroups' => /\ InGroups /\ pass'.to = pass.to /\ pass'.taken = pass.taken
                       /\ pass'.groups = pass.groups
                       /\ pass'.at = "sent" => pass'.groups[pass'.prio] # {}
        BY <2>1, <2>3, CutFields DEF OutboxInv, PassInv
    <2> QED
        BY <1>1, <2>1, <2>2, <2>3, <2>4, <2>5, NothingMoves
<1> QED
    BY <1>3, <1>4, <1>5, <1>6, <1>7, <1>8, <1>9, <1>10

\* The message handler until the message is delivered or put in the buffer.
LEMMA HandlerKeeps ==
    ASSUME OutboxInv,
           \/ \E p \in Peers : \/ SendToUnknown(p)
                               \/ \E prio \in Priorities : SendMessage(p, prio)
           \/ Connect \/ ConnectFails \/ Write \/ WriteFails \/ ReadReply
    PROVE  OutboxInv'
<1> USE DEF networkVars
<1>1. produced \in Nat /\ Settled \in Int
    BY OutboxAssumption DEF OutboxInv, OutboxTypeOK, Settled
<1>2. /\ sender.at \in {"idle", "connect", "buffer", "write", "sent", "reply"}
      /\ sender.at # "idle" => sender.to \in Peers /\ sender.msg \in Messages
                               /\ sender.msg.id = produced
      /\ sender.at \in {"write", "sent", "reply"} =>
           sender \in [at : {"write", "sent", "reply"}, to : Peers, msg : Messages,
                      conn : {"live", "dead"}]
    BY SenderFields DEF OutboxInv, OutboxTypeOK
<1>3. ASSUME OutboxTypeOK', UNCHANGED <<buffers, pass, received>>, Settled <= Settled',
             sender'.at # "idle" => sender'.msg.id = produced'
      PROVE  OutboxInv'
    <2>1. InGroups' <=> InGroups
        BY <1>3 DEF InGroups
    <2> QED
        BY <1>3, <2>1, NothingMoves DEF OutboxInv, PassInv
<1>4. ASSUME NEW p \in Peers, SendToUnknown(p) PROVE OutboxInv'
    <2>1. OutboxTypeOK'
        BY <1>4, OutboxAssumption DEF SendToUnknown, OutboxInv, OutboxTypeOK
    <2>2. Settled <= Settled'
        BY <1>1, <1>4 DEF SendToUnknown, Settled
    <2> QED
        BY <1>3, <1>4, <2>1, <2>2 DEF SendToUnknown
<1>5. ASSUME NEW p \in Peers, NEW prio \in Priorities, SendMessage(p, prio) PROVE OutboxInv'
    <2> DEFINE msg == [id |-> produced + 1, priority |-> prio]
    <2>1. msg \in Messages /\ msg.id = produced + 1
        BY <1>1, <1>5, OutboxAssumption DEF SendMessage, Messages
    <2> HIDE DEF msg
    <2>2. connections[p] \in {"none", "live", "dead"}
        BY DEF OutboxInv, OutboxTypeOK
    <2>3. sender' \in {[at |-> "buffer", to |-> p, msg |-> msg], [at |-> "connect", to |-> p, msg |-> msg],
                       [at |-> "write", to |-> p, msg |-> msg, conn |-> connections[p]]}
          /\ (sender'.at = "write" => connections[p] # "none")
        BY <1>5 DEF SendMessage, msg
    <2>4. sender' \in SenderStates /\ sender'.at \in {"buffer", "connect", "write"}
          /\ sender'.msg = msg
        BY <2>1, <2>2, <2>3 DEF SenderStates
    <2>5. produced' = produced + 1 /\ produced' \in 0..MaxMessages
        BY <1>1, <1>5, OutboxAssumption DEF SendMessage
    <2>6. OutboxTypeOK'
        BY <1>5, <2>4, <2>5 DEF SendMessage, OutboxInv, OutboxTypeOK
    <2>7. Settled <= Settled'
        BY <1>1, <1>5, <2>4, <2>5, SMTT(30) DEF SendMessage, Settled
    <2> QED
        BY <1>3, <1>5, <2>1, <2>4, <2>5, <2>6, <2>7 DEF SendMessage
<1>6. ASSUME sender'.at \in {"connect", "buffer", "write", "sent"}, sender' \in SenderStates,
             sender.at \in {"connect", "write"}, sender'.msg = sender.msg,
             OutboxTypeOK', UNCHANGED <<produced, buffers, pass, received>>
      PROVE  OutboxInv'
    <2>1. Settled' = Settled
        BY <1>6 DEF Settled
    <2> QED
        BY <1>1, <1>2, <1>3, <1>6, <2>1
<1>7. CASE Connect
    <2>1. sender' \in SenderStates /\ sender'.at = "write" /\ sender'.msg = sender.msg
        BY <1>2, <1>7 DEF Connect, SenderStates
    <2>2. OutboxTypeOK'
        BY <1>2, <1>7, <2>1 DEF Connect, Connected, OutboxInv, OutboxTypeOK
    <2> QED
        BY <1>6, <1>7, <2>1, <2>2 DEF Connect
<1>8. CASE ConnectFails
    <2>1. sender' \in SenderStates /\ sender'.at = "buffer" /\ sender'.msg = sender.msg
        BY <1>2, <1>8 DEF ConnectFails, SenderStates
    <2>2. OutboxTypeOK'
        BY <1>2, <1>8, <2>1 DEF ConnectFails, OutboxInv, OutboxTypeOK
    <2> QED
        BY <1>6, <1>8, <2>1, <2>2 DEF ConnectFails
<1>9. CASE WriteFails
    <2>1. sender' \in SenderStates /\ sender'.at = "buffer" /\ sender'.msg = sender.msg
        BY <1>2, <1>9 DEF WriteFails, SenderStates
    <2>2. OutboxTypeOK'
        BY <1>9, <2>1 DEF WriteFails, OutboxInv, OutboxTypeOK
    <2> QED
        BY <1>6, <1>9, <2>1, <2>2 DEF WriteFails
<1>10. CASE Write
    <2>1. sender' \in SenderStates /\ sender'.at = "sent" /\ sender'.msg = sender.msg
        BY <1>2, <1>10 DEF Write, SenderStates
    <2>2. OutboxTypeOK'
        BY <1>10, <2>1 DEF Write, OutboxInv, OutboxTypeOK
    <2> QED
        BY <1>6, <1>10, <2>1, <2>2 DEF Write
<1>11. CASE ReadReply
    <2>1. sender' = SenderIdle /\ UNCHANGED <<produced, buffers, pass, received>>
        BY <1>11 DEF ReadReply
    <2>2. OutboxTypeOK'
        BY <1>11, <2>1 DEF ReadReply, OutboxInv, OutboxTypeOK, SenderStates
    <2>3. Settled <= Settled'
        BY <1>1, <2>1 DEF Settled, SenderIdle
    <2> QED
        BY <1>3, <2>1, <2>2, <2>3 DEF SenderIdle
<1> QED
    BY <1>4, <1>5, <1>7, <1>8, <1>9, <1>10, <1>11

\* The peer gets the handler's message: it is newer than all it has.
LEMMA ReceiveStep ==
    ASSUME OutboxInv, Receive
    PROVE  OutboxInv'
<1> DEFINE p == sender.to
<1>1. /\ p \in Peers /\ sender.msg \in Messages /\ sender.msg.id = produced
      /\ sender \in [at : {"write", "sent", "reply"}, to : Peers, msg : Messages, conn : {"live", "dead"}]
    BY SenderFields DEF OutboxInv, OutboxTypeOK, Receive
<1>2. /\ received' = [received EXCEPT ![p] = Append(@, sender.msg)]
      /\ sender' = [sender EXCEPT !.at = "reply"]
      /\ UNCHANGED <<buffers, pass, produced>>
    BY DEF Receive
<1>3. sender' \in SenderStates /\ sender'.at = "reply" /\ sender'.msg = sender.msg
    BY <1>1, <1>2 DEF SenderStates
<1>4. OutboxTypeOK'
    <2>1. received' \in [Peers -> Seq(Messages)]
        BY <1>1, <1>2 DEF OutboxInv, OutboxTypeOK
    <2> QED
        BY <1>2, <1>3, <2>1 DEF Receive, networkVars, OutboxInv, OutboxTypeOK
<1>5. produced \in Nat /\ Settled = produced - 1 /\ Settled' = produced
    BY <1>2, <1>3, OutboxAssumption DEF Receive, Settled, OutboxInv, OutboxTypeOK
<1>6. ASSUME NEW queue \in Seq(Messages), Distinct(queue)
      PROVE  /\ \A i \in DOMAIN queue : queue[i].id < produced
             /\ \A i, j \in DOMAIN queue : queue[i].id = queue[j].id => i = j
    <2>1. \A i \in DOMAIN queue : queue[i].id \in Nat
        BY MessageFields
    <2> QED
        BY <1>5, <1>6, <2>1 DEF Distinct
<1>7. ASSUME NEW q \in Peers
      PROVE  /\ Distinct(buffers[q])' /\ Distinct(received[q])'
             /\ \A i \in DOMAIN buffers'[q], j \in DOMAIN received'[q] :
                   buffers'[q][i].id # received'[q][j].id
    <2>1. /\ buffers[q] \in Seq(Messages) /\ received[q] \in Seq(Messages)
          /\ Distinct(buffers[q]) /\ Distinct(received[q])
          /\ \A i \in DOMAIN buffers[q], j \in DOMAIN received[q] :
                   buffers[q][i].id # received[q][j].id
        BY DEF OutboxInv, OutboxTypeOK
    <2>2. /\ \A i \in DOMAIN buffers[q] : buffers[q][i].id < produced /\ buffers[q][i].id \in Nat
          /\ \A i \in DOMAIN received[q] : received[q][i].id < produced /\ received[q][i].id \in Nat
        BY <1>6, <2>1, MessageFields
    <2>3. CASE q # p
        <3>1. received'[q] = received[q]
            BY <1>2, <2>3 DEF OutboxInv, OutboxTypeOK
        <3>2. buffers'[q] = buffers[q]
            BY <1>2
        <3>3. Distinct(buffers[q])'
            BY <1>5, <1>6, <2>1, <2>2, <3>2 DEF Distinct
        <3>4. Distinct(received[q])'
            BY <1>5, <1>6, <2>1, <2>2, <3>1 DEF Distinct
        <3> QED
            BY <2>1, <3>1, <3>2, <3>3, <3>4
    <2>4. CASE q = p
        <3>1. received'[q] = Append(received[q], sender.msg)
            BY <1>1, <1>2, <2>4 DEF OutboxInv, OutboxTypeOK
        <3>2. \A i \in DOMAIN received'[q] :
                \/ i \in DOMAIN received[q] /\ received'[q][i] = received[q][i]
                \/ i = Len(received[q]) + 1 /\ received'[q][i] = sender.msg
            BY <1>1, <2>1, <3>1
        <3>3. Distinct(buffers[q])'
            BY <1>2, <1>5, <1>6, <2>1, <2>2 DEF Distinct
        <3>4. \A i \in DOMAIN received'[q] : received'[q][i].id <= produced
            BY <1>1, <1>5, <2>2, <3>2
        <3>5. \A i, j \in DOMAIN received'[q] : received'[q][i].id = received'[q][j].id => i = j
            BY <1>1, <1>5, <1>6, <2>1, <2>2, <3>2
        <3>6. \A i \in DOMAIN buffers[q], j \in DOMAIN received'[q] :
                   buffers[q][i].id # received'[q][j].id
            BY <1>1, <1>5, <2>1, <2>2, <3>2
        <3> QED
            BY <1>2, <1>5, <3>3, <3>4, <3>5, <3>6 DEF Distinct
    <2> QED
        BY <2>3, <2>4
<1>8. PassInv'
    <2> SUFFICES ASSUME InGroups PROVE PassInv'
        BY <1>2 DEF PassInv, InGroups
    <2>1. pass.taken \in Seq(Messages) /\ pass.to \in Peers /\ Distinct(pass.taken)
        BY PassFields DEF OutboxInv, OutboxTypeOK, PassInv, InGroups
    <2>2. \A i \in DOMAIN pass.taken : pass.taken[i].id < produced /\ pass.taken[i].id \in Nat
        BY <1>6, <2>1, MessageFields
    <2>3. Distinct(pass.taken)'
        BY <1>2, <1>5, <1>6, <2>1, <2>2 DEF Distinct
    <2>4. \A j \in DOMAIN received'[pass.to] :
             \/ j \in DOMAIN received[pass.to] /\ received'[pass.to][j] = received[pass.to][j]
             \/ received'[pass.to][j].id = produced
        BY <1>1, <1>2, <2>1 DEF OutboxInv, OutboxTypeOK
    <2>5. ASSUME NEW prio \in Priorities, NEW i \in pass.groups[prio], NEW j \in DOMAIN received'[pass.to]
          PROVE  /\ i \in DOMAIN pass.taken /\ pass.taken[i].priority = prio
                 /\ pass.taken[i].id # received'[pass.to][j].id
        <3>1. i \in DOMAIN pass.taken /\ pass.taken[i].priority = prio
              /\ \A k \in DOMAIN received[pass.to] : pass.taken[i].id # received[pass.to][k].id
            BY DEF OutboxInv, PassInv
        <3> QED
            BY <1>5, <2>2, <2>4, <3>1
    <2> QED
        BY <1>2, <2>3, <2>5 DEF OutboxInv, PassInv, InGroups
<1>9. BuffersInOrder'
    BY <1>2 DEF OutboxInv, BuffersInOrder
<1> QED
    BY <1>1, <1>2, <1>3, <1>4, <1>7, <1>8, <1>9 DEF OutboxInv

\* buffer_message: the message goes from the handler to the buffer of its peer.
LEMMA BufferStep ==
    ASSUME OutboxInv, BufferMessage
    PROVE  OutboxInv'
<1> DEFINE p == sender.to
           new == Buffered(buffers[p], sender.msg)
<1>1. p \in Peers /\ sender.msg \in Messages /\ sender.msg.id = produced
    BY SenderFields DEF OutboxInv, OutboxTypeOK, BufferMessage
<1>2. /\ buffers' = [buffers EXCEPT ![p] = new]
      /\ sender' = SenderIdle /\ pass.at = "tick"
      /\ UNCHANGED <<received, pass, produced>>
    BY DEF BufferMessage
<1>3. produced \in Nat /\ Settled = produced - 1 /\ Settled' = produced
    BY <1>2, OutboxAssumption DEF BufferMessage, Settled, OutboxInv, OutboxTypeOK, SenderIdle
<1>4. ASSUME NEW queue \in Seq(Messages), Distinct(queue)
      PROVE  /\ \A i \in DOMAIN queue : queue[i].id < produced
             /\ \A i, j \in DOMAIN queue : queue[i].id = queue[j].id => i = j
    <2>1. \A i \in DOMAIN queue : queue[i].id \in Nat
        BY MessageFields
    <2> QED
        BY <1>3, <1>4, <2>1 DEF Distinct
<1>5. buffers[p] \in Seq(Messages) /\ Distinct(buffers[p]) /\ Ordered(buffers[p])
    BY <1>1 DEF OutboxInv, OutboxTypeOK, BuffersInOrder, Ordered
<1>6. /\ new \in Seq(Messages) /\ Len(new) <= MaxBuffered /\ Ordered(new)
      /\ \A i, j \in DOMAIN new : new[i].id = new[j].id => i = j
      /\ \A i \in DOMAIN new : new[i] = sender.msg \/ \E j \in DOMAIN buffers[p] : new[i] = buffers[p][j]
    BY <1>1, <1>4, <1>5, BufferedInOrder
<1>7. buffers'[p] = new /\ \A q \in Peers \ {p} : buffers'[q] = buffers[q]
    BY <1>1, <1>2 DEF OutboxInv, OutboxTypeOK
<1>8. buffers' \in [Peers -> Seq(Messages)]
    BY <1>1, <1>2, <1>6 DEF OutboxInv, OutboxTypeOK
<1> HIDE DEF new
<1>9. OutboxTypeOK'
    BY <1>2, <1>8 DEF BufferMessage, networkVars, OutboxInv, OutboxTypeOK, SenderStates
<1>10. BuffersInOrder'
    <2> SUFFICES ASSUME NEW q \in Peers PROVE Len(buffers'[q]) <= MaxBuffered /\ Ordered(buffers'[q])
        BY DEF BuffersInOrder, Ordered
    <2>1. CASE q = p
        BY <1>6, <1>7, <2>1
    <2>2. CASE q # p
        BY <1>7, <2>2 DEF OutboxInv, BuffersInOrder, Ordered
    <2> QED
        BY <2>1, <2>2
<1>11. ASSUME NEW q \in Peers
      PROVE  /\ Distinct(buffers[q])' /\ Distinct(received[q])'
             /\ \A i \in DOMAIN buffers'[q], j \in DOMAIN received'[q] :
                   buffers'[q][i].id # received'[q][j].id
    <2>1. /\ buffers[q] \in Seq(Messages) /\ received[q] \in Seq(Messages)
          /\ Distinct(buffers[q]) /\ Distinct(received[q])
          /\ \A i \in DOMAIN buffers[q], j \in DOMAIN received[q] :
                   buffers[q][i].id # received[q][j].id
        BY DEF OutboxInv, OutboxTypeOK
    <2>2. /\ \A i \in DOMAIN buffers[q] : buffers[q][i].id < produced /\ buffers[q][i].id \in Nat
          /\ \A i \in DOMAIN received[q] : received[q][i].id < produced /\ received[q][i].id \in Nat
        BY <1>4, <2>1, MessageFields
    <2>3. received'[q] = received[q]
        BY <1>2
    <2>4. Distinct(received[q])'
        BY <1>3, <1>4, <2>1, <2>2, <2>3 DEF Distinct
    <2>5. CASE q # p
        <3>1. Distinct(buffers[q])'
            BY <1>3, <1>4, <1>7, <2>1, <2>2, <2>5 DEF Distinct
        <3> QED
            BY <1>7, <2>1, <2>3, <2>4, <2>5, <3>1
    <2>6. CASE q = p
        <3>1. \A i \in DOMAIN new : new[i].id <= produced
            BY <1>1, <1>3, <1>6, <2>2, <2>6
        <3>2. Distinct(buffers[q])'
            BY <1>3, <1>6, <1>7, <2>6, <3>1 DEF Distinct
        <3>3. \A i \in DOMAIN new, j \in DOMAIN received[q] : new[i].id # received[q][j].id
            BY <1>1, <1>3, <1>6, <2>1, <2>2, <2>6
        <3> QED
            BY <1>7, <2>3, <2>4, <2>6, <3>2, <3>3
    <2> QED
        BY <2>5, <2>6
<1>12. PassInv'
    BY <1>2 DEF PassInv, InGroups
<1> QED
    BY <1>2, <1>9, <1>10, <1>11, <1>12 DEF OutboxInv, SenderIdle

\* The steps of a pass that move no message.
LEMMA PassKeeps ==
    ASSUME OutboxInv,
           \/ StartPass \/ GroupGoesOn \/ PeerDone \/ PassDone
           \/ \E p \in Peers : PassSkips(p)
           \/ \E prio \in Priorities : GroupFails(prio) \/ GroupWrites(prio)
    PROVE  OutboxInv'
<1> USE DEF networkVars
<1>1. /\ UNCHANGED <<networkVars, registered, connections, aged, produced, sender, buffers, shutdown, received>>
    BY DEF StartPass, GroupGoesOn, PeerDone, PassDone, PassSkips, GroupFails, GroupWrites
<1>2. Settled' = Settled /\ Settled \in Int
    BY <1>1 DEF Settled, OutboxInv, OutboxTypeOK
<1>3. ASSUME pass' \in PassStates,
             InGroups' => /\ InGroups /\ pass'.to = pass.to /\ pass'.taken = pass.taken
                          /\ \A prio \in Priorities : pass'.groups[prio] \subseteq pass.groups[prio]
                          /\ pass'.at = "sent" => pass'.groups[pass'.prio] # {}
      PROVE  OutboxInv'
    <2>1. OutboxTypeOK'
        BY <1>1, <1>3 DEF OutboxInv, OutboxTypeOK
    <2>2. sender'.at # "idle" => sender'.msg.id = produced'
        BY <1>1 DEF OutboxInv
    <2>3. Settled <= Settled' /\ UNCHANGED <<buffers, received>>
        BY <1>1, <1>2
    <2> QED
        BY <1>3, <2>1, <2>2, <2>3, NothingMoves
<1>4. pass \in PassStates
    BY DEF OutboxInv, OutboxTypeOK
<1>5. CASE StartPass
    <2>1. pass' \in [at : {"peers"}, left : SUBSET Peers]
        BY <1>5 DEF StartPass
    <2> QED
        BY <1>3, <2>1 DEF PassStates, InGroups
<1>6. CASE PeerDone
    <2>1. pass' \in [at : {"peers"}, left : SUBSET Peers]
        BY <1>4, <1>6, PassFields DEF PeerDone
    <2> QED
        BY <1>3, <2>1 DEF PassStates, InGroups
<1>7. CASE PassDone
    BY <1>3, <1>7 DEF PassDone, PassStates, InGroups, PassIdle
<1>8. ASSUME NEW p \in Peers, PassSkips(p) PROVE OutboxInv'
    <2>1. pass' \in [at : {"peers"}, left : SUBSET Peers]
        BY <1>4, <1>8, PassFields DEF PassSkips
    <2> QED
        BY <1>3, <2>1 DEF PassStates, InGroups
<1>9. ASSUME NEW prio \in Priorities, GroupFails(prio) PROVE OutboxInv'
    <2>1. pass \in [at : {"groups"}, left : SUBSET Peers, to : Peers, conn : {"live", "dead"},
                         taken : Seq(Messages), groups : PassGroups]
          /\ pass.at = "groups"
        BY <1>4, <1>9, PassFields DEF GroupFails
    <2>2. pass' = [pass EXCEPT !.groups = [pass.groups EXCEPT ![prio] = {}]]
        BY <1>9, <2>1 DEF GroupFails
    <2>3. pass.groups \in PassGroups
        BY <2>1
    <2>4. [pass.groups EXCEPT ![prio] = {}] \in PassGroups
          /\ \A q \in Priorities : [pass.groups EXCEPT ![prio] = {}][q] \subseteq pass.groups[q]
        BY <2>3 DEF PassGroups
    <2>5. pass' \in [at : {"groups"}, left : SUBSET Peers, to : Peers, conn : {"live", "dead"},
                         taken : Seq(Messages), groups : PassGroups]
          /\ pass'.at = "groups" /\ pass'.to = pass.to /\ pass'.taken = pass.taken
          /\ pass'.groups = [pass.groups EXCEPT ![prio] = {}]
        BY <2>1, <2>2, <2>4, Zenon
    <2>6. pass' \in PassStates /\ InGroups
        BY <2>1, <2>5 DEF PassStates, InGroups
    <2> QED
        BY <1>3, <2>4, <2>5, <2>6
<1>10. ASSUME NEW prio \in Priorities, GroupWrites(prio) PROVE OutboxInv'
    <2>1. pass \in [at : {"groups"}, left : SUBSET Peers, to : Peers, conn : {"live", "dead"},
                         taken : Seq(Messages), groups : PassGroups]
          /\ pass.at = "groups"
        BY <1>4, <1>10, PassFields DEF GroupWrites
    <2>2. pass' \in PassStates /\ InGroups /\ pass'.to = pass.to /\ pass'.taken = pass.taken
          /\ pass'.groups = pass.groups /\ pass'.prio = prio /\ pass.groups[prio] # {}
        BY <1>10, <2>1 DEF GroupWrites, PassStates, InGroups
    <2> QED
        BY <1>3, <2>2
<1>11. CASE GroupGoesOn
    <2>1. pass \in [at : {"sent", "more"}, left : SUBSET Peers, to : Peers,
                         conn : {"live", "dead"}, taken : Seq(Messages), groups : PassGroups,
                         prio : Priorities]
          /\ pass.at = "more"
        BY <1>4, <1>11, PassFields DEF GroupGoesOn
    <2>2. CASE pass.groups[pass.prio] # {} /\ pass.conn = "live"
        <3>1. pass' = [pass EXCEPT !.at = "sent"]
            BY <1>11, <2>2 DEF GroupGoesOn
        <3>2. pass' \in PassStates /\ InGroups /\ pass'.to = pass.to /\ pass'.taken = pass.taken
              /\ pass'.groups = pass.groups /\ pass'.prio = pass.prio
            BY <2>1, <3>1 DEF PassStates, InGroups
        <3> QED
            BY <1>3, <2>2, <3>2
    <2>3. CASE ~(pass.groups[pass.prio] # {} /\ pass.conn = "live")
        <3> DEFINE groups == [pass.groups EXCEPT ![pass.prio] = {}]
        <3>1. pass' = [at |-> "groups", left |-> pass.left, to |-> pass.to, conn |-> pass.conn,
                       taken |-> pass.taken, groups |-> groups]
            BY <1>11, <2>3, Zenon DEF GroupGoesOn
        <3>2. groups \in PassGroups
              /\ \A q \in Priorities : groups[q] \subseteq pass.groups[q]
            BY <2>1 DEF PassGroups
        <3> HIDE DEF groups
        <3>3. pass' \in PassStates /\ InGroups /\ pass'.to = pass.to /\ pass'.taken = pass.taken
              /\ pass'.groups = groups /\ pass'.at = "groups"
            BY <2>1, <3>1, <3>2 DEF PassStates, InGroups
        <3> QED
            BY <1>3, <3>2, <3>3
    <2> QED
        BY <2>2, <2>3
<1> QED
    BY <1>5, <1>6, <1>7, <1>8, <1>9, <1>10, <1>11

\* A pass takes the first messages of a buffer, and forgets those that expired.
LEMMA VisitStep ==
    ASSUME OutboxInv, NEW p \in Peers, VisitConnected(p) \/ PassConnects(p)
    PROVE  OutboxInv'
<1> USE DEF networkVars
<1>1. pass \in [at : {"peers"}, left : SUBSET Peers] /\ pass.at = "peers"
    BY PassFields DEF OutboxInv, OutboxTypeOK, VisitConnected, PassConnects
<1>2. UNCHANGED <<networkVars, registered, produced, sender, shutdown, received>>
    BY DEF VisitConnected, PassConnects
<1>3. PICK conn \in {"live", "dead"} : Visit(p, conn)
    <2>1. connections[p] \in {"none", "live", "dead"}
        BY DEF OutboxInv, OutboxTypeOK
    <2> QED
        BY <2>1 DEF VisitConnected, PassConnects
<1> DEFINE old == buffers[p]
<1>4. PICK expired \in SUBSET DOMAIN old :
        LET n == PoppedCount(old, expired)
        IN /\ expired \subseteq 1..n
           /\ buffers' = [buffers EXCEPT ![p] = SubSeq(@, n + 1, Len(@))]
           /\ pass' = [at |-> "groups", left |-> pass.left \ {p}, to |-> p, conn |-> conn,
                       taken |-> SubSeq(old, 1, n),
                       groups |-> Collected(old, expired, n)]
    BY <1>3, Zenon DEF Visit
<1> DEFINE n == PoppedCount(old, expired)
           popped == SubSeq(old, 1, n)
           rest == SubSeq(old, n + 1, Len(old))
           groups == Collected(old, expired, n)
<1>5. old \in Seq(Messages) /\ Len(old) \in Nat /\ Len(old) <= MaxBuffered
      /\ \A i \in 1..Len(old) : old[i] \in Messages
    BY DEF OutboxInv, OutboxTypeOK, BuffersInOrder
<1>6. n \in 0..Len(old)
    BY <1>5, PoppedPart
<1>7. /\ buffers' = [buffers EXCEPT ![p] = rest]
      /\ pass' = [at |-> "groups", left |-> pass.left \ {p}, to |-> p, conn |-> conn,
                  taken |-> popped, groups |-> groups]
    BY <1>4
<1> HIDE DEF n
<1>8. popped \in Seq(Messages) /\ Len(popped) = n /\ \A i \in 1..n : popped[i] = old[i]
    BY <1>5, <1>6, SubSeqProperties
<1>9. rest \in Seq(Messages) /\ Len(rest) = Len(old) - n
      /\ \A i \in 1..(Len(old) - n) : rest[i] = old[n + i]
    <2>1. \A i \in (n + 1)..Len(old) : old[i] \in Messages
        BY <1>5, <1>6
    <2> QED
        BY <1>5, <1>6, <2>1, SubSeqProperties
<1>10. groups \in PassGroups
       /\ \A prio \in Priorities : \A i \in groups[prio] : i \in 1..n /\ old[i].priority = prio
    <2>1. \A i \in 1..n : i \in 1..MaxBuffered
        BY <1>5, <1>6, OutboxAssumption
    <2> QED
        BY <2>1 DEF Collected, PassGroups
<1> HIDE DEF popped, rest, groups
<1>11. pass' \in PassStates
    BY <1>1, <1>7, <1>8, <1>10 DEF PassStates
<1>12. buffers'[p] = rest /\ (\A q \in Peers \ {p} : buffers'[q] = buffers[q])
       /\ buffers' \in [Peers -> Seq(Messages)]
    BY <1>7, <1>9 DEF OutboxInv, OutboxTypeOK
<1>13. connections' \in [Peers -> {"none", "live", "dead"}] /\ aged' \subseteq Peers
       /\ \A q \in Peers : connections'[q] = "none" => q \notin aged'
    BY Zenon DEF VisitConnected, PassConnects, Connected, OutboxInv, OutboxTypeOK
<1>14. OutboxTypeOK'
    BY <1>2, <1>11, <1>12, <1>13 DEF OutboxInv, OutboxTypeOK
<1>15. Settled' = Settled /\ Settled \in Int
    BY <1>2 DEF Settled, OutboxInv, OutboxTypeOK
<1>16. Distinct(old) /\ Ordered(old)
       /\ \A i \in DOMAIN old, j \in DOMAIN received[p] : old[i].id # received[p][j].id
    BY DEF OutboxInv, BuffersInOrder, Ordered
<1> HIDE DEF old
<1>17. \A i \in 1..Len(rest) : n + i \in DOMAIN old /\ rest[i] = old[n + i] /\ n + i > n
    BY <1>5, <1>6, <1>9
<1>18. \A i \in 1..Len(popped) : i \in DOMAIN old /\ popped[i] = old[i] /\ i <= n
    BY <1>5, <1>6, <1>8
<1>19. DOMAIN rest = 1..Len(rest) /\ DOMAIN popped = 1..Len(popped)
    BY <1>8, <1>9
<1>20. Distinct(buffers[p])'
    <2>1. \A i, j \in DOMAIN rest : n + i = n + j => i = j
        BY <1>6, <1>19
    <2>2. /\ \A i \in DOMAIN rest : rest[i].id <= Settled
          /\ \A i, j \in DOMAIN rest : rest[i].id = rest[j].id => i = j
        BY <1>16, <1>17, <1>19, <2>1 DEF Distinct
    <2> QED
        BY <1>12, <1>15, <2>2 DEF Distinct
<1>21. Distinct(pass.taken)'
    <2>1. /\ \A i \in DOMAIN popped : popped[i].id <= Settled
          /\ \A i, j \in DOMAIN popped : popped[i].id = popped[j].id => i = j
        BY <1>16, <1>18, <1>19 DEF Distinct
    <2>2. pass'.taken = popped
        BY <1>7
    <2> QED
        BY <1>15, <2>1, <2>2 DEF Distinct
<1>22. ASSUME NEW q \in Peers
       PROVE  /\ Distinct(buffers[q])' /\ Distinct(received[q])'
              /\ \A i \in DOMAIN buffers'[q], j \in DOMAIN received'[q] :
                    buffers'[q][i].id # received'[q][j].id
    <2>1. Distinct(received[q])'
        BY <1>2, <1>15 DEF Distinct, OutboxInv
    <2>2. CASE q = p
        <3>1. \A i \in DOMAIN rest, j \in DOMAIN received[q] : rest[i].id # received[q][j].id
            BY <1>16, <1>17, <1>19, <2>2
        <3> QED
            BY <1>2, <1>12, <1>20, <2>1, <2>2, <3>1
    <2>3. CASE q # p
        <3>1. buffers'[q] = buffers[q] /\ received'[q] = received[q]
            BY <1>2, <1>12, <2>3
        <3>2. Distinct(buffers[q])'
            BY <1>15, <3>1 DEF Distinct, OutboxInv
        <3> QED
            BY <2>1, <3>1, <3>2 DEF OutboxInv
    <2> QED
        BY <2>2, <2>3
<1>23. BuffersInOrder'
    <2> SUFFICES ASSUME NEW q \in Peers PROVE Len(buffers'[q]) <= MaxBuffered /\ Ordered(buffers'[q])
        BY DEF BuffersInOrder, Ordered
    <2>1. CASE q = p
        <3>1. Len(rest) <= MaxBuffered
            BY <1>5, <1>6, <1>9, OutboxAssumption
        <3>2. \A i, j \in DOMAIN rest : i < j => n + i < n + j
            BY <1>6, <1>19
        <3>3. Ordered(rest)
            BY <1>16, <1>17, <1>19, <3>2 DEF Ordered
        <3> QED
            BY <1>12, <2>1, <3>1, <3>3
    <2>2. CASE q # p
        <3>1. Len(buffers[q]) <= MaxBuffered /\ Ordered(buffers[q])
            BY DEF OutboxInv, BuffersInOrder, Ordered
        <3> QED
            BY <1>12, <2>2, <3>1
    <2> QED
        BY <2>1, <2>2
<1>24. PassInv'
    <2>1. pass'.at = "groups" /\ pass'.to = p /\ pass'.taken = popped /\ pass'.groups = groups
        BY <1>7
    <2>2. \A i \in DOMAIN popped, j \in DOMAIN rest : popped[i].id # rest[j].id
        <3> SUFFICES ASSUME NEW i \in DOMAIN popped, NEW j \in DOMAIN rest, popped[i].id = rest[j].id
                     PROVE  FALSE
            OBVIOUS
        <3>1. i = n + j
            BY <1>16, <1>17, <1>18, <1>19 DEF Distinct
        <3> QED
            BY <1>6, <1>17, <1>18, <1>19, <3>1
    <2>3. ASSUME NEW prio \in Priorities, NEW i \in groups[prio]
          PROVE  /\ i \in DOMAIN popped /\ popped[i].priority = prio
                 /\ \A j \in DOMAIN received[p] : popped[i].id # received[p][j].id
        <3>1. i \in DOMAIN popped /\ old[i].priority = prio
            BY <1>8, <1>10, <1>19
        <3> QED
            BY <1>16, <1>18, <1>19, <3>1
    <2> QED
        BY <1>2, <1>12, <1>21, <2>1, <2>2, <2>3 DEF PassInv
<1> QED
    BY <1>2, <1>14, <1>22, <1>23, <1>24 DEF OutboxInv

\* A message of a batch is received, or lost with its connection; its place leaves
\* the group either way.
LEMMA GroupSentStep ==
    ASSUME OutboxInv, GroupSent
    PROVE  OutboxInv'
<1> USE DEF networkVars
<1> DEFINE p == pass.to
           group == pass.groups[pass.prio]
           m == Min(group)
<1>1. pass \in [at : {"sent", "more"}, left : SUBSET Peers, to : Peers,
                conn : {"live", "dead"}, taken : Seq(Messages), groups : PassGroups,
                prio : Priorities]
      /\ pass.at = "sent" /\ InGroups
    BY PassFields DEF OutboxInv, OutboxTypeOK, GroupSent, InGroups
<1>2. UNCHANGED <<networkVars, registered, connections, aged, produced, sender, buffers, shutdown>>
      /\ pass' = [at |-> "more", left |-> pass.left, to |-> pass.to, conn |-> pass.conn,
                  taken |-> pass.taken, groups |-> GroupsLeft, prio |-> pass.prio]
    BY DEF GroupSent
<1>3. m \in group /\ m \in DOMAIN pass.taken /\ pass.taken[m].priority = pass.prio
      /\ \A j \in DOMAIN received[p] : pass.taken[m].id # received[p][j].id
    <2>1. group \subseteq Nat /\ group # {}
        BY <1>1 DEF PassGroups, OutboxInv, PassInv
    <2>2. m \in group
        BY <2>1, MinIsLeast, Zenon
    <2> QED
        BY <1>1, <2>2 DEF OutboxInv, PassInv
<1>4. /\ GroupsLeft \in PassGroups
      /\ \A prio \in Priorities : GroupsLeft[prio] \subseteq pass.groups[prio]
      /\ m \notin GroupsLeft[pass.prio]
    BY <1>1 DEF GroupsLeft, PassGroups
<1>5. Current = pass.taken[m]
    BY DEF Current
<1> HIDE DEF m, group
<1>6. pass' \in PassStates /\ pass'.at = "more" /\ pass'.to = p /\ pass'.taken = pass.taken
      /\ pass'.groups = GroupsLeft
    BY <1>1, <1>2, <1>4 DEF PassStates
<1>7. Settled' = Settled /\ Settled \in Int
    BY <1>2 DEF Settled, OutboxInv, OutboxTypeOK
<1>8. CASE UNCHANGED received
    <2>1. OutboxTypeOK'
        BY <1>2, <1>6, <1>8 DEF OutboxInv, OutboxTypeOK
    <2>2. sender'.at # "idle" => sender'.msg.id = produced'
        BY <1>2, Zenon DEF OutboxInv
    <2>3. Settled <= Settled' /\ UNCHANGED <<buffers, received>> /\ pass'.at # "sent"
        BY <1>2, <1>6, <1>7, <1>8
    <2> QED
        BY <1>1, <1>4, <1>6, <2>1, <2>2, <2>3, NothingMoves, Zenon
<1>9. CASE received' = [received EXCEPT ![p] = Append(@, Current)]
    <2> DEFINE msg == pass.taken[m]
               new == Append(received[p], msg)
    <2>1. msg \in Messages /\ p \in Peers /\ received[p] \in Seq(Messages) /\ msg.id <= Settled
          /\ pass.taken \in Seq(Messages)
          /\ \A i, j \in DOMAIN pass.taken : pass.taken[i].id = pass.taken[j].id => i = j
        BY <1>1, <1>3 DEF OutboxInv, OutboxTypeOK, PassInv, Distinct
    <2>2. \A j \in DOMAIN received[p] : msg.id # received[p][j].id
        BY <1>3
    <2>3. \A j \in DOMAIN buffers[p] : msg.id # buffers[p][j].id
        BY <1>1, <1>3 DEF OutboxInv, PassInv
    <2>4. \A i \in DOMAIN pass.taken : i # m => pass.taken[i].id # msg.id
        BY <1>3, <2>1
    <2> HIDE DEF msg
    <2>5. new \in Seq(Messages)
          /\ \A i \in DOMAIN new :
                \/ i \in DOMAIN received[p] /\ new[i] = received[p][i]
                \/ i = Len(received[p]) + 1 /\ new[i] = msg
        BY <2>1
    <2> HIDE DEF new
    <2>6. received'[p] = new /\ (\A q \in Peers \ {p} : received'[q] = received[q])
          /\ received' \in [Peers -> Seq(Messages)]
        BY <1>5, <1>9, <2>1, <2>5 DEF new, msg, OutboxInv, OutboxTypeOK
    <2>7. OutboxTypeOK'
        BY <1>2, <1>6, <2>6 DEF OutboxInv, OutboxTypeOK
    <2>8. ASSUME NEW q \in Peers
          PROVE  /\ Distinct(buffers[q])' /\ Distinct(received[q])'
                 /\ \A i \in DOMAIN buffers'[q], j \in DOMAIN received'[q] :
                       buffers'[q][i].id # received'[q][j].id
        <3>1. Distinct(buffers[q])' /\ buffers'[q] = buffers[q]
            BY <1>2, <1>7 DEF Distinct, OutboxInv
        <3>2. CASE q # p
            <4>1. received'[q] = received[q]
                BY <2>6, <3>2
            <4>2. Distinct(received[q])'
                BY <1>7, <4>1 DEF Distinct, OutboxInv
            <4> QED
                BY <3>1, <4>1, <4>2 DEF OutboxInv
        <3>3. CASE q = p
            <4>1. /\ \A i \in DOMAIN new : new[i].id <= Settled
                  /\ \A i, j \in DOMAIN new : new[i].id = new[j].id => i = j
                BY <2>1, <2>2, <2>5, <3>3 DEF Distinct, OutboxInv
            <4>2. \A i \in DOMAIN buffers[q], j \in DOMAIN new : buffers[q][i].id # new[j].id
                BY <2>3, <2>5, <3>3 DEF OutboxInv
            <4>3. Distinct(received[q])'
                BY <1>7, <2>6, <3>3, <4>1 DEF Distinct
            <4> QED
                BY <2>6, <3>1, <3>3, <4>2, <4>3
        <3> QED
            BY <3>2, <3>3
    <2>9. PassInv'
        <3>1. Distinct(pass.taken)'
            BY <1>1, <1>6, <1>7 DEF Distinct, OutboxInv, PassInv
        <3>2. \A i \in DOMAIN pass'.taken, j \in DOMAIN buffers'[p] :
                 pass'.taken[i].id # buffers'[p][j].id
            BY <1>1, <1>2, <1>6 DEF OutboxInv, PassInv
        <3>3. ASSUME NEW prio \in Priorities, NEW i \in GroupsLeft[prio]
              PROVE  /\ i \in DOMAIN pass.taken /\ pass.taken[i].priority = prio
                     /\ \A j \in DOMAIN new : pass.taken[i].id # new[j].id
            <4>1. i \in DOMAIN pass.taken /\ pass.taken[i].priority = prio
                  /\ \A j \in DOMAIN received[p] : pass.taken[i].id # received[p][j].id
                BY <1>1, <1>4 DEF OutboxInv, PassInv
            <4>2. i # m
                BY <1>3, <1>4, <4>1
            <4> QED
                BY <2>4, <2>5, <4>1, <4>2
        <3> QED
            BY <1>6, <2>6, <3>1, <3>2, <3>3 DEF PassInv
    <2>10. BuffersInOrder'
        BY <1>2 DEF OutboxInv, BuffersInOrder
    <2> QED
        BY <1>2, <2>7, <2>8, <2>9, <2>10 DEF OutboxInv
<1> QED
    BY <1>8, <1>9 DEF GroupSent

\* Every step of the transport keeps the invariant.
LEMMA OutboxStepInv == OutboxInv /\ [OutboxNext]_outboxVars => OutboxInv'
<1> SUFFICES ASSUME OutboxInv, [OutboxNext]_outboxVars PROVE OutboxInv'
    OBVIOUS
<1>1. CASE \/ \E p \in Peers : \/ PeerLearned(p) \/ PeerGoesDown(p) \/ PeerComesBack(p)
                               \/ ConnectionAges(p)
           \/ CheckHealth \/ SignalShutdown \/ FinishShutdown \/ UNCHANGED outboxVars
    BY <1>1, NetworkStep
<1>2. CASE \/ \E p \in Peers : \/ SendToUnknown(p)
                               \/ \E prio \in Priorities : SendMessage(p, prio)
           \/ Connect \/ ConnectFails \/ Write \/ WriteFails \/ ReadReply
    BY <1>2, HandlerKeeps
<1>3. CASE Receive
    BY <1>3, ReceiveStep
<1>4. CASE BufferMessage
    BY <1>4, BufferStep
<1>5. CASE \/ StartPass \/ GroupGoesOn \/ PeerDone \/ PassDone
           \/ \E p \in Peers : PassSkips(p)
           \/ \E prio \in Priorities : GroupFails(prio) \/ GroupWrites(prio)
    BY <1>5, PassKeeps
<1>6. CASE \E p \in Peers : VisitConnected(p) \/ PassConnects(p)
    BY <1>6, VisitStep
<1>7. CASE GroupSent
    BY <1>7, GroupSentStep
<1> QED
    BY <1>1, <1>2, <1>3, <1>4, <1>5, <1>6, <1>7, Zenon DEF OutboxNext, HandlerStep, PassStep

\* Whatever fails between the immediate send, the buffer and the batches, no peer
\* receives a message twice, for any peers, limits and number of messages.
THEOREM NoMessageTwice == OutboxSpec => []SentAtMostOnce
<1>1. OutboxInv => SentAtMostOnce
    BY DEF OutboxInv, Distinct, SentAtMostOnce, IsInjective
<1> QED
    BY <1>1, OutboxInitInv, OutboxStepInv, PTL DEF OutboxSpec

\* buffer_message and the batch processor keep every buffer within
\* max_buffered_messages and in the order of priority and production.
THEOREM BuffersStayInOrder == OutboxSpec => []BuffersInOrder
<1>1. OutboxInv => BuffersInOrder
    BY DEF OutboxInv
<1> QED
    BY <1>1, OutboxInitInv, OutboxStepInv, PTL DEF OutboxSpec
=============================================================================
