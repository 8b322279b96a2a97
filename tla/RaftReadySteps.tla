--------------------------- MODULE RaftReadySteps ---------------------------
(***************************************************************************)
(* The inductive invariant of RaftReady, the lemmas that say that every     *)
(* action of the event loop keeps the types, and those that say that every  *)
(* action but the ones that hand over messages, receive an append, apply an *)
(* entry or start the node preserves the whole invariant.                   *)
(***************************************************************************)
EXTENDS RaftReady, TLAPS

(* The inductive invariant, one conjunct per idea. *)

Saved == {"hs", "send", "apply", "light", "newly"}
InReady == {"entries"} \union Saved
Quiet == {"idle", "ready", "boot2", "tick2"}

\* Indexes stay inside the log and its table, and what is handed out is
\* committed.
IndexInv ==
    /\ dCommit <= Len(dLog) /\ dFirst - 1 <= Len(dLog)
    /\ pc \notin {"down", "failed"} =>
          /\ stabled <= Len(log) /\ committed <= Len(log)
          /\ applied <= since /\ since <= committed
          /\ dFirst - 1 <= since

\* Once the entries of a ready are saved the log table agrees with the log.
StoreInv ==
    /\ pc \in Saved => /\ Len(log) <= Len(dLog)
                       /\ \A i \in 1..Len(log) : dLog[i] = log[i]
    /\ pc \in {"light", "newly"} => log = dLog
    /\ Bootstrap /\ pc \notin {"down", "failed"} =>
          /\ Len(dLog) <= Len(log)
          /\ \A i \in 1..Len(dLog) : log[i] = dLog[i]

\* A joined node leads only terms of its own, and only a leader has messages
\* waiting between two readies.
RoleInv ==
    /\ role = "Leader" /\ ~Bootstrap => term > LeaderTerm
    /\ pc \notin {"down", "failed"} /\ role # "Leader" /\ pc # "ready" => outbox = {}
    /\ pc \in {"light", "newly"} => ~inline
    /\ inline => ret = "idle" /\ pc # "tick2"

\* A joined node has no voters and nothing new committed until it has heard
\* from its leader.
TermInv == ~Bootstrap /\ pc \notin {"down", "failed"} =>
    \/ term >= LeaderTerm
    \/ /\ voters = {} /\ committed = dFirst - 1
       /\ (pc = "light" => ~rd.save) /\ (pc = "newly" => rd.hi = 0)

\* Messages vouch for no more than the log and the term behind them.
MsgInv ==
    /\ pc \notin {"down", "failed"} =>
          \A m \in outbox : m.index <= Len(log) /\ m.term <= term
    /\ pc \in {"entries", "hs", "send"} =>
          \A m \in rd.msgs : m.index <= Len(log) /\ m.term <= term
    /\ pc = "light" => \A m \in rd.msgs : m.index <= Len(log) /\ m.term <= term

\* c is the commit index on disk, or what a joining node starts from after its
\* hard state was reset.
Synced(c) == c = dCommit \/ (dTerm = 0 /\ dCommit = 0 /\ c = dFirst - 1)

\* The hard state last reported is the one on disk, except while it is being
\* saved; a commit index that the inline ready did not save covers nothing that
\* is still to be handed out.
HsInv ==
    /\ pc \in InReady => rd.hs.term = term /\ prevHs.term = term
    /\ pc \in {"entries", "hs", "send"} => rd.hs.commit = committed
    /\ pc \in {"entries", "hs", "send", "apply"} =>
          rd.hs.commit <= committed /\ prevHs = rd.hs
    /\ pc = "apply" => rd.hs.commit = committed \/ role = "Leader"
    /\ pc \in Quiet \union {"send", "apply", "light", "newly"} => prevHs.term = dTerm
    /\ pc \in {"entries", "hs"} /\ ~rd.save => rd.hs.term = dTerm
    /\ pc = "light" => prevHs.commit = committed
    /\ pc \in Quiet \union {"newly"} => Synced(prevHs.commit) \/ prevHs.commit <= since
    /\ pc \in {"entries", "hs"} /\ ~rd.save =>
          Synced(rd.hs.commit) \/ (rd.hs.commit <= since /\ rd.lo > rd.hi)
    /\ pc \in {"send", "apply"} =>
          Synced(rd.hs.commit) \/ (rd.hs.commit <= since /\ rd.lo > rd.hi)
    /\ pc = "light" /\ ~rd.save => Synced(committed) \/ committed <= since
    /\ Bootstrap /\ pc \notin {"down", "failed"} => dCommit <= committed

\* Ranges of committed entries still to be applied.
RangeInv ==
    /\ pc \in {"entries", "hs", "send", "apply"} =>
          /\ stabled <= rd.last /\ rd.last <= Len(log)
          /\ committed = rd.hs.commit \/ committed <= rd.last
          /\ rd.hi <= rd.hs.commit /\ rd.hi <= since
          /\ rd.lo > dFirst - 1 /\ rd.lo <= since + 1
          /\ \A i \in 1..Len(smLog) : smLog[i] < rd.lo
          /\ lastApplied > 0 => lastApplied = rd.lo - 1
          /\ rd.lo <= rd.hi \/ lastApplied > 0 => rd.hi = since
          /\ rd.lo <= rd.hi + 1 \/ lastApplied = 0
    /\ pc = "light" => /\ \A i \in 1..Len(smLog) : smLog[i] <= applied
                       /\ lastApplied > 0 => lastApplied = applied
                       /\ rd.save => committed <= since
    /\ pc = "newly" => /\ rd.hi <= dCommit /\ rd.hi <= since /\ rd.hi <= committed
                       /\ \A i \in 1..Len(smLog) : smLog[i] < rd.lo /\ smLog[i] <= since
    /\ pc \in Quiet => \A i \in 1..Len(smLog) : smLog[i] <= since

\* What has been promised is in the log and in its table, and was not written
\* by a later term of this node's own.
Promises(m) == m.kind = "ack" \/ Bootstrap
OldTerms(k) == \A i \in 1..k : log[i].term <= LeaderTerm
PromiseInv ==
    /\ \A i \in promised : i \in 1..Len(dLog) /\ \A j \in 1..i : j \in promised
    /\ pc \notin {"down", "failed"} => \A i \in promised : i <= Len(log) /\ log[i] = dLog[i]
    /\ ~Bootstrap => \A i \in promised : dLog[i].term <= LeaderTerm
    /\ ~Bootstrap /\ pc \notin {"down", "failed"} => \A m \in outbox : m.kind = "ack" => OldTerms(m.index)
    /\ ~Bootstrap /\ pc \in {"entries", "hs", "send", "light"} =>
          \A m \in rd.msgs : m.kind = "ack" => OldTerms(m.index)

\* While no node leaves, a leader stays a voter and the inline ready commits
\* nothing, so that its dropped LightReady never holds a commit index.
LeaveInv == Leavers = {} =>
    /\ HardStateLoadable
    /\ \A i \in 1..Len(dLog) : dLog[i].kind # "Remove"
    /\ \A i \in 1..Len(log) : log[i].kind # "Remove"
    /\ role = "Leader" => Self \in voters
    /\ inline /\ pc \in {"ready", "entries", "hs", "send", "apply"} /\ role = "Leader"
          => voters # {Self}
    /\ pc = "apply" => rd.hs.commit = committed
    /\ pc = "newly" => prevHs.commit = committed
    /\ pc \in Quiet \union {"newly"} => Synced(prevHs.commit)
    /\ pc \in {"entries", "hs"} /\ ~rd.save => Synced(rd.hs.commit)
    /\ pc \in {"send", "apply"} => Synced(rd.hs.commit)
    /\ pc = "light" /\ ~rd.save => Synced(committed)

IInv ==
    /\ TypeOK /\ LeaveInv /\ ApplyInOrder
    /\ IndexInv /\ StoreInv /\ RoleInv /\ TermInv
    /\ MsgInv /\ HsInv /\ RangeInv /\ PromiseInv
    /\ Bootstrap => AppliedIsDurable

-----------------------------------------------------------------------------
(* Sequences. *)

\* What Append does.
LEMMA AppendFacts ==
    ASSUME NEW S, NEW s \in Seq(S), NEW e \in S
    PROVE  /\ Append(s, e) \in Seq(S) /\ Len(Append(s, e)) = Len(s) + 1
           /\ \A i \in 1..Len(s) : Append(s, e)[i] = s[i]
           /\ Append(s, e)[Len(s) + 1] = e
OBVIOUS

\* Overwriting d from its first row on with l keeps the rows behind l.
LEMMA StoredFacts ==
    ASSUME NEW S, NEW l \in Seq(S), NEW d \in Seq(S)
    PROVE  /\ Stored(l, d) \in Seq(S)
           /\ Len(Stored(l, d)) = Max2(Len(l), Len(d))
           /\ \A i \in 1..Len(l) : Stored(l, d)[i] = l[i]
BY DEF Stored, Max2

\* Nothing is kept of a d that is not longer.
LEMMA StoredWhole ==
    ASSUME NEW S, NEW l \in Seq(S), NEW d \in Seq(S), Len(d) <= Len(l)
    PROVE  Stored(l, d) = l
<1>1. SubSeq(d, Len(l) + 1, Len(d)) = <<>>
  OBVIOUS
<1> QED
  BY <1>1 DEF Stored

\* Cutting l behind prev and adding es.
LEMMA CutFacts ==
    ASSUME NEW S, NEW l \in Seq(S), NEW es \in Seq(S), NEW prev \in 0..Len(l)
    PROVE  /\ SubSeq(l, 1, prev) \o es \in Seq(S)
           /\ Len(SubSeq(l, 1, prev) \o es) = prev + Len(es)
           /\ \A i \in 1..prev : (SubSeq(l, 1, prev) \o es)[i] = l[i]
           /\ \A i \in 1..Len(es) : (SubSeq(l, 1, prev) \o es)[prev + i] = es[i]
OBVIOUS

-----------------------------------------------------------------------------
(* Types. *)

USE ZenonT(20), SMTT(60), BootstrapAssumption, BoundsAssumption
    DEF vars, raftVars, diskVars, driverVars

\* The entries the model builds are entries.
LEMMA EntryTypes ==
    /\ \A t \in Nat : EmptyEntry(t) \in Entries
    /\ \A p \in Proposals, t \in Nat : Entry("Normal", p, t) \in Entries
    /\ \A k \in {"Add", "Remove"}, n \in Nodes, t \in Nat : Entry(k, n, t) \in Entries
    /\ LeaderEntries \subseteq Entries
BY SMTT(60), BoundsAssumption, PeersAssumption DEF Nodes, Entries, EmptyEntry, Entry, LeaderEntries

\* BcastAppend is a set of messages.
LEMMA BcastType ==
    ASSUME NEW l \in Seq(Entries), NEW vs, term \in Nat
    PROVE  BcastAppend(l, vs) \in SUBSET Messages
BY DEF BcastAppend, Messages, Msg

\* Start preserves the types.
LEMMA StartType == TypeOK /\ Start => TypeOK'
<1> SUFFICES ASSUME TypeOK, Start PROVE TypeOK'
  OBVIOUS
<1> USE DEF TypeOK, RaftType, DiskType, DriverType, OutsideType, HardStates, Nodes
<1>1. DiskType'
  BY DEF Start, InitializeStorage, LoadInitialState, StartLog
<1>2. committed' \in Nat /\ applied' \in Nat /\ since' \in Nat /\ stabled' \in Nat
  BY SMTT(60), <1>1 DEF Start, InitializeStorage, LoadInitialState, Max2
<1>3. term' \in Nat /\ role' \in {"Follower", "Candidate", "Leader"}
  BY <1>1 DEF Start, InitializeStorage, LoadInitialState, Campaign
<1>q. EmptyEntry(dTerm' + 1) \in Entries
  BY SMTT(60), <1>1, EntryTypes
<1>r. Append(dLog', EmptyEntry(dTerm' + 1)) \in Seq(Entries)
  BY SMTT(60), <1>1, <1>q
<1>s. log' = dLog' \/ log' =  Append(dLog', EmptyEntry(dTerm' + 1))
  BY DEF Start, InitializeStorage, LoadInitialState, Campaign
<1>4. log' \in Seq(Entries) /\ pendingConf' \in Nat
  <2>1. log' \in Seq(Entries)
  BY Zenon, <1>1, <1>r, <1>s
  <2>2. pendingConf' \in Nat
  BY SMTT(60), <1>1 DEF Start, InitializeStorage, LoadInitialState, Campaign
  <2> QED BY <2>1, <2>2
<1>5. outbox' \in SUBSET Messages
  BY <1>1 DEF Start, InitializeStorage, LoadInitialState, Campaign, Messages, Msg
<1>6. prevHs' \in HardStates
  BY <1>1, <1>2 DEF Start, InitializeStorage, LoadInitialState
<1>7. RaftType'
  BY Zenon, <1>1, <1>2, <1>3, <1>4, <1>5, <1>6 DEF Start, InitializeStorage, LoadInitialState
<1>8. rd' \in Readies
  BY SMTT(60) DEF Start, InitializeStorage, LoadInitialState, NoReady, Readies
<1>a. pc' \in {"down", "idle", "ready", "boot2", "tick2", "entries", "hs", "send",
               "apply", "light", "newly", "failed"} /\ ret' \in {"idle", "boot2", "tick2"}
  BY DEF Start, InitializeStorage, LoadInitialState
<1>b. inline' \in BOOLEAN
  BY Zenon DEF Start, InitializeStorage, LoadInitialState
<1>c. lastApplied' \in Nat /\ lastCompaction' \in Nat
  BY DEF Start, InitializeStorage, LoadInitialState
<1>d. needsRepl' \in BOOLEAN
  BY Zenon DEF Start, InitializeStorage, LoadInitialState
<1>e. smLog' \in Seq(Nat)
  BY SMTT(60) DEF Start, InitializeStorage, LoadInitialState
<1>9. DriverType'
  BY <1>8, <1>a, <1>b, <1>c, <1>d, <1>e
<1>10. OutsideType'
  BY DEF Start, InitializeStorage, LoadInitialState
<1> QED
  BY Zenon, <1>1, <1>7, <1>9, <1>10

\* The empty sequence.
LEMMA EmptyTypes == <<>> \in Seq(Nat) /\ <<>> \in Seq(Entries)
OBVIOUS

\* Transmit keeps net and promised in their types.
LEMMA TransmitType ==
    ASSUME TypeOK, NEW msgs \in SUBSET Messages, Transmit(msgs)
    PROVE  net' \in SUBSET Messages /\ promised' \in SUBSET Nat
<1>1. net' \in SUBSET Messages
  BY DEF Transmit, TypeOK, OutsideType
<1>2. ASSUME NEW m \in msgs PROVE 1..m.index \subseteq Nat
  BY SMTT(60) DEF Messages
<1>3. promised' \in SUBSET Nat
  BY Zenon, <1>2 DEF Transmit, TypeOK, OutsideType
<1> QED
  BY <1>1, <1>3

\* Boot2 preserves the types.
LEMMA Boot2Type ==
    ASSUME TypeOK, Boot2
    PROVE  TypeOK'
<1> USE DEF TypeOK, RaftType, DiskType, DriverType, OutsideType, HardStates, Nodes, Boot2
<1>1. EmptyEntry(term) \in Entries
  BY EntryTypes
<1>2. Append(log, EmptyEntry(term)) \in Seq(Entries)
  BY <1>1, AppendFacts
<1>3. log' \in Seq(Entries)
  BY Zenon, <1>2
<1>4. outbox' \in SUBSET Messages
  BY <1>3, BcastType
<1>5. RaftType'
  BY <1>3, <1>4
<1>6. DiskType'
  OBVIOUS
<1>7. DriverType'
  BY Zenon
<1>8. OutsideType'
  OBVIOUS
<1> QED
  BY <1>5, <1>6, <1>7, <1>8

\* HandleProposal preserves the types.
LEMMA HandleProposalType ==
    ASSUME TypeOK, NEW p \in Proposals, HandleProposal(p)
    PROVE  TypeOK'
<1> USE DEF TypeOK, RaftType, DiskType, DriverType, OutsideType, HardStates, Nodes, HandleProposal
<1>1. Entry("Normal", p, term) \in Entries
  BY EntryTypes
<1>2. Append(log, Entry("Normal", p, term)) \in Seq(Entries)
  BY <1>1, AppendFacts
<1>3. log' \in Seq(Entries)
  BY Zenon, <1>2
<1>4. outbox' \in SUBSET Messages
  BY <1>3, BcastType
<1>5. RaftType'
  BY <1>3, <1>4
<1>6. DiskType'
  OBVIOUS
<1>7. DriverType'
  BY Zenon
<1>8. OutsideType'
  BY Zenon
<1> QED
  BY <1>5, <1>6, <1>7, <1>8

\* HandleConfChange preserves the types.
LEMMA HandleConfChangeType ==
    ASSUME TypeOK, NEW k \in {"Add", "Remove"}, NEW n \in Nodes, HandleConfChange(k, n)
    PROVE  TypeOK'
<1> USE DEF TypeOK, RaftType, DiskType, DriverType, OutsideType, HardStates, Nodes, HandleConfChange
<1>1. EmptyEntry(term) \in Entries /\ Entry(k, n, term) \in Entries
  BY EntryTypes
<1>2. Append(log, EmptyEntry(term)) \in Seq(Entries) /\ Append(log, Entry(k, n, term)) \in Seq(Entries)
  BY <1>1, AppendFacts
<1>3. log' \in Seq(Entries)
  BY Zenon, <1>2
<1>4. outbox' \in SUBSET Messages
  BY <1>3, BcastType
<1>5. RaftType'
  BY SMTT(60), <1>3, <1>4
<1>6. DiskType'
  OBVIOUS
<1>7. DriverType'
  OBVIOUS
<1>8. OutsideType'
  OBVIOUS
<1> QED
  BY <1>5, <1>6, <1>7, <1>8

\* StepAppend preserves the types.
LEMMA StepAppendType ==
    ASSUME TypeOK, NEW prev \in Nat, NEW es \in Seq(LeaderEntries), NEW c \in Nat,
           StepAppend(prev, es, c)
    PROVE  TypeOK'
<1> USE DEF TypeOK, RaftType, DiskType, DriverType, OutsideType, HardStates, Nodes, StepAppend
<1>1. es \in Seq(Entries)
  BY SMTT(60), EntryTypes
<1>2. prev \in 0..Len(log)
  BY SMTT(60)
<1>3. SubSeq(log, 1, prev) \o es \in Seq(Entries)
  BY <1>1, <1>2, CutFacts
<1>4. log' \in Seq(Entries)
  BY Zenon, <1>3
<1>5. outbox' \in SUBSET Messages
  BY DEF Messages, Msg
<1>6. RaftType'
  BY <1>2, <1>4, <1>5 DEF Min2, Max2
<1>7. DiskType'
  OBVIOUS
<1>8. DriverType'
  OBVIOUS
<1>9. OutsideType'
  OBVIOUS
<1> QED
  BY <1>6, <1>7, <1>8, <1>9

\* StepResponse preserves the types.
LEMMA StepResponseType ==
    ASSUME TypeOK, NEW c \in Nat, NEW more \in BOOLEAN, StepResponse(c, more)
    PROVE  TypeOK'
<1> USE DEF TypeOK, RaftType, DiskType, DriverType, OutsideType, HardStates, Nodes, StepResponse
<1>1. RaftType'
  BY BcastType
<1>2. DiskType'
  OBVIOUS
<1>3. DriverType'
  OBVIOUS
<1>4. OutsideType'
  OBVIOUS
<1> QED
  BY <1>1, <1>2, <1>3, <1>4

\* Tick preserves the types.
LEMMA TickType ==
    ASSUME TypeOK, NEW due \in BOOLEAN, Tick(due)
    PROVE  TypeOK'
<1> USE DEF TypeOK, RaftType, DiskType, DriverType, OutsideType, HardStates, Nodes, Tick
<1>1. RaftType'
  BY SMTT(60) DEF Heartbeats, Messages, Msg
<1>2. DiskType'
  OBVIOUS
<1>3. DriverType'
  BY Zenon
<1>4. OutsideType'
  OBVIOUS
<1> QED
  BY <1>1, <1>2, <1>3, <1>4

\* Tick2 preserves the types.
LEMMA Tick2Type ==
    ASSUME TypeOK, NEW due \in BOOLEAN, Tick2(due)
    PROVE  TypeOK'
<1> USE DEF TypeOK, RaftType, DiskType, DriverType, OutsideType, HardStates, Nodes, Tick2
<1>1. RaftType'
  BY SMTT(60) DEF Heartbeats, Messages, Msg
<1>2. DiskType'
  OBVIOUS
<1>3. DriverType'
  BY Zenon
<1>4. OutsideType'
  OBVIOUS
<1> QED
  BY <1>1, <1>2, <1>3, <1>4

\* TickElection preserves the types.
LEMMA TickElectionType ==
    ASSUME TypeOK, TickElection
    PROVE  TypeOK'
<1> USE DEF TypeOK, RaftType, DiskType, DriverType, OutsideType, HardStates, Nodes, TickElection
<1>1. EmptyEntry(term + 1) \in Entries
  BY SMTT(60), EntryTypes
<1>2. Append(log, EmptyEntry(term + 1)) \in Seq(Entries)
  BY <1>1, AppendFacts
<1>3. log' \in Seq(Entries)
  BY Zenon, <1>2 DEF Campaign
<1>4. outbox' \in SUBSET Messages
  BY SMTT(60) DEF Campaign, Messages, Msg
<1>5. RaftType'
  BY SMTT(60), <1>3, <1>4 DEF Campaign
<1>6. DiskType'
  OBVIOUS
<1>7. DriverType'
  BY Zenon
<1>8. OutsideType'
  OBVIOUS
<1> QED
  BY <1>5, <1>6, <1>7, <1>8

\* NoReadyToProcess preserves the types.
LEMMA NoReadyToProcessType ==
    ASSUME TypeOK, NoReadyToProcess
    PROVE  TypeOK'
<1> USE DEF TypeOK, RaftType, DiskType, DriverType, OutsideType, HardStates, Nodes, NoReadyToProcess
<1>1. RaftType'
  OBVIOUS
<1>2. DiskType'
  OBVIOUS
<1>3. DriverType'
  OBVIOUS
<1>4. OutsideType'
  OBVIOUS
<1> QED
  BY <1>1, <1>2, <1>3, <1>4

\* BeginReady preserves the types.
LEMMA BeginReadyType ==
    ASSUME TypeOK, BeginReady
    PROVE  TypeOK'
<1> USE DEF TypeOK, RaftType, DiskType, DriverType, OutsideType, HardStates, Nodes, BeginReady
<1>1. RaftType'
  BY Zenon DEF TakeReady, HardState, HandOut, Min2, Max2
<1>2. DiskType'
  BY DEF TakeReady
<1>3. DriverType'
  BY SMTT(60) DEF TakeReady, HardState, HandOut, Min2, Readies
<1>4. OutsideType'
  BY DEF TakeReady
<1> QED
  BY Zenon, <1>1, <1>2, <1>3, <1>4

\* SaveEntries preserves the types.
LEMMA SaveEntriesType ==
    ASSUME TypeOK, SaveEntries
    PROVE  TypeOK'
<1> USE DEF TypeOK, RaftType, DiskType, DriverType, OutsideType, HardStates, Nodes, SaveEntries
<1>1. RaftType'
  OBVIOUS
<1>2. DiskType'
  BY Zenon, StoredFacts
<1>3. DriverType'
  OBVIOUS
<1>4. OutsideType'
  OBVIOUS
<1> QED
  BY <1>1, <1>2, <1>3, <1>4

\* SaveHardState preserves the types.
LEMMA SaveHardStateType ==
    ASSUME TypeOK, SaveHardState
    PROVE  TypeOK'
<1> USE DEF TypeOK, RaftType, DiskType, DriverType, OutsideType, HardStates, Nodes, SaveHardState
<1>1. RaftType'
  OBVIOUS
<1>2. DiskType'
  BY DEF Readies
<1>3. DriverType'
  OBVIOUS
<1>4. OutsideType'
  OBVIOUS
<1> QED
  BY <1>1, <1>2, <1>3, <1>4

\* Send preserves the types.
LEMMA SendType ==
    ASSUME TypeOK, Send
    PROVE  TypeOK'
<1> USE DEF TypeOK, RaftType, DiskType, DriverType, OutsideType, HardStates, Nodes, Send
<1>1. Sendable \in SUBSET Messages
  BY DEF Sendable, Readies
<1>2. net' \in SUBSET Messages /\ promised' \in SUBSET Nat
  BY <1>1, TransmitType
<1>3. RaftType'
  OBVIOUS
<1>4. DiskType'
  OBVIOUS
<1>5. DriverType'
  OBVIOUS
<1>6. OutsideType'
  BY <1>1, <1>2
<1> QED
  BY <1>3, <1>4, <1>5, <1>6

\* Advance preserves the types.
LEMMA AdvanceType ==
    ASSUME TypeOK, Advance
    PROVE  TypeOK'
<1> USE DEF TypeOK, RaftType, DiskType, DriverType, OutsideType, HardStates, Nodes, Advance
<1>1. rd.last \in Nat
  BY DEF Readies
<1>2. (committed' > rd.hs.commit) \in BOOLEAN
  BY SMTT(60)
<1>3. rd' \in Readies
  BY ZenonT(60), <1>2 DEF Readies
<1>4. RaftType'
  BY Zenon, <1>1 DEF CommittedAfterPersist, Min2, Max2
<1>5. DiskType'
  BY Zenon
<1>6. DriverType'
  BY Zenon, <1>3
<1>7. OutsideType'
  BY Zenon
<1> QED
  BY Zenon, <1>4, <1>5, <1>6, <1>7

\* LightReady preserves the types.
LEMMA LightReadyType ==
    ASSUME TypeOK, LightReady
    PROVE  TypeOK'
<1> USE DEF TypeOK, RaftType, DiskType, DriverType, OutsideType, HardStates, Nodes, LightReady
<1>1. CurrentApplied \in Nat
  BY DEF CurrentApplied
<1>2. NewlyStart \in Nat \ {0}
  BY ONLY <1>1 DEF NewlyStart
<1>3. rd' \in Readies
  BY Zenon, <1>2 DEF Readies, NewlyEnd
<1>4. rd.msgs \in SUBSET Messages
  BY DEF Readies
<1>5. net' \in SUBSET Messages /\ promised' \in SUBSET Nat
  BY Zenon, <1>4, TransmitType
<1>6. RaftType'
  BY Zenon
<1>7. DiskType'
  BY Zenon DEF LightCommit
<1>8. DriverType'
  BY <1>3
<1>9. OutsideType'
  BY Zenon, <1>5
<1> QED
  BY Zenon, <1>6, <1>7, <1>8, <1>9

\* Applying one entry keeps the types.
LEMMA ApplyTypes ==
    ASSUME TypeOK,
           \/ ApplyConf(rd.lo) /\ IsConf(log[rd.lo])
           \/ ApplyNormal(rd.lo) /\ log[rd.lo].kind = "Normal"
           \/ SkipEntry,
           rd.lo \in 1..Len(log), log' = log
    PROVE  /\ voters' \in SUBSET Nodes /\ outbox' \in SUBSET Messages /\ committed' \in Nat
           /\ dCluster' \in SUBSET Nodes /\ smSet' \in SUBSET Nat /\ smLog' \in Seq(Nat)
           /\ needsRepl' \in BOOLEAN
           /\ answers' \in [Proposals -> {"none", "waiting", "applied", "notleader", "dropped"}]
<1> USE DEF TypeOK, RaftType, DiskType, DriverType, OutsideType, Nodes
<1>1. log[rd.lo] \in Entries /\ rd.lo \in Nat
  BY SMTT(60)
<1>2. CASE ApplyConf(rd.lo) /\ IsConf(log[rd.lo])
  <2>1. voters' \in SUBSET Nodes
    BY <1>1, <1>2 DEF ApplyConf, NewVoters, IsConf, Entries
  <2>2. committed' \in Nat
    BY SMTT(60), <1>2 DEF ApplyConf, Committable
  <2>3. outbox' \in SUBSET Messages
    BY <1>2, BcastType DEF ApplyConf
  <2>4. needsRepl' \in BOOLEAN
    BY Zenon, <1>2 DEF ApplyConf
  <2> QED
    BY <1>2, <2>1, <2>2, <2>3, <2>4 DEF ApplyConf
<1>3. CASE ApplyNormal(rd.lo) /\ log[rd.lo].kind = "Normal"
  <2>1. smLog' \in Seq(Nat)
    BY <1>1, <1>3, AppendFacts DEF ApplyNormal
  <2> QED
    BY Zenon, <1>1, <1>3, <2>1 DEF ApplyNormal, Entries
<1>4. CASE SkipEntry
  BY <1>4 DEF SkipEntry
<1> QED
  BY <1>2, <1>3, <1>4

\* CompactLog preserves the types.
LEMMA CompactLogType ==
    ASSUME TypeOK, CompactLog
    PROVE  TypeOK'
<1> USE DEF TypeOK, RaftType, DiskType, DriverType, OutsideType, HardStates, Nodes, CompactLog, SnapshotIndex, CompactedFirst
<1>1. RaftType'
  OBVIOUS
<1>2. DiskType'
  BY SMTT(60) DEF Min2, Max2
<1>3. DriverType'
  BY SMTT(60) DEF Min2
<1>4. OutsideType'
  OBVIOUS
<1> QED
  BY <1>1, <1>2, <1>3, <1>4

\* Dropping the RaftManager keeps the types.
LEMMA DroppedType ==
    ASSUME TypeOK, NEW ps, Dropped(ps), pc' \in {"down", "failed"}, crashes' \in Nat
    PROVE  TypeOK'
<1> USE DEF TypeOK, RaftType, DiskType, DriverType, OutsideType, HardStates, Dropped
<1>1. rd' \in Readies
  BY SMTT(60) DEF NoReady, Readies
<1>2. RaftType'
  BY Zenon, EmptyTypes
<1>3. DiskType'
  OBVIOUS
<1>4. DriverType'
  BY Zenon, EmptyTypes, <1>1
<1>5. OutsideType'
  OBVIOUS
<1> QED
  BY <1>2, <1>3, <1>4, <1>5

-----------------------------------------------------------------------------

\* A log that is kept or appended to keeps its rows.
LEMMA Grows ==
    ASSUME NEW l \in Seq(Entries), NEW e \in Entries, NEW k, k = l \/ k = Append(l, e)
    PROVE  Len(l) <= Len(k) /\ \A i \in 1..Len(l) : i <= Len(k) /\ k[i] = l[i]
<1>1. CASE k = l
  BY <1>1
<1>2. CASE k = Append(l, e)
  BY SMTT(60), <1>2, AppendFacts
<1> QED
  BY <1>1, <1>2

\* Between readies, growing the log breaks no promise.
LEMMA PromisesKept ==
    ASSUME IInv, pc \notin {"down", "failed"}, pc' \in Quiet, UNCHANGED <<promised, dLog>>,
           \A i \in 1..Len(log) : i <= Len(log') /\ log'[i] = log[i],
           \A m \in outbox' : m \in outbox \/ m.kind # "ack"
    PROVE  PromiseInv'
<1> USE DEF IInv, TypeOK, RaftType, DiskType, PromiseInv
<1>1. \A i \in promised : i \in 1..Len(log) /\ i \in 1..Len(dLog)
  BY SMTT(60)
<1>2. \A i \in promised : i <= Len(log') /\ log'[i] = dLog'[i]
  BY <1>1
<1>3. ASSUME ~Bootstrap, NEW m \in outbox', m.kind = "ack" PROVE OldTerms(m.index)'
  <2>1. m \in outbox /\ m.index \in Nat /\ m.index <= Len(log) /\ OldTerms(m.index)
    BY <1>3 DEF MsgInv, Messages
  <2>2. \A i \in 1..m.index : i \in 1..Len(log)
    BY SMTT(60), <2>1
  <2> QED
    BY <2>1, <2>2 DEF OldTerms
<1>4. pc' \notin {"entries", "hs", "send", "light"}
  BY DEF Quiet
<1> QED
  BY <1>1, <1>2, <1>3, <1>4

\* Appending anything but a removal adds no removal.
LEMMA KeepsKinds ==
    ASSUME NEW l \in Seq(Entries), NEW e \in Entries, NEW k, k = l \/ k = Append(l, e),
           e.kind # "Remove", \A i \in 1..Len(l) : l[i].kind # "Remove"
    PROVE  \A i \in 1..Len(k) : k[i].kind # "Remove"
<1>1. CASE k = l
  BY <1>1
<1>2. CASE k = Append(l, e)
  BY SMTT(60), <1>2, AppendFacts
<1> QED
  BY <1>1, <1>2

\* Every row of the new table is a row of the log or an old row.
LEMMA StoredRows ==
    ASSUME NEW l \in Seq(Entries), NEW d \in Seq(Entries)
    PROVE  \A i \in 1..Len(Stored(l, d)) :
               \/ i \in 1..Len(l) /\ Stored(l, d)[i] = l[i]
               \/ i \in 1..Len(d) /\ Stored(l, d)[i] = d[i]
BY DEF Stored

\* Steps between readies that leave the disk alone.
LEMMA QuietLeave ==
    ASSUME IInv, pc \in Quiet, pc' \in Quiet,
           UNCHANGED <<dTerm, dCommit, dLog, dFirst, prevHs>>,
           \A i \in 1..Len(log') : log'[i].kind # "Remove",
           role' = "Leader" => Self \in voters',
           inline' /\ pc' = "ready" /\ role' = "Leader" => voters' # {Self}
    PROVE  LeaveInv'
BY DEF IInv, LeaveInv, HardStateLoadable, Synced, Quiet

\* Boot2 preserves the inductive invariant.
LEMMA Boot2Inv ==
    ASSUME IInv, Boot2
    PROVE  IInv'
<1> USE DEF IInv
<1>1. TypeOK'
  BY Boot2Type
<1>2. EmptyEntry(term) \in Entries
  BY EntryTypes DEF TypeOK, RaftType, DiskType, DriverType, OutsideType, Nodes
<1>3. log' = log \/ log' = Append(log, EmptyEntry(term))
  BY DEF Boot2
<1>4. Len(log) <= Len(log') /\ \A i \in 1..Len(log) : i <= Len(log') /\ log'[i] = log[i]
  BY SMTT(60), <1>2, <1>3, Grows DEF TypeOK, RaftType, DiskType, DriverType, OutsideType
<1>5. /\ UNCHANGED <<promised, dLog, rd>> /\ pc \in Quiet /\ pc' \in Quiet
      /\ \A m \in outbox' : m \in outbox \/ m.kind = "append"
  BY DEF Boot2, BcastAppend, Msg, Quiet
<1>6. LeaveInv'
  <2> SUFFICES ASSUME Leavers = {} PROVE LeaveInv'
    BY DEF LeaveInv
  <2>1. \A i \in 1..Len(log') : log'[i].kind # "Remove"
    <3>1. log \in Seq(Entries) /\ \A i \in 1..Len(log) : log[i].kind # "Remove"
      BY DEF LeaveInv, TypeOK, RaftType
    <3>2. EmptyEntry(term).kind # "Remove"
      BY DEF EmptyEntry, Entry
    <3> QED
      BY <1>2, <1>3, <3>1, <3>2, KeepsKinds
  <2>2. role' = "Leader" => Self \in voters'
    BY DEF LeaveInv, Boot2
  <2>3. inline' /\ pc' = "ready" /\ role' = "Leader" => voters' # {Self}
    BY DEF LeaveInv, Boot2
  <2>4. pc \in Quiet /\ pc' \in Quiet /\ UNCHANGED <<dTerm, dCommit, dLog, dFirst, prevHs>>
    BY DEF Boot2, Quiet
  <2> QED
    BY <2>1, <2>2, <2>3, <2>4, QuietLeave
<1>7. ApplyInOrder'
  BY AppendFacts, EntryTypes DEF ApplyInOrder, Boot2
<1>8. IndexInv'
  BY SMTT(60), AppendFacts, EntryTypes DEF IndexInv, Boot2, TypeOK, RaftType, DiskType, DriverType
<1>9. StoreInv'
  BY SMTT(60), <1>4, <1>5 DEF StoreInv, Saved, InReady, Quiet
<1>10. RoleInv'
  BY AppendFacts, EntryTypes DEF RoleInv, Boot2
<1>11. TermInv'
  BY AppendFacts, EntryTypes DEF TermInv, Boot2
<1>12. MsgInv'
  BY SMTT(60), AppendFacts, EntryTypes DEF MsgInv, Boot2, BcastAppend, Msg, Messages, TypeOK,
     RaftType, DiskType, DriverType
<1>13. HsInv'
  BY AppendFacts, EntryTypes DEF HsInv, Synced, Boot2, Saved, InReady, Quiet
<1>14. RangeInv'
  BY AppendFacts, EntryTypes DEF RangeInv, Boot2, Saved, InReady, Quiet
<1>15. PromiseInv'
  BY <1>4, <1>5, PromisesKept DEF Quiet
<1>16. Bootstrap => AppliedIsDurable'
  BY AppendFacts, EntryTypes DEF AppliedIsDurable, Boot2
<1> QED
  BY <1>1, <1>6, <1>7, <1>8, <1>9, <1>10, <1>11, <1>12, <1>13, <1>14, <1>15, <1>16

\* HandleProposal preserves the inductive invariant.
LEMMA HandleProposalInv ==
    ASSUME IInv, NEW p \in Proposals, HandleProposal(p)
    PROVE  IInv'
<1> USE DEF IInv
<1>1. TypeOK'
  BY HandleProposalType
<1>2. Entry("Normal", p, term) \in Entries
  BY EntryTypes DEF TypeOK, RaftType, DiskType, DriverType, OutsideType, Nodes
<1>3. log' = log \/ log' = Append(log, Entry("Normal", p, term))
  BY DEF HandleProposal
<1>4. Len(log) <= Len(log') /\ \A i \in 1..Len(log) : i <= Len(log') /\ log'[i] = log[i]
  BY SMTT(60), <1>2, <1>3, Grows DEF TypeOK, RaftType, DiskType, DriverType, OutsideType
<1>5. /\ UNCHANGED <<promised, dLog, rd>> /\ pc \in Quiet /\ pc' \in Quiet
      /\ \A m \in outbox' : m \in outbox \/ m.kind = "append"
  BY SMTT(60) DEF HandleProposal, BcastAppend, Msg, Quiet
<1>6. LeaveInv'
  <2> SUFFICES ASSUME Leavers = {} PROVE LeaveInv'
    BY DEF LeaveInv
  <2>1. \A i \in 1..Len(log') : log'[i].kind # "Remove"
    <3>1. log \in Seq(Entries) /\ \A i \in 1..Len(log) : log[i].kind # "Remove"
      BY DEF LeaveInv, TypeOK, RaftType
    <3>2. Entry("Normal", p, term).kind # "Remove"
      BY DEF EmptyEntry, Entry
    <3> QED
      BY <1>2, <1>3, <3>1, <3>2, KeepsKinds
  <2>2. role' = "Leader" => Self \in voters'
    BY DEF LeaveInv, HandleProposal
  <2>3. inline' /\ pc' = "ready" /\ role' = "Leader" => voters' # {Self}
    BY DEF LeaveInv, HandleProposal
  <2>4. pc \in Quiet /\ pc' \in Quiet /\ UNCHANGED <<dTerm, dCommit, dLog, dFirst, prevHs>>
    BY DEF HandleProposal, Quiet
  <2> QED
    BY <2>1, <2>2, <2>3, <2>4, QuietLeave
<1>7. ApplyInOrder'
  BY AppendFacts, EntryTypes DEF ApplyInOrder, HandleProposal
<1>8. IndexInv'
  BY SMTT(60), AppendFacts, EntryTypes DEF IndexInv, HandleProposal, TypeOK, RaftType, DiskType,
     DriverType
<1>9. StoreInv'
  BY SMTT(60), <1>4, <1>5 DEF StoreInv, Saved, InReady, Quiet
<1>10. RoleInv'
  BY AppendFacts, EntryTypes DEF RoleInv, HandleProposal
<1>11. TermInv'
  BY AppendFacts, EntryTypes DEF TermInv, HandleProposal
<1>12. MsgInv'
  BY SMTT(60), AppendFacts, EntryTypes DEF MsgInv, HandleProposal, BcastAppend, Msg, Messages, TypeOK,
     RaftType, DiskType, DriverType
<1>13. HsInv'
  BY AppendFacts, EntryTypes DEF HsInv, Synced, HandleProposal, Saved, InReady, Quiet
<1>14. RangeInv'
  BY AppendFacts, EntryTypes DEF RangeInv, HandleProposal, Saved, InReady, Quiet
<1>15. PromiseInv'
  BY <1>4, <1>5, PromisesKept DEF Quiet
<1>16. Bootstrap => AppliedIsDurable'
  <2>1. UNCHANGED <<dLog, dCommit>>
    BY DEF HandleProposal
  <2>2. answers' = [answers EXCEPT ![p] = "waiting"] \/ answers' = [answers EXCEPT ![p] = "notleader"]
    BY DEF HandleProposal
  <2>3. \A q \in Proposals : answers'[q] = "applied" => answers[q] = "applied"
    BY <2>2 DEF TypeOK, OutsideType
  <2> QED
    BY <2>1, <2>3 DEF AppliedIsDurable
<1> QED
  BY <1>1, <1>6, <1>7, <1>8, <1>9, <1>10, <1>11, <1>12, <1>13, <1>14, <1>15, <1>16

\* HandleConfChange preserves the inductive invariant.
LEMMA HandleConfChangeInv ==
    ASSUME IInv, NEW k \in {"Add", "Remove"}, NEW n \in Nodes, HandleConfChange(k, n),
           k = "Remove" => n \in Leavers
    PROVE  IInv'
<1> USE DEF IInv
<1>1. TypeOK'
  BY HandleConfChangeType
<1>2. EmptyEntry(term) \in Entries
  BY EntryTypes DEF TypeOK, RaftType, DiskType, DriverType, OutsideType, Nodes
<1>3. Entry(k, n, term) \in Entries
  BY EntryTypes DEF TypeOK, RaftType, DiskType, DriverType, OutsideType, Nodes
<1>4. log' = log \/ log' = Append(log, EmptyEntry(term)) \/ log' = Append(log, Entry(k, n, term))
  BY DEF HandleConfChange
<1>5. Len(log) <= Len(log') /\ \A i \in 1..Len(log) : i <= Len(log') /\ log'[i] = log[i]
  BY SMTT(60), <1>2, <1>3, <1>4, Grows DEF TypeOK, RaftType, DiskType, DriverType, OutsideType
<1>6. /\ UNCHANGED <<promised, dLog, rd>> /\ pc \in Quiet /\ pc' \in Quiet
      /\ \A m \in outbox' : m \in outbox \/ m.kind = "append"
  BY DEF HandleConfChange, BcastAppend, Msg, Quiet
<1>7. LeaveInv'
  <2> SUFFICES ASSUME Leavers = {} PROVE LeaveInv'
    BY DEF LeaveInv
  <2>1. \A i \in 1..Len(log') : log'[i].kind # "Remove"
    <3>1. log \in Seq(Entries) /\ \A i \in 1..Len(log) : log[i].kind # "Remove"
      BY DEF LeaveInv, TypeOK, RaftType
    <3>2. EmptyEntry(term).kind # "Remove" /\ Entry(k, n, term).kind # "Remove"
      BY DEF EmptyEntry, Entry
    <3> QED
      BY <1>2, <1>3, <1>4, <3>1, <3>2, KeepsKinds
  <2>2. role' = "Leader" => Self \in voters'
    BY DEF LeaveInv, HandleConfChange
  <2>3. inline' /\ pc' = "ready" /\ role' = "Leader" => voters' # {Self}
    BY DEF LeaveInv, HandleConfChange
  <2>4. pc \in Quiet /\ pc' \in Quiet /\ UNCHANGED <<dTerm, dCommit, dLog, dFirst, prevHs>>
    BY DEF HandleConfChange, Quiet
  <2> QED
    BY <2>1, <2>2, <2>3, <2>4, QuietLeave
<1>8. ApplyInOrder'
  BY AppendFacts, EntryTypes DEF ApplyInOrder, HandleConfChange
<1>9. IndexInv'
  BY SMTT(60), AppendFacts, EntryTypes DEF IndexInv, HandleConfChange, TypeOK, RaftType, DiskType,
     DriverType
<1>10. StoreInv'
  BY SMTT(60), <1>5, <1>6 DEF StoreInv, Saved, InReady, Quiet
<1>11. RoleInv'
  BY AppendFacts, EntryTypes DEF RoleInv, HandleConfChange
<1>12. TermInv'
  BY AppendFacts, EntryTypes DEF TermInv, HandleConfChange
<1>13. MsgInv'
  BY SMTT(60), AppendFacts, EntryTypes DEF MsgInv, HandleConfChange, BcastAppend, Msg, Messages,
     TypeOK, RaftType, DiskType, DriverType
<1>14. HsInv'
  BY AppendFacts, EntryTypes DEF HsInv, Synced, HandleConfChange
<1>15. RangeInv'
  BY AppendFacts, EntryTypes DEF RangeInv, HandleConfChange
<1>16. PromiseInv'
  BY <1>5, <1>6, PromisesKept DEF Quiet
<1>17. Bootstrap => AppliedIsDurable'
  BY AppendFacts, EntryTypes DEF AppliedIsDurable, HandleConfChange
<1> QED
  BY <1>1, <1>7, <1>8, <1>9, <1>10, <1>11, <1>12, <1>13, <1>14, <1>15, <1>16, <1>17

\* StepResponse preserves the inductive invariant.
LEMMA StepResponseInv ==
    ASSUME IInv, NEW c \in Nat, NEW more \in BOOLEAN, StepResponse(c, more)
    PROVE  IInv'
<1> USE DEF IInv
<1>1. TypeOK'
  BY StepResponseType
<1>2. LeaveInv'
  <2> SUFFICES ASSUME Leavers = {} PROVE LeaveInv'
    BY DEF LeaveInv
  <2>1. \A i \in 1..Len(log') : log'[i].kind # "Remove"
    BY DEF LeaveInv, StepResponse
  <2>2. role' = "Leader" => Self \in voters'
    BY DEF LeaveInv, StepResponse
  <2>3. inline' /\ pc' = "ready" /\ role' = "Leader" => voters' # {Self}
    BY DEF LeaveInv, StepResponse
  <2>4. pc \in Quiet /\ pc' \in Quiet /\ UNCHANGED <<dTerm, dCommit, dLog, dFirst, prevHs>>
    BY DEF StepResponse, Quiet
  <2> QED
    BY <2>1, <2>2, <2>3, <2>4, QuietLeave
<1>3. ApplyInOrder'
  BY DEF ApplyInOrder, StepResponse
<1>4. IndexInv'
  BY SMTT(60) DEF IndexInv, StepResponse, TypeOK, RaftType, DiskType, DriverType
<1>5. StoreInv'
  BY DEF StoreInv, StepResponse, Saved, InReady, Quiet
<1>6. RoleInv'
  BY DEF RoleInv, StepResponse
<1>7. TermInv'
  <2>1. ~Bootstrap => term > LeaderTerm
    BY DEF StepResponse, RoleInv
  <2>2. term \in Nat /\ term' = term
    BY DEF StepResponse, TypeOK, RaftType
  <2> QED
    BY <2>1, <2>2 DEF TermInv
<1>8. MsgInv'
  BY SMTT(60) DEF MsgInv, StepResponse, BcastAppend, Msg, Messages, TypeOK, RaftType, DiskType,
     DriverType
<1>9. HsInv'
  BY SMTT(60) DEF HsInv, Synced, StepResponse, TypeOK, RaftType, DiskType, DriverType, Saved, InReady, Quiet
<1>10. RangeInv'
  BY DEF RangeInv, StepResponse, Saved, InReady, Quiet
<1>11. PromiseInv'
  BY SMTT(60) DEF PromiseInv, StepResponse, OldTerms, BcastAppend, Msg
<1>12. Bootstrap => AppliedIsDurable'
  BY DEF AppliedIsDurable, StepResponse
<1> QED
  BY <1>1, <1>2, <1>3, <1>4, <1>5, <1>6, <1>7, <1>8, <1>9, <1>10, <1>11, <1>12

\* Tick preserves the inductive invariant.
LEMMA TickInv ==
    ASSUME IInv, NEW due \in BOOLEAN, Tick(due)
    PROVE  IInv'
<1> USE DEF IInv
<1>1. TypeOK'
  BY TickType
<1>2. LeaveInv'
  <2> SUFFICES ASSUME Leavers = {} PROVE LeaveInv'
    BY DEF LeaveInv
  <2>1. \A i \in 1..Len(log') : log'[i].kind # "Remove"
    BY DEF LeaveInv, Tick
  <2>2. role' = "Leader" => Self \in voters'
    BY DEF LeaveInv, Tick
  <2>3. inline' /\ pc' = "ready" /\ role' = "Leader" => voters' # {Self}
    BY DEF LeaveInv, Tick
  <2>4. pc \in Quiet /\ pc' \in Quiet /\ UNCHANGED <<dTerm, dCommit, dLog, dFirst, prevHs>>
    BY DEF Tick, Quiet
  <2> QED
    BY <2>1, <2>2, <2>3, <2>4, QuietLeave
<1>3. ApplyInOrder'
  BY DEF ApplyInOrder, Tick
<1>4. IndexInv'
  BY DEF IndexInv, Tick
<1>5. StoreInv'
  BY DEF StoreInv, Tick, Saved, InReady, Quiet
<1>6. RoleInv'
  BY DEF RoleInv, Tick, Heartbeats
<1>7. TermInv'
  BY DEF TermInv, Tick
<1>8. MsgInv'
  BY SMTT(60) DEF MsgInv, Tick, Heartbeats, Msg, Messages, TypeOK, RaftType, DiskType, DriverType
<1>9. HsInv'
  BY DEF HsInv, Synced, Tick, Saved, InReady, Quiet
<1>10. RangeInv'
  BY DEF RangeInv, Tick, Saved, InReady, Quiet
<1>11. PromiseInv'
  BY SMTT(60) DEF PromiseInv, Tick, OldTerms, Heartbeats, Msg
<1>12. Bootstrap => AppliedIsDurable'
  BY DEF AppliedIsDurable, Tick
<1> QED
  BY <1>1, <1>2, <1>3, <1>4, <1>5, <1>6, <1>7, <1>8, <1>9, <1>10, <1>11, <1>12

\* Tick2 preserves the inductive invariant.
LEMMA Tick2Inv ==
    ASSUME IInv, NEW due \in BOOLEAN, Tick2(due)
    PROVE  IInv'
<1> USE DEF IInv
<1>1. TypeOK'
  BY Tick2Type
<1>2. LeaveInv'
  <2> SUFFICES ASSUME Leavers = {} PROVE LeaveInv'
    BY DEF LeaveInv
  <2>1. \A i \in 1..Len(log') : log'[i].kind # "Remove"
    BY DEF LeaveInv, Tick2
  <2>2. role' = "Leader" => Self \in voters'
    BY DEF LeaveInv, Tick2
  <2>3. inline' /\ pc' = "ready" /\ role' = "Leader" => voters' # {Self}
    BY DEF RoleInv, Tick2
  <2>4. pc \in Quiet /\ pc' \in Quiet /\ UNCHANGED <<dTerm, dCommit, dLog, dFirst, prevHs>>
    BY DEF Tick2, Quiet
  <2> QED
    BY <2>1, <2>2, <2>3, <2>4, QuietLeave
<1>3. ApplyInOrder'
  BY DEF ApplyInOrder, Tick2
<1>4. IndexInv'
  BY DEF IndexInv, Tick2
<1>5. StoreInv'
  BY DEF StoreInv, Tick2, Saved, InReady, Quiet
<1>6. RoleInv'
  BY DEF RoleInv, Tick2, Heartbeats
<1>7. TermInv'
  BY DEF TermInv, Tick2
<1>8. MsgInv'
  BY SMTT(60) DEF MsgInv, Tick2, Heartbeats, Msg, Messages, TypeOK, RaftType, DiskType, DriverType
<1>9. HsInv'
  BY DEF HsInv, Synced, Tick2, Saved, InReady, Quiet
<1>10. RangeInv'
  BY DEF RangeInv, Tick2, Saved, InReady, Quiet
<1>11. PromiseInv'
  BY SMTT(60) DEF PromiseInv, Tick2, OldTerms, Heartbeats, Msg
<1>12. Bootstrap => AppliedIsDurable'
  BY DEF AppliedIsDurable, Tick2
<1> QED
  BY <1>1, <1>2, <1>3, <1>4, <1>5, <1>6, <1>7, <1>8, <1>9, <1>10, <1>11, <1>12

\* NoReadyToProcess preserves the inductive invariant.
LEMMA NoReadyToProcessInv ==
    ASSUME IInv, NoReadyToProcess
    PROVE  IInv'
<1> USE DEF IInv
<1>1. TypeOK'
  BY NoReadyToProcessType
<1>2. LeaveInv'
  <2> SUFFICES ASSUME Leavers = {} PROVE LeaveInv'
    BY DEF LeaveInv
  <2>1. \A i \in 1..Len(log') : log'[i].kind # "Remove"
    BY DEF LeaveInv, NoReadyToProcess
  <2>2. role' = "Leader" => Self \in voters'
    BY DEF LeaveInv, NoReadyToProcess, TypeOK, DriverType
  <2>3. inline' /\ pc' = "ready" /\ role' = "Leader" => voters' # {Self}
    BY DEF LeaveInv, NoReadyToProcess, TypeOK, DriverType
  <2>4. pc \in Quiet /\ pc' \in Quiet /\ UNCHANGED <<dTerm, dCommit, dLog, dFirst, prevHs>>
    BY DEF NoReadyToProcess, TypeOK, DriverType, Quiet
  <2> QED
    BY <2>1, <2>2, <2>3, <2>4, QuietLeave
<1>3. ApplyInOrder'
  BY DEF ApplyInOrder, NoReadyToProcess, HasReady
<1>4. IndexInv'
  BY DEF IndexInv, NoReadyToProcess, HasReady
<1>5. StoreInv'
  BY SMTT(60) DEF StoreInv, NoReadyToProcess, HasReady
<1>6. RoleInv'
  BY DEF RoleInv, NoReadyToProcess, HasReady
<1>7. TermInv'
  BY DEF TermInv, NoReadyToProcess, HasReady, TypeOK, RaftType, DiskType, DriverType
<1>8. MsgInv'
  BY DEF MsgInv, NoReadyToProcess, HasReady, TypeOK, RaftType, DiskType, DriverType
<1>9. HsInv'
  BY DEF HsInv, Synced, NoReadyToProcess, HasReady, TypeOK, RaftType, DiskType, DriverType, Saved,
     InReady, Quiet
<1>10. RangeInv'
  BY DEF RangeInv, NoReadyToProcess, HasReady, TypeOK, RaftType, DiskType, DriverType,
     Saved, InReady, Quiet
<1>11. PromiseInv'
  BY DEF PromiseInv, NoReadyToProcess, HasReady, OldTerms, TypeOK, RaftType, DiskType,
     DriverType
<1>12. Bootstrap => AppliedIsDurable'
  BY DEF AppliedIsDurable, NoReadyToProcess, HasReady
<1> QED
  BY <1>1, <1>2, <1>3, <1>4, <1>5, <1>6, <1>7, <1>8, <1>9, <1>10, <1>11, <1>12

\* SaveHardState preserves the inductive invariant.
LEMMA SaveHardStateInv ==
    ASSUME IInv, SaveHardState
    PROVE  IInv'
<1> USE DEF IInv
<1>1. TypeOK'
  BY SaveHardStateType
<1>2. LeaveInv'
  BY SMTT(60) DEF LeaveInv, HardStateLoadable, Synced, SaveHardState, IndexInv, HsInv, Synced, StoreInv, Readies, TypeOK,
     RaftType, DiskType, DriverType, Saved, InReady, Quiet
<1>3. ApplyInOrder'
  BY Zenon DEF ApplyInOrder, SaveHardState
<1>4. IndexInv'
  <2>1. /\ UNCHANGED <<dLog, dFirst, log, stabled, committed, applied, since>>
        /\ pc = "hs" /\ pc' = "send" /\ dCommit' = IF rd.save THEN rd.hs.commit ELSE dCommit
    BY DEF SaveHardState
  <2>2. Len(log) \in Nat /\ Len(dLog) \in Nat /\ committed \in Nat
    BY SMTT(60) DEF TypeOK, RaftType, DiskType
  <2>3. rd.hs.commit = committed /\ Len(log) <= Len(dLog)
    BY <2>1 DEF HsInv, StoreInv, Saved
  <2> QED
    BY <2>1, <2>2, <2>3 DEF IndexInv
<1>5. StoreInv'
  BY DEF StoreInv, SaveHardState, Saved, InReady, Quiet
<1>6. RoleInv'
  BY DEF RoleInv, SaveHardState
<1>7. TermInv'
  BY DEF TermInv, SaveHardState
<1>8. MsgInv'
  BY DEF MsgInv, SaveHardState
<1>9. HsInv'
  BY DEF HsInv, Synced, SaveHardState, Readies, TypeOK, RaftType, DiskType, DriverType, Saved,
     InReady, Quiet
<1>10. RangeInv'
  BY DEF RangeInv, SaveHardState, Saved, InReady, Quiet
<1>11. PromiseInv'
  BY DEF PromiseInv, SaveHardState, OldTerms
<1>12. Bootstrap => AppliedIsDurable'
  BY SMTT(60) DEF AppliedIsDurable, SaveHardState, HsInv, Synced, TypeOK, RaftType, DiskType, DriverType
<1> QED
  BY <1>1, <1>2, <1>3, <1>4, <1>5, <1>6, <1>7, <1>8, <1>9, <1>10, <1>11, <1>12

\* TickElection preserves the inductive invariant.
LEMMA TickElectionInv ==
    ASSUME IInv, TickElection
    PROVE  IInv'
<1> USE DEF IInv
<1>1. TypeOK'
  BY TickElectionType
<1>2. EmptyEntry(term + 1) \in Entries
  BY SMTT(60), EntryTypes DEF TypeOK, RaftType, DiskType, DriverType, OutsideType
<1>3. log' = log \/ log' = Append(log, EmptyEntry(term + 1))
  BY DEF TickElection, Campaign
<1>4. Len(log) <= Len(log') /\ \A i \in 1..Len(log) : i <= Len(log') /\ log'[i] = log[i]
  BY SMTT(60), <1>2, <1>3, Grows DEF TypeOK, RaftType, DiskType, DriverType, OutsideType
<1>5. /\ UNCHANGED <<promised, dLog, rd>> /\ pc \in Quiet /\ pc' \in Quiet
      /\ \A m \in outbox' : m.kind = "vote" /\ m.term = term' /\ m.index = Len(log)
  BY SMTT(60) DEF TickElection, Campaign, Msg, Quiet
<1>6. term' \in Nat
  BY <1>1 DEF TypeOK, RaftType, DiskType, DriverType, OutsideType
<1>7. \A m \in outbox' : m.index <= Len(log') /\ m.term <= term'
  BY SMTT(60), <1>4, <1>5, <1>6
<1>8. LeaveInv'
  <2> SUFFICES ASSUME Leavers = {} PROVE LeaveInv'
    BY DEF LeaveInv
  <2>1. \A i \in 1..Len(log') : log'[i].kind # "Remove"
    <3>1. log \in Seq(Entries) /\ \A i \in 1..Len(log) : log[i].kind # "Remove"
      BY DEF LeaveInv, TypeOK, RaftType
    <3>2. EmptyEntry(term + 1).kind # "Remove"
      BY DEF EmptyEntry, Entry
    <3> QED
      BY <1>2, <1>3, <3>1, <3>2, KeepsKinds
  <2>2. role' = "Leader" => Self \in voters'
    BY DEF LeaveInv, TickElection, Campaign
  <2>3. inline' /\ pc' = "ready" /\ role' = "Leader" => voters' # {Self}
    BY DEF LeaveInv, TickElection, Campaign
  <2>4. pc \in Quiet /\ pc' \in Quiet /\ UNCHANGED <<dTerm, dCommit, dLog, dFirst, prevHs>>
    BY DEF TickElection, Campaign, Quiet
  <2> QED
    BY <2>1, <2>2, <2>3, <2>4, QuietLeave
<1>9. ApplyInOrder'
  BY AppendFacts, EntryTypes DEF ApplyInOrder, TickElection, Campaign
<1>10. IndexInv'
  <2>1. pc = "idle" /\ UNCHANGED <<stabled, committed, applied, since, dCommit, dFirst, dLog>>
    BY DEF TickElection
  <2>2. /\ dCommit <= Len(dLog) /\ dFirst - 1 <= Len(dLog)
        /\ stabled <= Len(log) /\ committed <= Len(log)
        /\ applied <= since /\ since <= committed /\ dFirst - 1 <= since
    BY <2>1 DEF IndexInv
  <2>3. stabled \in Nat /\ committed \in Nat /\ Len(log) \in Nat /\ Len(log') \in Nat
    BY SMTT(60), <1>1 DEF TypeOK, RaftType
  <2> QED
    BY <1>4, <2>1, <2>2, <2>3 DEF IndexInv
<1>11. StoreInv'
  BY <1>4, <1>5 DEF StoreInv, Saved, InReady, Quiet
<1>12. RoleInv'
  <2>1. role' = "Leader" /\ ~Bootstrap => term >= LeaderTerm
    BY DEF TickElection, Campaign, TermInv
  <2>2. term' = term + 1 /\ term \in Nat
    BY DEF TickElection, Campaign, TypeOK, RaftType
  <2>3. pc' = "ready" /\ inline' = FALSE
    BY DEF TickElection
  <2> QED
    BY <2>1, <2>2, <2>3 DEF RoleInv
<1>13. TermInv'
  <2>1. ~Bootstrap => term >= LeaderTerm
    BY DEF TickElection, TermInv
  <2>2. term' = term + 1 /\ term \in Nat
    BY DEF TickElection, Campaign, TypeOK, RaftType
  <2>3. ~Bootstrap => term' >= LeaderTerm
    BY <2>1, <2>2
  <2> QED
    BY <2>3 DEF TermInv
<1>14. MsgInv'
  BY <1>5, <1>7 DEF MsgInv, Saved, InReady, Quiet
<1>15. HsInv'
  BY AppendFacts, EntryTypes DEF HsInv, Synced, TickElection, Campaign, Saved, InReady, Quiet
<1>16. RangeInv'
  BY AppendFacts, EntryTypes DEF RangeInv, TickElection, Campaign, Saved, InReady, Quiet
<1>17. PromiseInv'
  BY <1>4, <1>5, PromisesKept DEF Quiet
<1>18. Bootstrap => AppliedIsDurable'
  BY AppendFacts, EntryTypes DEF AppliedIsDurable, TickElection, Campaign
<1> QED
  BY <1>1, <1>8, <1>9, <1>10, <1>11, <1>12, <1>13, <1>14, <1>15, <1>16, <1>17, <1>18

\* BeginReady preserves the inductive invariant.
LEMMA BeginReadyInv ==
    ASSUME IInv, BeginReady
    PROVE  IInv'
<1> USE DEF IInv
<1>1. TypeOK'
  BY BeginReadyType
<1>2. LeaveInv'
  <2> SUFFICES ASSUME Leavers = {} PROVE LeaveInv'
    BY DEF LeaveInv
  <2>1. /\ UNCHANGED <<dTerm, dCommit, dLog, dFirst, log, role, voters, inline>>
        /\ pc = "ready" /\ pc' = "entries"
        /\ rd'.hs = HardState /\ (rd'.save <=> HardState # prevHs)
    BY Zenon DEF BeginReady, TakeReady
  <2>2. Synced(prevHs.commit)
    BY <2>1 DEF LeaveInv, Quiet
  <2>3. ~rd'.save => Synced(rd.hs.commit)'
    BY <2>1, <2>2 DEF Synced
  <2> QED
    BY <2>1, <2>3 DEF LeaveInv, HardStateLoadable, Quiet
<1>3. ApplyInOrder'
  BY DEF ApplyInOrder, BeginReady, TakeReady, HandOut, Min2, Max2, HardState, HardStates,
     Readies
<1>4. IndexInv'
  BY SMTT(60) DEF IndexInv, BeginReady, TakeReady, HandOut, Min2, Max2, HardState, HardStates,
     Readies, TypeOK, RaftType, DiskType, DriverType
<1>5. StoreInv'
  BY DEF StoreInv, BeginReady, TakeReady, HandOut, Min2, Max2, HardState, HardStates,
     Readies, Saved, InReady, Quiet
<1>6. RoleInv'
  BY DEF RoleInv, BeginReady, TakeReady, HandOut, Min2, Max2, HardState, HardStates, Readies
<1>7. TermInv'
  BY DEF TermInv, BeginReady, TakeReady, HandOut, Min2, Max2, HardState, HardStates, Readies
<1>8. MsgInv'
  BY DEF MsgInv, BeginReady, TakeReady, HandOut, Min2, Max2, HardState, HardStates, Readies,
     Readies
<1>9. HsInv'
  <2>1. /\ UNCHANGED <<dTerm, dCommit, dLog, dFirst, log, role, term, committed, inline>>
        /\ pc = "ready" /\ pc' = "entries" /\ prevHs' = HardState
        /\ rd'.hs = HardState /\ (rd'.save <=> HardState # prevHs)
        /\ rd'.lo = since + 1 /\ rd'.hi = HandOut /\ since' = Max2(since, HandOut)
    BY Zenon DEF BeginReady, TakeReady
  <2>2. /\ HardState.term = term /\ HardState.commit = committed
        /\ committed \in Nat /\ since \in Nat /\ HandOut \in Nat /\ HandOut <= committed
    BY DEF HardState, HandOut, Min2, TypeOK, RaftType
  <2>3. prevHs.term = dTerm /\ (Synced(prevHs.commit) \/ prevHs.commit <= since)
    BY <2>1 DEF HsInv, Quiet
  <2>4. ~rd'.save => /\ rd'.hs.term = dTerm'
                     /\ \/ Synced(rd.hs.commit)'
                        \/ rd'.hs.commit <= since' /\ rd'.lo > rd'.hi
    <3> SUFFICES ASSUME HardState = prevHs
                 PROVE  /\ rd'.hs.term = dTerm'
                        /\ \/ Synced(rd.hs.commit)'
                           \/ rd'.hs.commit <= since' /\ rd'.lo > rd'.hi
      BY <2>1
    <3>1. rd'.hs.term = dTerm' /\ rd'.hs.commit = prevHs.commit /\ prevHs.commit = committed
      BY <2>1, <2>2, <2>3
    <3>2. Synced(prevHs.commit) => Synced(rd.hs.commit)'
      BY <2>1, <3>1 DEF Synced
    <3>3. committed <= since => committed <= since' /\ rd'.lo > rd'.hi
      BY <2>1, <2>2 DEF Max2
    <3> QED
      BY <2>3, <3>1, <3>2, <3>3
  <2>5. Bootstrap => dCommit <= committed
    BY <2>1 DEF HsInv
  <2> QED
    BY <2>1, <2>2, <2>4, <2>5 DEF HsInv, InReady, Saved, Quiet
<1>10. RangeInv'
  BY SMTT(60) DEF RangeInv, BeginReady, TakeReady, HandOut, Min2, Max2, HardState, HardStates,
     Readies, IndexInv, TypeOK, RaftType, DiskType, DriverType, Saved, InReady, Quiet
<1>11. PromiseInv'
  BY Zenon DEF PromiseInv, BeginReady, TakeReady, HandOut, Min2, Max2, HardState,
     HardStates, Readies, OldTerms
<1>12. Bootstrap => AppliedIsDurable'
  BY DEF AppliedIsDurable, BeginReady, TakeReady, HandOut, Min2, Max2, HardState,
     HardStates, Readies
<1> QED
  BY <1>1, <1>2, <1>3, <1>4, <1>5, <1>6, <1>7, <1>8, <1>9, <1>10, <1>11, <1>12

\* SaveEntries preserves the inductive invariant.
LEMMA SaveEntriesInv ==
    ASSUME IInv, SaveEntries
    PROVE  IInv'
<1> USE DEF IInv
<1>1. TypeOK'
  BY SaveEntriesType
<1>2. /\ Len(dLog) <= Len(dLog') /\ Len(log) <= Len(dLog')
      /\ \A i \in 1..Len(log) : dLog'[i] = log[i]
      /\ Len(dLog) <= Len(log) => dLog' = log
  <2>1. log \in Seq(Entries) /\ dLog \in Seq(Entries) /\ dLog' = Stored(log, dLog)
    BY DEF SaveEntries, TypeOK, RaftType, DiskType
  <2>2. /\ Len(dLog') = Max2(Len(log), Len(dLog))
        /\ \A i \in 1..Len(log) : dLog'[i] = log[i]
    BY Zenon, <2>1, StoredFacts
  <2>3. Len(dLog) <= Len(log) => dLog' = log
    BY Zenon, <2>1, StoredWhole
  <2> QED
    BY <2>1, <2>2, <2>3 DEF Max2
<1>s. \A i \in 1..Len(dLog') : \/ i \in 1..Len(log) /\ dLog'[i] = log[i]
                               \/ i \in 1..Len(dLog) /\ dLog'[i] = dLog[i]
  <2>1. log \in Seq(Entries) /\ dLog \in Seq(Entries) /\ dLog' = Stored(log, dLog)
    BY DEF SaveEntries, TypeOK, RaftType, DiskType
  <2> QED
    BY SMTT(60), <2>1, StoredRows
<1>3. Bootstrap => dLog' = log
  BY <1>2 DEF SaveEntries, StoreInv
<1>4. \A i \in promised : i \in 1..Len(dLog') /\ dLog'[i] = dLog[i] /\ log[i] = dLog'[i]
  <2>1. /\ \A i \in promised : i \in 1..Len(dLog) /\ i <= Len(log) /\ log[i] = dLog[i]
        /\ Len(log) \in Nat /\ Len(dLog) \in Nat /\ Len(dLog') \in Nat
    BY SMTT(60), <1>1 DEF PromiseInv, SaveEntries, TypeOK, RaftType, DiskType
  <2> QED
    BY SMTT(60), <1>2, <2>1
<1>5. UNCHANGED <<promised, log, outbox, rd>> /\ pc = "entries" /\ pc' = "hs"
  BY DEF SaveEntries
<1>6. LeaveInv'
  <2> SUFFICES ASSUME Leavers = {} PROVE LeaveInv'
    BY DEF LeaveInv
  <2>1. /\ UNCHANGED <<dTerm, dCommit, dFirst, log, role, voters, inline, rd, prevHs>>
        /\ pc = "entries" /\ pc' = "hs"
    BY DEF SaveEntries
  <2>2. HardStateLoadable'
    BY <1>2, <2>1 DEF LeaveInv, HardStateLoadable, TypeOK, DiskType, RaftType
  <2>3. \A i \in 1..Len(dLog') : dLog'[i].kind # "Remove"
    BY <1>2, <1>s DEF LeaveInv
  <2> QED
    BY <2>1, <2>2, <2>3 DEF LeaveInv, Synced, Quiet
<1>7. ApplyInOrder'
  BY DEF ApplyInOrder, SaveEntries
<1>8. IndexInv'
  <2>1. Len(dLog) \in Nat /\ Len(dLog') \in Nat /\ dCommit \in Nat /\ dFirst \in Nat
    BY SMTT(60), <1>1 DEF TypeOK, DiskType
  <2> QED
    BY <1>2, <2>1 DEF IndexInv, SaveEntries
<1>9. StoreInv'
  BY <1>2, <1>3 DEF StoreInv, SaveEntries
<1>10. RoleInv'
  BY DEF RoleInv, SaveEntries
<1>11. TermInv'
  BY DEF TermInv, SaveEntries
<1>12. MsgInv'
  BY DEF MsgInv, SaveEntries
<1>13. HsInv'
  BY DEF HsInv, Synced, SaveEntries, Saved, InReady, Quiet
<1>14. RangeInv'
  BY DEF RangeInv, SaveEntries, Saved, InReady, Quiet
<1>15. PromiseInv'
  BY Zenon, <1>4, <1>5 DEF PromiseInv, OldTerms
<1>16. Bootstrap => AppliedIsDurable'
  <2>1. UNCHANGED <<answers, dCommit>> /\ pc = "entries"
    BY DEF SaveEntries
  <2>2. /\ dCommit <= Len(dLog) /\ dCommit \in Nat /\ Len(dLog) \in Nat
        /\ Bootstrap => \A i \in 1..Len(dLog) : log[i] = dLog[i]
    BY SMTT(60), <2>1 DEF IndexInv, StoreInv, TypeOK, DiskType
  <2>3. Bootstrap => \A i \in 1..dCommit : dLog'[i] = dLog[i]
    BY <1>3, <2>2
  <2> QED
    BY <2>1, <2>3 DEF AppliedIsDurable
<1> QED
  BY <1>1, <1>6, <1>7, <1>8, <1>9, <1>10, <1>11, <1>12, <1>13, <1>14, <1>15, <1>16

\* Advance preserves the inductive invariant.
LEMMA AdvanceInv ==
    ASSUME IInv, Advance
    PROVE  IInv'
<1> USE DEF IInv
<1>1. TypeOK'
  BY AdvanceType
<1>2. /\ log' = dLog /\ Len(log) <= Len(log')
      /\ \A i \in 1..Len(log) : i <= Len(log') /\ log'[i] = log[i]
  BY SMTT(60) DEF TypeOK, RaftType, DiskType, DriverType, OutsideType, Advance, StoreInv, Saved
<1>3. \A m \in outbox : m.index \in Nat /\ m.index <= Len(log) /\ m.term <= term
  BY DEF TypeOK, RaftType, DiskType, DriverType, OutsideType, Advance, MsgInv, Messages
<1>4. ASSUME ~Bootstrap, NEW m \in outbox, m.kind = "ack" PROVE OldTerms(m.index)'
  <2>1. \A i \in 1..m.index : i \in 1..Len(log)
    BY <1>3
  <2>2. \A i \in 1..m.index : log[i].term <= LeaderTerm
    BY <1>4 DEF Advance, PromiseInv, OldTerms
  <2> QED
    BY <1>2, <2>1, <2>2 DEF OldTerms
<1>5. /\ UNCHANGED <<promised, dLog, term, dTerm, dCommit, dFirst, smLog, lastApplied>>
      /\ pc = "apply" /\ outbox' = {} /\ applied' = since /\ stabled' = rd.last
      /\ rd.lo > rd.hi /\ prevHs'.term = prevHs.term /\ prevHs'.commit = committed'
  BY Zenon DEF TypeOK, RaftType, DiskType, DriverType, OutsideType, Advance, HardStates
<1>6. /\ rd.last \in Nat /\ rd.lo \in Nat /\ rd.hi \in Nat /\ rd.hs.commit \in Nat /\ rd.hs.term \in Nat
      /\ committed \in Nat /\ since \in Nat /\ Len(log) \in Nat /\ Len(log') \in Nat
  BY SMTT(60), <1>2 DEF TypeOK, RaftType, DiskType, DriverType, OutsideType, Readies, HardStates
<1>7. /\ rd.hs.commit <= committed /\ rd.hs.term = term /\ prevHs = rd.hs /\ prevHs.term = dTerm
      /\ rd.last <= Len(log) /\ rd.lo <= since + 1
      /\ committed = rd.hs.commit \/ committed <= rd.last
      /\ Synced(rd.hs.commit) \/ rd.hs.commit <= since
  BY <1>5 DEF HsInv, Synced, RangeInv, InReady, Saved
<1>8. /\ since <= committed /\ committed <= Len(log) /\ dFirst - 1 <= since
  BY <1>5 DEF IndexInv
<1>9. /\ committed <= committed' /\ committed' <= Len(log) /\ committed' \in Nat
      /\ committed' # committed => /\ role = "Leader" /\ voters = {Self}
                                  /\ committed' = rd.last
  <2>1. committed' = CommittedAfterPersist
    BY DEF Advance
  <2> QED
    BY <1>6, <1>7, <1>8, <2>1 DEF CommittedAfterPersist, Max2
<1>10. /\ since <= since' /\ since' <= committed' /\ since' \in Nat
       /\ committed' # rd.hs.commit => committed' <= since'
  <2>1. since' = Max2(since, Min2(committed', rd.last))
    BY DEF Advance
  <2> QED
    BY <1>6, <1>7, <1>8, <1>9, <2>1 DEF Min2, Max2
<1>11. \/ pc' = "ready" /\ inline
       \/ /\ pc' = "light" /\ ~inline /\ rd'.msgs = outbox /\ rd'.hs = rd.hs
          /\ rd'.save <=> committed' # rd.hs.commit
  <2>1. CASE inline
    BY <2>1 DEF Advance
  <2>2. CASE ~inline
    <3>1. /\ pc' = "light" /\ rd \in Readies
          /\ rd' = [rd EXCEPT !.msgs = outbox, !.save = committed' > rd.hs.commit]
      BY <2>2 DEF Advance, TypeOK, DriverType
    <3>2. /\ rd'.msgs = outbox /\ rd'.hs = rd.hs
          /\ (rd'.save <=> committed' > rd.hs.commit)
      BY Zenon, <3>1 DEF Readies
    <3>3. committed' > rd.hs.commit <=> committed' # rd.hs.commit
      BY <1>6, <1>7, <1>9
    <3> QED
      BY <2>2, <3>1, <3>2, <3>3
  <2> QED
    BY <2>1, <2>2
<1>12. LeaveInv'
  <2> SUFFICES ASSUME Leavers = {} PROVE LeaveInv'
    BY DEF LeaveInv
  <2>1. UNCHANGED <<dTerm, dCommit, dLog, dFirst, role, voters>> /\ ~inline'
    BY Zenon DEF Advance
  <2>2. rd.hs.commit = committed /\ Synced(committed)
    BY <1>5 DEF LeaveInv
  <2>3. inline => committed' = committed
    BY <1>5, <1>9 DEF LeaveInv
  <2>4. committed' = committed => Synced(prevHs.commit)' /\ Synced(committed)'
    BY <1>5, <2>1, <2>2 DEF Synced
  <2> QED
    BY <1>2, <1>11, <2>1, <2>2, <2>3, <2>4 DEF LeaveInv, HardStateLoadable, Quiet
<1>13. ApplyInOrder'
  BY Zenon DEF ApplyInOrder, Advance
<1>14. IndexInv'
  BY SMTT(60), <1>2, <1>5, <1>6, <1>7, <1>8, <1>9, <1>10 DEF IndexInv, TypeOK, DiskType
<1>15. StoreInv'
  BY SMTT(60) DEF StoreInv, Advance
<1>16. RoleInv'
  <2>1. ~inline' /\ UNCHANGED <<role, voters, term>>
    BY Zenon DEF Advance
  <2> QED
    BY <1>5, <2>1 DEF RoleInv
<1>17. TermInv'
  <2>1. UNCHANGED <<voters, term, dFirst>>
    BY DEF Advance
  <2>2. committed' # rd.hs.commit /\ ~Bootstrap => term > LeaderTerm
    BY <1>5, <1>9 DEF HsInv, RoleInv
  <2>3. committed' # committed /\ ~Bootstrap => term > LeaderTerm
    BY <1>9 DEF RoleInv
  <2>4. LeaderTerm \in Nat /\ term \in Nat
    BY DEF TypeOK, RaftType
  <2> QED
    <3>1. CASE Bootstrap
      BY <3>1 DEF TermInv
    <3>2. CASE ~Bootstrap /\ term > LeaderTerm
      BY <2>1, <2>4, <3>2 DEF TermInv
    <3>3. CASE ~Bootstrap /\ ~(term > LeaderTerm)
      <4>1. committed' = committed /\ committed' = rd.hs.commit
        BY <2>2, <2>3, <3>3
      <4>2. pc' # "newly" /\ (pc' = "light" => ~rd'.save)
        BY <1>11, <4>1
      <4>3. term >= LeaderTerm \/ (voters = {} /\ committed = dFirst - 1)
        BY <1>5, <3>3 DEF TermInv
      <4> QED
        BY <2>1, <4>1, <4>2, <4>3 DEF TermInv
    <3> QED
      BY <3>1, <3>2, <3>3
<1>18. MsgInv'
  <2>1. \A m \in outbox : m.index <= Len(log') /\ m.term <= term'
    BY SMTT(60), <1>2, <1>3, <1>5, <1>6
  <2>2. pc' = "light" => \A m \in rd'.msgs : m.index <= Len(log') /\ m.term <= term'
    BY Zenon, <1>11, <2>1
  <2>3. pc' \in {"ready", "light"}
    BY <1>11
  <2>4. pc' \notin {"entries", "hs", "send"}
    BY <2>3
  <2> QED
    BY <1>5, <2>2, <2>4 DEF MsgInv
<1>19. HsInv'
  <2>1. UNCHANGED <<dTerm, dCommit, dFirst>> /\ rd.hs.commit <= committed'
    <3>1. UNCHANGED <<dTerm, dCommit, dFirst>>
      BY Zenon, <1>5
    <3>2. rd.hs.commit <= committed /\ committed <= committed'
      BY Zenon, <1>7, <1>9
    <3>3. rd.hs.commit \in Nat /\ committed \in Nat /\ committed' \in Nat
      BY Zenon, <1>6, <1>9
    <3> QED
      BY <3>1, <3>2, <3>3
  <2>2. Synced(committed)' \/ committed' <= since'
    BY <1>6, <1>7, <1>10, <2>1 DEF Synced
  <2>3. Synced(prevHs.commit)' \/ prevHs'.commit <= since'
    BY <1>5, <2>2 DEF Synced
  <2>4. Bootstrap => dCommit' <= committed'
    BY <1>5, <1>6, <1>9, <2>1 DEF HsInv, TypeOK, DiskType
  <2> QED
    BY <1>5, <1>7, <1>11, <2>2, <2>3, <2>4 DEF HsInv, InReady, Saved, Quiet
<1>20. RangeInv'
  <2>1. /\ \A i \in 1..Len(smLog) : smLog[i] < rd.lo
        /\ lastApplied > 0 => lastApplied = rd.lo - 1
        /\ lastApplied > 0 => rd.hi = since
    BY <1>5 DEF RangeInv
  <2>2. lastApplied \in Nat /\ \A i \in 1..Len(smLog) : smLog[i] \in Nat
    BY SMTT(60) DEF TypeOK, DriverType
  <2>3. /\ \A i \in 1..Len(smLog) : smLog[i] <= since /\ smLog[i] <= since'
        /\ lastApplied > 0 => lastApplied = since
    BY <1>5, <1>6, <1>7, <1>10, <2>1, <2>2
  <2>4. pc' = "light" /\ rd'.save => committed' <= since'
    BY <1>6, <1>9, <1>10, <1>11
  <2> QED
    BY <1>5, <1>11, <2>3, <2>4 DEF RangeInv, Quiet
<1>21. PromiseInv'
  <2>1. promised' = promised /\ dLog' = dLog /\ log' = dLog /\ outbox' = {}
    BY <1>2, <1>5
  <2>2. /\ \A i \in promised : i \in 1..Len(dLog) /\ \A j \in 1..i : j \in promised
        /\ ~Bootstrap => \A i \in promised : dLog[i].term <= LeaderTerm
    BY DEF PromiseInv
  <2>3. \A i \in promised' : i <= Len(log') /\ log'[i] = dLog'[i]
    BY <2>1, <2>2 DEF TypeOK, DiskType
  <2>4. ~Bootstrap /\ pc' \in {"entries", "hs", "send", "light"} =>
          \A m \in rd'.msgs : m.kind = "ack" => OldTerms(m.index)'
    BY <1>4, <1>11
  <2> QED
    BY <2>1, <2>2, <2>3, <2>4 DEF PromiseInv
<1>22. Bootstrap => AppliedIsDurable'
  BY DEF AppliedIsDurable, Advance
<1> QED
  BY <1>1, <1>12, <1>13, <1>14, <1>15, <1>16, <1>17, <1>18, <1>19, <1>20, <1>21, <1>22

\* CompactLog preserves the inductive invariant.
LEMMA CompactLogInv ==
    ASSUME IInv, CompactLog
    PROVE  IInv'
<1> USE DEF IInv
<1>1. TypeOK'
  BY CompactLogType
<1>2. LeaveInv'
  <2> SUFFICES ASSUME Leavers = {} PROVE LeaveInv'
    BY DEF LeaveInv
  <2>1. /\ UNCHANGED <<dTerm, dCommit, dLog, role, voters, log, inline, prevHs>> /\ ~inline
        /\ pc = "newly" /\ pc' \in Quiet
        /\ dFirst' = dFirst \/ dFirst' = Max2(dFirst, Min2(applied, Len(dLog)))
    BY DEF CompactLog, SnapshotIndex, CompactedFirst, RoleInv, TypeOK, DriverType, Quiet
  <2>a. /\ applied \in Nat /\ since \in Nat /\ committed \in Nat /\ dFirst \in Nat
        /\ Len(dLog) \in Nat /\ dCommit \in Nat
    BY SMTT(60) DEF TypeOK, RaftType, DiskType
  <2>2. applied <= committed /\ prevHs.commit = committed /\ Synced(committed) /\ HardStateLoadable
    BY <2>1, <2>a DEF LeaveInv, IndexInv
  <2>3. dFirst' = dFirst \/ (dFirst' <= applied /\ dFirst <= dFirst' /\ dFirst' \in Nat)
    BY <2>1, <2>a DEF Min2, Max2
  <2>4. HardStateLoadable' /\ Synced(prevHs.commit)'
    BY <2>1, <2>a, <2>2, <2>3 DEF HardStateLoadable, Synced
  <2> QED
    BY <2>1, <2>4 DEF LeaveInv, Quiet
<1>3. ApplyInOrder'
  BY DEF ApplyInOrder, CompactLog, SnapshotIndex, CompactedFirst, Min2, Max2
<1>4. IndexInv'
  BY SMTT(60) DEF IndexInv, CompactLog, SnapshotIndex, CompactedFirst, Min2, Max2, TypeOK, RaftType, DiskType, DriverType
<1>5. StoreInv'
  BY DEF StoreInv, CompactLog, SnapshotIndex, CompactedFirst, Min2, Max2
<1>6. RoleInv'
  BY DEF RoleInv, CompactLog, SnapshotIndex, CompactedFirst, Min2, Max2
<1>7. TermInv'
  <2>1. /\ pc = "newly" /\ UNCHANGED <<voters, term, committed, applied, dLog, rd>>
        /\ dFirst' = dFirst \/ dFirst' = Max2(dFirst, Min2(applied, Len(dLog)))
        /\ pc' \notin {"light", "newly"}
    BY DEF CompactLog, SnapshotIndex, CompactedFirst, TypeOK, DriverType
  <2>2. /\ applied \in Nat /\ since \in Nat /\ committed \in Nat /\ dFirst \in Nat
        /\ Len(dLog) \in Nat
    BY SMTT(60) DEF TypeOK, RaftType, DiskType
  <2>3. applied <= since /\ since <= committed
    BY <2>1 DEF IndexInv
  <2>4. committed = dFirst - 1 => dFirst' = dFirst
    BY <2>1, <2>2, <2>3 DEF Min2, Max2
  <2> QED
    BY <2>1, <2>4 DEF TermInv
<1>8. MsgInv'
  BY DEF MsgInv, CompactLog, SnapshotIndex, CompactedFirst, Min2, Max2, TypeOK, RaftType, DiskType, DriverType
<1>9. HsInv'
  BY DEF HsInv, Synced, CompactLog, SnapshotIndex, CompactedFirst, Min2, Max2, IndexInv, TypeOK, RaftType, DiskType, DriverType,
     Saved, InReady, Quiet
<1>10. RangeInv'
  BY DEF RangeInv, CompactLog, SnapshotIndex, CompactedFirst, Min2, Max2, TypeOK, RaftType, DiskType, DriverType
<1>11. PromiseInv'
  BY DEF PromiseInv, CompactLog, SnapshotIndex, CompactedFirst, Min2, Max2, OldTerms, TypeOK, RaftType, DiskType, DriverType
<1>12. Bootstrap => AppliedIsDurable'
  BY DEF AppliedIsDurable, CompactLog, SnapshotIndex, CompactedFirst, Min2, Max2
<1> QED
  BY <1>1, <1>2, <1>3, <1>4, <1>5, <1>6, <1>7, <1>8, <1>9, <1>10, <1>11, <1>12

\* Dropping the RaftManager leaves only what the disk says.
LEMMA DroppedInv ==
    ASSUME IInv, NEW ps, Dropped(ps), pc' \in {"down", "failed"}, crashes' \in Nat
    PROVE  IInv'
<1> USE DEF IInv
<1>1. TypeOK'
  BY DroppedType
<1>2. LeaveInv'
  <2>1. /\ Len(log') = 0 /\ role' = "Follower" /\ UNCHANGED <<dLog, dCommit, dFirst, dTerm>>
        /\ pc' \notin Quiet \union InReady
    BY DEF Dropped, Quiet, InReady, Saved
  <2>2. Leavers = {} => HardStateLoadable'
    BY <2>1 DEF LeaveInv, HardStateLoadable
  <2> QED
    BY <2>1, <2>2 DEF LeaveInv, Quiet, InReady, Saved
<1>3. ApplyInOrder'
  BY DEF ApplyInOrder, Dropped
<1>4. IndexInv'
  BY DEF IndexInv, Dropped
<1>5. StoreInv'
  BY DEF StoreInv, Dropped, Saved
<1>6. RoleInv'
  BY DEF RoleInv, Dropped
<1>7. TermInv'
  BY DEF TermInv, Dropped
<1>8. MsgInv'
  BY DEF MsgInv, Dropped
<1>9. HsInv'
  BY DEF HsInv, Dropped, Saved, InReady, Quiet
<1>10. RangeInv'
  BY DEF RangeInv, Dropped, Quiet
<1>11. PromiseInv'
  BY DEF PromiseInv, Dropped
<1>12. Bootstrap => AppliedIsDurable'
  BY Zenon DEF AppliedIsDurable, Dropped
<1> QED
  BY <1>1, <1>2, <1>3, <1>4, <1>5, <1>6, <1>7, <1>8, <1>9, <1>10, <1>11, <1>12

=============================================================================
