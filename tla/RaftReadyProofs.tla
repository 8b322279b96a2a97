-------------------------- MODULE RaftReadyProofs --------------------------
(***************************************************************************)
(* Proofs about RaftReady for every set of peers and proposals, both kinds  *)
(* of node, and every value of the bounds: the remaining actions preserve   *)
(* the inductive invariant, and the properties follow from it.              *)
(***************************************************************************)
EXTENDS RaftReadySteps

USE ZenonT(20), SMTT(60), BootstrapAssumption, BoundsAssumption
    DEF vars, raftVars, diskVars, driverVars

\* Handing over messages that vouch only for stored entries of old terms.
LEMMA TransmitPromises ==
    ASSUME IInv, NEW msgs \in SUBSET Messages, Transmit(msgs), pc \notin {"down", "failed"},
           UNCHANGED <<log, dLog, outbox>>, pc' \in {"apply", "newly"},
           Len(log) <= Len(dLog), \A i \in 1..Len(log) : dLog[i] = log[i],
           \A m \in msgs : m.index <= Len(log),
           ~Bootstrap => \A m \in msgs : m.kind = "ack" => OldTerms(m.index)
    PROVE  PromiseInv'
<1> USE DEF IInv, TypeOK, RaftType, DiskType, OutsideType
<1>1. ASSUME NEW i \in promised', i \notin promised
      PROVE  \E m \in msgs : Promises(m) /\ m.index \in Nat /\ i \in 1..m.index
  BY <1>1 DEF Transmit, Promises, Messages
<1>2. promised \subseteq promised'
  BY DEF Transmit
<1>3. ASSUME NEW m \in msgs, Promises(m) PROVE 1..m.index \subseteq promised'
  BY <1>3 DEF Transmit, Promises
<1>4. ASSUME NEW i \in promised', i \notin promised
      PROVE  /\ i \in 1..Len(log) /\ \A j \in 1..i : j \in promised'
             /\ ~Bootstrap => log[i].term <= LeaderTerm
  <2>1. PICK m \in msgs : Promises(m) /\ m.index \in Nat /\ i \in 1..m.index
    BY <1>1, <1>4
  <2>2. m.index <= Len(log) /\ (~Bootstrap => OldTerms(m.index))
    BY <2>1 DEF Promises
  <2>3. \A j \in 1..i : j \in 1..m.index
    BY SMTT(60), <2>1
  <2>4. \A j \in 1..i : j \in promised'
    BY <1>3, <2>1, <2>3
  <2>5. i \in 1..Len(log)
    BY SMTT(60), <2>1, <2>2
  <2>6. ~Bootstrap => log[i].term <= LeaderTerm
    BY <2>1, <2>2 DEF OldTerms
  <2> QED
    BY <2>4, <2>5, <2>6
<1>5. ASSUME NEW i \in promised', i \in promised
      PROVE  /\ i \in 1..Len(log) /\ \A j \in 1..i : j \in promised'
             /\ ~Bootstrap => log[i].term <= LeaderTerm
  BY SMTT(60), <1>2, <1>5 DEF PromiseInv
<1>6. ASSUME NEW i \in promised'
      PROVE  /\ i \in 1..Len(log) /\ \A j \in 1..i : j \in promised'
             /\ ~Bootstrap => log[i].term <= LeaderTerm
  BY <1>4, <1>5
<1>7. \A i \in promised' : i \in 1..Len(dLog') /\ \A j \in 1..i : j \in promised'
  BY SMTT(60), <1>6
<1>8. \A i \in promised' : i <= Len(log') /\ log'[i] = dLog'[i]
  BY SMTT(60), <1>6
<1>9. ~Bootstrap => \A i \in promised' : dLog'[i].term <= LeaderTerm
  BY <1>6
<1>10. ~Bootstrap => \A m \in outbox' : m.kind = "ack" => OldTerms(m.index)'
  BY DEF PromiseInv, OldTerms
<1> QED
  BY <1>7, <1>8, <1>9, <1>10 DEF PromiseInv

\* Send preserves the inductive invariant.
LEMMA SendInv ==
    ASSUME IInv, Send
    PROVE  IInv'
<1> USE DEF IInv
<1>1. TypeOK'
  BY SendType
<1>2. Sendable \in SUBSET Messages /\ Sendable \subseteq rd.msgs
  BY DEF TypeOK, RaftType, DiskType, DriverType, OutsideType, Sendable, Readies
<1>3. LeaveInv'
  <2>1. pc = "send" => rd.hs.commit = committed
    BY DEF HsInv
  <2> QED
    BY <2>1 DEF LeaveInv, HardStateLoadable, Synced, Send, Quiet
<1>4. ApplyInOrder'
  BY DEF ApplyInOrder, Send
<1>5. IndexInv'
  BY DEF IndexInv, Send
<1>6. StoreInv'
  BY DEF StoreInv, Send, Saved, InReady, Quiet
<1>7. RoleInv'
  BY DEF RoleInv, Send
<1>8. TermInv'
  BY DEF TermInv, Send
<1>9. MsgInv'
  BY DEF MsgInv, Send
<1>10. HsInv'
  BY DEF HsInv, Synced, Send, Saved, InReady, Quiet
<1>11. RangeInv'
  BY DEF RangeInv, Send, TypeOK, RaftType, DiskType, DriverType, Saved, InReady, Quiet
<1>12. PromiseInv'
  <2>1. Len(log) <= Len(dLog) /\ \A i \in 1..Len(log) : dLog[i] = log[i]
    BY DEF Send, StoreInv, Saved
  <2>2. \A m \in Sendable : m.index <= Len(log)
    BY <1>2 DEF Send, MsgInv
  <2>3. ~Bootstrap => \A m \in Sendable : m.kind = "ack" => OldTerms(m.index)
    BY <1>2 DEF Send, PromiseInv
  <2> QED
    BY <1>2, <2>1, <2>2, <2>3, TransmitPromises DEF Send
<1>13. Bootstrap => AppliedIsDurable'
  BY DEF AppliedIsDurable, Send
<1> QED
  BY <1>1, <1>3, <1>4, <1>5, <1>6, <1>7, <1>8, <1>9, <1>10, <1>11, <1>12, <1>13

\* LightReady preserves the inductive invariant.
LEMMA LightReadyInv ==
    ASSUME IInv, LightReady
    PROVE  IInv'
<1> USE DEF IInv
<1>1. TypeOK'
  BY LightReadyType
<1>2. /\ rd' = [rd EXCEPT !.lo = NewlyStart, !.hi = IF rd.save THEN NewlyEnd ELSE 0]
      /\ rd \in Readies
  BY DEF TypeOK, RaftType, DiskType, DriverType, OutsideType, LightReady
<1>3. /\ rd'.lo = CurrentApplied + 1 /\ rd'.hi = (IF rd.save THEN committed ELSE 0)
      /\ rd'.hs = rd.hs
  BY <1>2 DEF Readies, NewlyStart, NewlyEnd
<1>4. /\ UNCHANGED <<log, dLog, outbox, committed, since, applied, smLog, term, prevHs, dFirst>>
      /\ pc = "light" /\ pc' = "newly" /\ dTerm' = (IF rd.save THEN term ELSE dTerm)
      /\ dCommit' = (IF rd.save THEN committed ELSE dCommit)
  BY DEF LightReady, LightCommit
<1>d. /\ committed <= Len(dLog) /\ dFirst - 1 <= committed /\ dFirst - 1 <= Len(dLog)
      /\ prevHs.commit = committed /\ since <= committed /\ dCommit <= Len(dLog)
      /\ committed \in Nat /\ since \in Nat /\ dFirst \in Nat /\ dCommit \in Nat
      /\ Len(dLog) \in Nat
  BY SMTT(60), <1>4 DEF IndexInv, StoreInv, HsInv, TypeOK, RaftType, DiskType
<1>5. LeaveInv'
  <2> SUFFICES ASSUME Leavers = {} PROVE LeaveInv'
    BY DEF LeaveInv
  <2>1. UNCHANGED <<role, voters, inline>> /\ HardStateLoadable
    BY DEF LightReady, LeaveInv
  <2>2. Synced(prevHs.commit)'
    BY <1>4, <1>d DEF LeaveInv, Synced
  <2>3. HardStateLoadable'
    BY <1>4, <1>d, <2>1 DEF HardStateLoadable
  <2> QED
    BY <1>4, <1>d, <2>1, <2>2, <2>3 DEF LeaveInv, Quiet
<1>6. ApplyInOrder'
  BY Zenon DEF ApplyInOrder, LightReady
<1>7. IndexInv'
  BY <1>4, <1>d DEF IndexInv, LightReady
<1>8. StoreInv'
  BY DEF StoreInv, LightReady
<1>9. RoleInv'
  BY DEF RoleInv, LightReady
<1>10. TermInv'
  BY Zenon, <1>3, <1>4 DEF TermInv, LightReady
<1>11. MsgInv'
  BY DEF MsgInv, LightReady
<1>12. HsInv'
  <2>1. (Synced(prevHs.commit) \/ prevHs.commit <= since)'
    BY <1>4, <1>d DEF HsInv, Synced
  <2>2. Bootstrap => dCommit' <= committed'
    BY <1>4, <1>d DEF HsInv
  <2>3. rd'.hs.term = term' /\ prevHs'.term = term' /\ prevHs'.term = dTerm'
    BY <1>3, <1>4 DEF HsInv, InReady, Saved
  <2> QED
    BY <1>4, <2>1, <2>2, <2>3 DEF HsInv, InReady, Saved, Quiet
<1>13. RangeInv'
  <2>1. CurrentApplied = applied /\ applied \in Nat /\ committed \in Nat /\ since \in Nat /\ applied <= since
    BY <1>4 DEF TypeOK, RaftType, DriverType, CurrentApplied, RangeInv, IndexInv
  <2>2. rd'.hi <= dCommit' /\ rd'.hi <= since' /\ rd'.hi <= committed'
    BY <1>1, <1>3, <1>4, <2>1 DEF TypeOK, DiskType, RaftType, RangeInv
  <2>3. \A i \in 1..Len(smLog) : smLog[i] \in Nat /\ smLog[i] <= applied
    BY SMTT(60), <1>4 DEF TypeOK, DriverType, RangeInv
  <2> QED
    BY <1>3, <1>4, <2>1, <2>2, <2>3 DEF RangeInv, Quiet
<1>14. PromiseInv'
  <2>1. Len(log) <= Len(dLog) /\ \A i \in 1..Len(log) : dLog[i] = log[i]
    BY <1>4 DEF StoreInv, Saved
  <2>2. \A m \in rd.msgs : m.index <= Len(log)
    BY <1>4 DEF MsgInv
  <2>3. ~Bootstrap => \A m \in rd.msgs : m.kind = "ack" => OldTerms(m.index)
    BY <1>4 DEF PromiseInv
  <2>4. rd.msgs \in SUBSET Messages
    BY <1>2 DEF Readies
  <2> QED
    BY <1>4, <2>1, <2>2, <2>3, <2>4, TransmitPromises DEF LightReady
<1>15. Bootstrap => AppliedIsDurable'
  <2>1. UNCHANGED <<answers, dLog>> /\ (Bootstrap => dCommit <= dCommit')
    BY <1>4 DEF LightReady, HsInv, Synced, TypeOK, DiskType
  <2>2. dCommit \in Nat /\ dCommit' \in Nat
    BY <1>1 DEF TypeOK, DiskType
  <2> QED
    BY SMTT(60), <2>1, <2>2 DEF AppliedIsDurable
<1> QED
  BY <1>1, <1>5, <1>6, <1>7, <1>8, <1>9, <1>10, <1>11, <1>12, <1>13, <1>14, <1>15

\* What applying the entry at rd.lo does to the state.
LEMMA ApplyEffect ==
    ASSUME TypeOK, log' = log, rd.lo \in 1..Len(log),
           \/ ApplyConf(rd.lo) /\ IsConf(log[rd.lo])
           \/ ApplyNormal(rd.lo) /\ log[rd.lo].kind = "Normal"
           \/ SkipEntry
    PROVE  /\ smLog' = smLog \/ smLog' = Append(smLog, rd.lo)
           /\ \A p \in Proposals : answers'[p] = "applied" =>
                 \/ answers[p] = "applied"
                 \/ log[rd.lo].kind = "Normal" /\ log[rd.lo].val = p
           /\ committed' = committed \/ /\ role = "Leader" /\ committed' \in Nat
                                        /\ committed <= committed' /\ committed' <= stabled
           /\ log[rd.lo].kind # "Remove" => committed' = committed /\ voters \subseteq voters'
           /\ \A m \in outbox' : \/ m \in outbox
                                 \/ role = "Leader" /\ m = Msg("append", term, Len(log))
<1> USE DEF TypeOK, OutsideType
<1>1. CASE ApplyConf(rd.lo) /\ IsConf(log[rd.lo])
  <2>1. UNCHANGED <<smLog, answers>> /\ voters' = NewVoters(log[rd.lo])
    BY <1>1 DEF ApplyConf
  <2>2. committed \in Nat /\ stabled \in Nat
    BY DEF RaftType
  <2>3. committed' = committed \/ /\ role = "Leader" /\ committed' \in Nat
                                  /\ committed <= committed' /\ committed' <= stabled
    BY SMTT(60), <1>1, <2>2 DEF ApplyConf, Committable
  <2>4. ASSUME log[rd.lo].kind # "Remove" PROVE committed' = committed /\ voters \subseteq voters'
    <3>1. voters \subseteq voters'
      BY <1>1, <2>1, <2>4 DEF NewVoters, IsConf
    <3> QED
      BY <1>1, <3>1 DEF ApplyConf, Committable
  <2>5. \A m \in outbox' : \/ m \in outbox
                           \/ role = "Leader" /\ m = Msg("append", term, Len(log))
    BY <1>1 DEF ApplyConf, BcastAppend
  <2> QED
    BY <2>1, <2>3, <2>4, <2>5
<1>2. CASE ApplyNormal(rd.lo) /\ log[rd.lo].kind = "Normal"
  BY <1>2 DEF ApplyNormal
<1>3. CASE SkipEntry
  BY <1>3 DEF SkipEntry
<1> QED
  BY <1>1, <1>2, <1>3

\* Appending an index behind all others keeps the order.
LEMMA AppendInOrder ==
    ASSUME NEW q \in Seq(Nat), NEW k \in Nat, NEW r, r = q \/ r = Append(q, k),
           \A i \in 1..Len(q) : q[i] < k,
           \A i, j \in 1..Len(q) : i < j => q[i] < q[j]
    PROVE  /\ \A i, j \in 1..Len(r) : i < j => r[i] < r[j]
           /\ \A i \in 1..Len(r) : r[i] \in Nat /\ r[i] <= k
<1>1. CASE r = q
  BY <1>1
<1>2. CASE r = Append(q, k)
  <2>1. /\ Len(r) = Len(q) + 1 /\ \A i \in 1..Len(q) : r[i] = q[i]
        /\ r[Len(q) + 1] = k
    BY SMTT(60), <1>2, AppendFacts
  <2> QED
    BY <2>1
<1> QED
  BY <1>1, <1>2

\* ApplyCommitted applies the entry at rd.lo, whose row and commit index are
\* on disk.
LEMMA ApplyCommittedFacts ==
    ASSUME IInv, ApplyCommitted
    PROVE  /\ rd.lo \in 1..dCommit /\ dLog[rd.lo] = log[rd.lo] /\ rd.lo \in 1..Len(log)
           /\ rd.lo \in 1..Len(dLog)
           /\ smLog' = smLog \/ smLog' = Append(smLog, rd.lo)
           /\ \A p \in Proposals : answers'[p] = "applied" =>
                 \/ answers[p] = "applied"
                 \/ log[rd.lo].kind = "Normal" /\ log[rd.lo].val = p
           /\ committed' = committed \/ /\ role = "Leader" /\ committed' \in Nat
                                        /\ committed <= committed' /\ committed' <= stabled
           /\ log[rd.lo].kind # "Remove" => committed' = committed /\ voters \subseteq voters'
           /\ \A m \in outbox' : \/ m \in outbox
                                 \/ role = "Leader" /\ m = Msg("append", term, Len(log))
<1> USE DEF IInv
<1>1. /\ rd.lo \in Nat \ {0} /\ rd.hi \in Nat /\ log \in Seq(Entries) /\ dLog \in Seq(Entries)
      /\ committed \in Nat /\ since \in Nat /\ dCommit \in Nat /\ dFirst \in Nat
  BY DEF TypeOK, RaftType, DiskType, DriverType, Readies
<1>c. rd.hs.commit \in Nat
  BY DEF TypeOK, DriverType, Readies, HardStates
<1>2. /\ pc = "apply" /\ log' = log /\ rd.lo <= rd.hi /\ rd.hi <= rd.hs.commit
      /\ committed <= Len(log) /\ rd.hs.commit <= committed /\ rd.hs.commit \in Nat
      /\ Synced(rd.hs.commit) /\ rd.lo > dFirst - 1
  <2>1. pc = "apply" /\ log' = log /\ rd.lo <= rd.hi
    BY DEF ApplyCommitted
  <2>2. rd.hi <= rd.hs.commit /\ committed <= Len(log) /\ rd.lo > dFirst - 1
    BY <2>1 DEF RangeInv, IndexInv
  <2>3. rd.hs.commit <= committed
    BY <2>1 DEF HsInv
  <2>4. Synced(rd.hs.commit)
    BY <1>1, <2>1 DEF HsInv
  <2> QED
    BY <1>c, <2>1, <2>2, <2>3, <2>4
<1>3. rd.lo \in 1..Len(log)
  BY <1>1, <1>2
<1>4. rd.lo \in 1..dCommit
  BY <1>1, <1>2 DEF Synced
<1>5. dLog[rd.lo] = log[rd.lo] /\ rd.lo \in 1..Len(dLog)
  BY <1>1, <1>2, <1>3 DEF StoreInv, Saved
<1>6. \/ ApplyConf(rd.lo) /\ IsConf(log[rd.lo])
      \/ ApplyNormal(rd.lo) /\ log[rd.lo].kind = "Normal"
      \/ SkipEntry
  BY DEF ApplyCommitted
<1> QED
  BY <1>2, <1>3, <1>4, <1>5, <1>6, ApplyEffect

\* ApplyCommitted preserves the inductive invariant.
LEMMA ApplyCommittedInv ==
    ASSUME IInv, ApplyCommitted
    PROVE  IInv'
<1> USE DEF IInv
<1>1. TypeOK'
  <2>1. rd.lo \in 1..Len(log) /\ log' = log
    BY ApplyCommittedFacts DEF ApplyCommitted
  <2>2. \/ ApplyConf(rd.lo) /\ IsConf(log[rd.lo])
        \/ ApplyNormal(rd.lo) /\ log[rd.lo].kind = "Normal"
        \/ SkipEntry
    BY DEF ApplyCommitted
  <2>3. rd' \in Readies /\ lastApplied' \in Nat /\ applied' \in Nat
    <3>1. rd \in Readies /\ rd.lo \in Nat \ {0} /\ rd.hi \in Nat /\ applied \in Nat
      BY DEF TypeOK, RaftType, DriverType, Readies
    <3>2. rd' = [rd EXCEPT !.lo = rd.lo + 1]
      BY DEF ApplyCommitted
    <3>3. rd' \in Readies
      BY SMTT(60), <3>1, <3>2 DEF Readies
    <3> QED
      BY <3>1, <3>3 DEF ApplyCommitted
  <2>4. /\ voters' \in SUBSET Nodes /\ outbox' \in SUBSET Messages
        /\ dCluster' \in SUBSET Nodes /\ smSet' \in SUBSET Nat /\ smLog' \in Seq(Nat)
        /\ needsRepl' \in BOOLEAN /\ committed' \in Nat
        /\ answers' \in [Proposals -> {"none", "waiting", "applied", "notleader", "dropped"}]
    BY <2>1, <2>2, ApplyTypes
  <2> QED
    BY Zenon, <2>3, <2>4 DEF TypeOK, RaftType, DiskType, DriverType, OutsideType, ApplyCommitted
<1>2. /\ UNCHANGED <<log, dLog, since, role, term, prevHs, dFirst, dTerm, dCommit>>
      /\ UNCHANGED <<pc, inline, ret, promised, stabled>>
      /\ pc = "apply" /\ rd.lo <= rd.hi /\ lastApplied' = rd.lo
  BY DEF ApplyCommitted
<1>3. /\ rd'.lo = rd.lo + 1 /\ rd'.hi = rd.hi /\ rd'.hs = rd.hs /\ rd'.last = rd.last
      /\ rd'.msgs = rd.msgs /\ rd'.save = rd.save /\ rd.lo \in Nat \ {0} /\ rd.hi \in Nat
      /\ rd.last \in Nat
  BY DEF TypeOK, DriverType, Readies, HardStates, ApplyCommitted
<1>4. /\ rd.hi <= since /\ \A i \in 1..Len(smLog) : smLog[i] < rd.lo
      /\ since <= committed /\ committed <= Len(log) /\ committed \in Nat /\ since \in Nat
      /\ Len(log) \in Nat /\ stabled \in Nat /\ stabled <= Len(log)
  BY SMTT(60), <1>2 DEF TypeOK, RaftType, RangeInv, IndexInv
<1>5. /\ smLog' = smLog \/ smLog' = Append(smLog, rd.lo)
      /\ \A p \in Proposals : answers'[p] = "applied" =>
            \/ answers[p] = "applied"
            \/ log[rd.lo].kind = "Normal" /\ log[rd.lo].val = p
      /\ committed' = committed \/ /\ role = "Leader" /\ committed' \in Nat
                                   /\ committed <= committed' /\ committed' <= stabled
      /\ log[rd.lo].kind # "Remove" => committed' = committed /\ voters \subseteq voters'
      /\ \A m \in outbox' : \/ m \in outbox
                            \/ role = "Leader" /\ m = Msg("append", term, Len(log))
  BY ApplyCommittedFacts
<1>6. /\ \A i, j \in 1..Len(smLog') : i < j => smLog'[i] < smLog'[j]
      /\ \A i \in 1..Len(smLog') : smLog'[i] \in Nat /\ smLog'[i] <= rd.lo
  <2>1. smLog \in Seq(Nat)
    BY DEF TypeOK, DriverType
  <2> QED
    BY Zenon, <1>3, <1>4, <1>5, <2>1, AppendInOrder DEF ApplyInOrder
<1>7. ~Bootstrap => term >= LeaderTerm
  BY <1>2, <1>3, <1>4 DEF TermInv, RangeInv, TypeOK, DiskType, RaftType
<1>8. rd.lo \in 1..dCommit /\ dLog[rd.lo] = log[rd.lo]
  BY ApplyCommittedFacts
<1>r. rd.lo \in 1..Len(log)
  BY ApplyCommittedFacts
<1>9. LeaveInv'
  <2> SUFFICES ASSUME Leavers = {} PROVE LeaveInv'
    BY DEF LeaveInv
  <2>1. rd.lo \in 1..Len(log) /\ log[rd.lo].kind # "Remove"
    BY <1>r DEF LeaveInv
  <2>2. committed' = committed /\ voters \subseteq voters'
    BY <1>5, <2>1
  <2>3. rd.hs.commit = committed /\ Synced(rd.hs.commit)
    BY <1>2 DEF LeaveInv
  <2> QED
    BY <1>2, <1>3, <2>2, <2>3 DEF LeaveInv, HardStateLoadable, Synced, Quiet
<1>10. ApplyInOrder'
  BY <1>6 DEF ApplyInOrder
<1>11. IndexInv'
  BY <1>2, <1>3, <1>4, <1>5 DEF IndexInv, ApplyCommitted, TypeOK, RaftType, DiskType
<1>12. StoreInv'
  BY <1>2 DEF StoreInv
<1>13. RoleInv'
  BY <1>2, <1>5 DEF RoleInv, TypeOK, RaftType
<1>14. TermInv'
  BY <1>2, <1>3, <1>4, <1>7 DEF TermInv, RangeInv, TypeOK, DiskType, RaftType
<1>15. MsgInv'
  BY SMTT(60), <1>2, <1>3, <1>4, <1>5 DEF MsgInv, Msg, TypeOK, RaftType
<1>16. HsInv'
  BY SMTT(60), <1>2, <1>3, <1>4, <1>5 DEF HsInv, Synced, InReady, Saved, Quiet, TypeOK, DriverType,
     DiskType, Readies, HardStates
<1>17. RangeInv'
  BY SMTT(60), <1>2, <1>3, <1>4, <1>5, <1>6 DEF RangeInv, Quiet, TypeOK, DiskType, DriverType
<1>18. PromiseInv'
  BY SMTT(60), <1>2, <1>3, <1>5 DEF PromiseInv, OldTerms, Msg
<1>19. Bootstrap => AppliedIsDurable'
  BY <1>2, <1>3, <1>5, <1>8 DEF AppliedIsDurable
<1> QED
  BY <1>1, <1>9, <1>10, <1>11, <1>12, <1>13, <1>14, <1>15, <1>16, <1>17, <1>18, <1>19

\* ApplyNewlyCommitted applies the entry at rd.lo, whose row and commit index are
\* on disk.
LEMMA ApplyNewlyCommittedFacts ==
    ASSUME IInv, ApplyNewlyCommitted
    PROVE  /\ rd.lo \in 1..dCommit /\ dLog[rd.lo] = log[rd.lo] /\ rd.lo \in 1..Len(log)
           /\ rd.lo \in 1..Len(dLog)
           /\ smLog' = smLog \/ smLog' = Append(smLog, rd.lo)
           /\ \A p \in Proposals : answers'[p] = "applied" =>
                 \/ answers[p] = "applied"
                 \/ log[rd.lo].kind = "Normal" /\ log[rd.lo].val = p
           /\ committed' = committed \/ /\ role = "Leader" /\ committed' \in Nat
                                        /\ committed <= committed' /\ committed' <= stabled
           /\ log[rd.lo].kind # "Remove" => committed' = committed /\ voters \subseteq voters'
           /\ \A m \in outbox' : \/ m \in outbox
                                 \/ role = "Leader" /\ m = Msg("append", term, Len(log))
<1> USE DEF IInv
<1>1. /\ rd.lo \in Nat \ {0} /\ rd.hi \in Nat /\ log \in Seq(Entries) /\ dLog \in Seq(Entries)
      /\ committed \in Nat /\ since \in Nat /\ dCommit \in Nat /\ dFirst \in Nat
  BY DEF TypeOK, RaftType, DiskType, DriverType, Readies
<1>2. /\ pc = "newly" /\ log' = log /\ rd.lo <= rd.hi /\ rd.hi <= committed
      /\ committed <= Len(log)
  BY DEF ApplyNewlyCommitted, RangeInv, IndexInv
<1>3. rd.lo \in 1..Len(log)
  BY <1>1, <1>2
<1>4. rd.lo \in 1..dCommit
  BY <1>1, <1>2 DEF RangeInv
<1>5. dLog[rd.lo] = log[rd.lo] /\ rd.lo \in 1..Len(dLog)
  BY <1>1, <1>2, <1>3 DEF StoreInv, Saved
<1>6. \/ ApplyConf(rd.lo) /\ IsConf(log[rd.lo])
      \/ ApplyNormal(rd.lo) /\ log[rd.lo].kind = "Normal"
      \/ SkipEntry
  BY DEF ApplyNewlyCommitted
<1> QED
  BY <1>2, <1>3, <1>4, <1>5, <1>6, ApplyEffect

\* ApplyNewlyCommitted preserves the inductive invariant.
LEMMA ApplyNewlyCommittedInv ==
    ASSUME IInv, ApplyNewlyCommitted
    PROVE  IInv'
<1> USE DEF IInv
<1>1. TypeOK'
  <2>1. rd.lo \in 1..Len(log) /\ log' = log
    BY ApplyNewlyCommittedFacts DEF ApplyNewlyCommitted
  <2>2. \/ ApplyConf(rd.lo) /\ IsConf(log[rd.lo])
        \/ ApplyNormal(rd.lo) /\ log[rd.lo].kind = "Normal"
        \/ SkipEntry
    BY DEF ApplyNewlyCommitted
  <2>3. rd' \in Readies /\ lastApplied' \in Nat /\ applied' \in Nat
    <3>1. rd \in Readies /\ rd.lo \in Nat \ {0} /\ rd.hi \in Nat /\ applied \in Nat
      BY DEF TypeOK, RaftType, DriverType, Readies
    <3>2. rd' = [rd EXCEPT !.lo = rd.lo + 1]
      BY DEF ApplyNewlyCommitted
    <3>3. rd' \in Readies
      BY <3>1, <3>2 DEF Readies
    <3> QED
      BY <3>1, <3>3 DEF ApplyNewlyCommitted
  <2>4. /\ voters' \in SUBSET Nodes /\ outbox' \in SUBSET Messages
        /\ dCluster' \in SUBSET Nodes /\ smSet' \in SUBSET Nat /\ smLog' \in Seq(Nat)
        /\ needsRepl' \in BOOLEAN /\ committed' \in Nat
        /\ answers' \in [Proposals -> {"none", "waiting", "applied", "notleader", "dropped"}]
    BY <2>1, <2>2, ApplyTypes
  <2> QED
    BY Zenon, <2>3, <2>4 DEF TypeOK, RaftType, DiskType, DriverType, OutsideType,
       ApplyNewlyCommitted
<1>2. /\ UNCHANGED <<log, dLog, since, role, term, prevHs, dFirst, dTerm, dCommit>>
      /\ UNCHANGED <<pc, inline, ret, promised, stabled>>
      /\ pc = "newly" /\ rd.lo <= rd.hi /\ lastApplied' = rd.lo
  BY DEF ApplyNewlyCommitted
<1>3. /\ rd'.lo = rd.lo + 1 /\ rd'.hi = rd.hi /\ rd'.hs = rd.hs /\ rd'.last = rd.last
      /\ rd'.msgs = rd.msgs /\ rd'.save = rd.save /\ rd.lo \in Nat \ {0} /\ rd.hi \in Nat
      /\ rd.last \in Nat
  BY DEF TypeOK, DriverType, Readies, HardStates, ApplyNewlyCommitted
<1>4. /\ rd.hi <= since /\ \A i \in 1..Len(smLog) : smLog[i] < rd.lo
      /\ since <= committed /\ committed <= Len(log) /\ committed \in Nat /\ since \in Nat
      /\ Len(log) \in Nat /\ stabled \in Nat /\ stabled <= Len(log)
  BY SMTT(60), <1>2 DEF TypeOK, RaftType, RangeInv, IndexInv
<1>5. /\ smLog' = smLog \/ smLog' = Append(smLog, rd.lo)
      /\ \A p \in Proposals : answers'[p] = "applied" =>
            \/ answers[p] = "applied"
            \/ log[rd.lo].kind = "Normal" /\ log[rd.lo].val = p
      /\ committed' = committed \/ /\ role = "Leader" /\ committed' \in Nat
                                   /\ committed <= committed' /\ committed' <= stabled
      /\ log[rd.lo].kind # "Remove" => committed' = committed /\ voters \subseteq voters'
      /\ \A m \in outbox' : \/ m \in outbox
                            \/ role = "Leader" /\ m = Msg("append", term, Len(log))
  BY ApplyNewlyCommittedFacts
<1>6. /\ \A i, j \in 1..Len(smLog') : i < j => smLog'[i] < smLog'[j]
      /\ \A i \in 1..Len(smLog') : smLog'[i] \in Nat /\ smLog'[i] <= rd.lo
  <2>1. smLog \in Seq(Nat)
    BY DEF TypeOK, DriverType
  <2> QED
    BY Zenon, <1>3, <1>4, <1>5, <2>1, AppendInOrder DEF ApplyInOrder
<1>7. ~Bootstrap => term >= LeaderTerm
  BY <1>2, <1>3, <1>4 DEF TermInv, RangeInv, TypeOK, DiskType, RaftType
<1>8. rd.lo \in 1..dCommit /\ dLog[rd.lo] = log[rd.lo]
  BY ApplyNewlyCommittedFacts
<1>r. rd.lo \in 1..Len(log)
  BY ApplyNewlyCommittedFacts
<1>9. LeaveInv'
  <2> SUFFICES ASSUME Leavers = {} PROVE LeaveInv'
    BY DEF LeaveInv
  <2>1. rd.lo \in 1..Len(log) /\ log[rd.lo].kind # "Remove"
    BY <1>r DEF LeaveInv
  <2>2. committed' = committed /\ voters \subseteq voters'
    BY <1>5, <2>1
  <2>3. prevHs.commit = committed /\ Synced(prevHs.commit) /\ ~inline
    BY <1>2 DEF LeaveInv, RoleInv
  <2> QED
    BY <1>2, <1>3, <2>2, <2>3 DEF LeaveInv, HardStateLoadable, Synced, Quiet
<1>10. ApplyInOrder'
  BY <1>6 DEF ApplyInOrder
<1>11. IndexInv'
  BY SMTT(60), <1>2, <1>3, <1>4, <1>5 DEF IndexInv, ApplyNewlyCommitted, TypeOK, RaftType, DiskType
<1>12. StoreInv'
  BY <1>2 DEF StoreInv
<1>13. RoleInv'
  BY <1>2, <1>5 DEF RoleInv, TypeOK, RaftType
<1>14. TermInv'
  BY <1>2, <1>3, <1>4, <1>7 DEF TermInv, RangeInv, TypeOK, DiskType, RaftType
<1>15. MsgInv'
  BY SMTT(60), <1>2, <1>3, <1>4, <1>5 DEF MsgInv, Msg, TypeOK, RaftType
<1>16. HsInv'
  BY SMTT(60), <1>2, <1>3, <1>4, <1>5 DEF HsInv, Synced, InReady, Saved, Quiet, TypeOK, DriverType,
     DiskType, Readies, HardStates
<1>17. RangeInv'
  <2>1. rd.hi <= dCommit /\ rd.hi <= committed'
    BY <1>2, <1>3, <1>4, <1>5 DEF RangeInv
  <2>2. \A i \in 1..Len(smLog') : smLog'[i] < rd'.lo /\ smLog'[i] <= since
    BY SMTT(60), <1>2, <1>3, <1>4, <1>6
  <2> QED
    BY <1>2, <1>3, <1>4, <2>1, <2>2 DEF RangeInv, Quiet
<1>18. PromiseInv'
  BY SMTT(60), <1>2, <1>3, <1>5 DEF PromiseInv, OldTerms, Msg
<1>19. Bootstrap => AppliedIsDurable'
  BY <1>2, <1>3, <1>5, <1>8 DEF AppliedIsDurable
<1> QED
  BY <1>1, <1>9, <1>10, <1>11, <1>12, <1>13, <1>14, <1>15, <1>16, <1>17, <1>18, <1>19

\* StepAppend preserves the inductive invariant.
LEMMA StepAppendInv ==
    ASSUME IInv, NEW prev \in Nat, NEW es \in Seq(LeaderEntries), NEW c \in Nat,
           StepAppend(prev, es, c)
    PROVE  IInv'
<1> USE DEF IInv
<1>1. TypeOK'
  BY StepAppendType
<1>2. /\ ~Bootstrap /\ pc = "idle" /\ pc' = "ready" /\ inline' = TRUE /\ ret' = "idle"
      /\ role' = "Follower" /\ term' = LeaderTerm /\ term <= LeaderTerm
      /\ UNCHANGED <<dLog, dTerm, dCommit, dFirst, since, applied, smLog, promised, prevHs>>
      /\ UNCHANGED <<answers, voters>>
  BY DEF StepAppend
<1>3. /\ prev \in 0..Len(log) /\ \A i \in 1..prev : log[i].term <= LeaderTerm
      /\ es \in Seq(Entries) /\ Len(es) \in Nat /\ log \in Seq(Entries) /\ Len(log) \in Nat
  <2>1. es \in Seq(Entries)
    BY EntryTypes
  <2> QED
    BY SMTT(60), <2>1 DEF StepAppend, TypeOK, RaftType
<1>4. \A i \in 1..Len(es) : es[i].term <= LeaderTerm
  <2>1. \A e \in LeaderEntries : e.term <= LeaderTerm
    BY SMTT(60) DEF LeaderEntries, EmptyEntry, Entry
  <2> QED
    BY <2>1
<1>5. /\ prev + Len(es) <= Len(log') /\ Len(log') \in Nat
      /\ \A i \in 1..prev : log'[i] = log[i]
      /\ \A i \in 1..(prev + Len(es)) : log'[i].term <= LeaderTerm
      /\ \/ log' = log /\ stabled' = stabled
         \/ /\ committed <= prev /\ stabled' <= prev /\ stabled' \in Nat
            /\ prev < Len(log) => log[prev + 1].term > LeaderTerm
  <2>1. CASE es = <<>>
    BY <2>1, <1>3 DEF StepAppend
  <2>2. CASE es # <<>>
    <3>1. /\ log' = SubSeq(log, 1, prev) \o es /\ stabled' = Min2(stabled, prev)
          /\ committed <= prev /\ (prev < Len(log) => log[prev + 1].term > LeaderTerm)
      BY <2>2 DEF StepAppend
    <3>2. /\ Len(log') = prev + Len(es)
          /\ \A i \in 1..prev : log'[i] = log[i]
          /\ \A i \in 1..Len(es) : log'[prev + i] = es[i]
      <4>1. /\ Len(SubSeq(log, 1, prev) \o es) = prev + Len(es)
            /\ \A i \in 1..prev : (SubSeq(log, 1, prev) \o es)[i] = log[i]
            /\ \A i \in 1..Len(es) : (SubSeq(log, 1, prev) \o es)[prev + i] = es[i]
        BY SMTT(60), <1>3, CutFacts
      <4> QED
        BY <3>1, <4>1, Zenon
    <3>3. ASSUME NEW i \in 1..(prev + Len(es)) PROVE log'[i].term <= LeaderTerm
      <4>1. CASE i <= prev
        BY SMTT(60), <4>1, <3>2, <1>3
      <4>2. CASE i > prev
        <5>1. i - prev \in 1..Len(es) /\ i = prev + (i - prev)
          BY <4>2, <1>3
        <5> QED
          BY <5>1, <3>2, <1>4
      <4> QED
        BY <4>1, <4>2, <1>3
    <3>4. stabled' <= prev /\ stabled' \in Nat
      BY <3>1, <1>3 DEF Min2, TypeOK, RaftType
    <3>5. Len(log') \in Nat /\ prev + Len(es) <= Len(log')
      BY <1>3, <3>2
    <3> QED
      BY <3>1, <3>2, <3>3, <3>4, <3>5
  <2> QED
    BY <2>1, <2>2
<1>6. /\ committed <= committed' /\ committed' <= Len(log') /\ committed' \in Nat
  <2>1. committed' = Max2(committed, c) /\ c <= prev + Len(es)
    BY DEF StepAppend
  <2>2. committed \in Nat /\ committed <= Len(log)
    BY <1>2 DEF TypeOK, RaftType, IndexInv
  <2> QED
    BY <1>3, <1>5, <2>1, <2>2 DEF Max2
<1>7. \A i \in promised : i \in 1..Len(log') /\ log'[i] = log[i]
  <2>1. ASSUME NEW i \in promised PROVE /\ i \in 1..Len(log)
                                         /\ \A j \in 1..i : log[j].term <= LeaderTerm
    BY <1>2 DEF PromiseInv
  <2>2. ASSUME NEW i \in promised, ~(log' = log) PROVE i <= prev
    <3>1. SUFFICES ASSUME i > prev PROVE FALSE
      BY <2>1, <1>3
    <3>2. prev + 1 \in 1..i /\ prev < Len(log)
      BY <2>1, <3>1, <1>3
    <3>3. log[prev + 1].term > LeaderTerm /\ log[prev + 1].term <= LeaderTerm
      BY <2>1, <2>2, <3>2, <1>5
    <3>4. log[prev + 1].term \in Nat
      BY SMTT(60), <3>2, <1>3 DEF Entries
    <3> QED
      BY <3>3, <3>4
  <2> QED
    BY <1>3, <1>5, <2>1, <2>2
<1>8. outbox' = {Msg("ack", LeaderTerm, prev + Len(es))}
  <2>1. role # "Leader"
    BY <1>2 DEF RoleInv, TypeOK, RaftType
  <2>2. outbox = {}
    BY <1>2, <2>1 DEF RoleInv
  <2> QED
    BY <2>2 DEF StepAppend
<1>9. LeaveInv'
  <2> SUFFICES ASSUME Leavers = {} PROVE LeaveInv'
    BY DEF LeaveInv
  <2>1. \A i \in 1..Len(es) : es[i].kind # "Remove"
    <3>1. \A e \in LeaderEntries : e.kind # "Remove"
      BY SMTT(60) DEF LeaderEntries, EmptyEntry, Entry
    <3> QED
      BY <3>1
  <2>2. \A i \in 1..Len(log') : log'[i].kind # "Remove"
    <3>1. CASE es = <<>>
      BY <3>1 DEF StepAppend, LeaveInv
    <3>2. CASE es # <<>>
      <4>1. log' = SubSeq(log, 1, prev) \o es
        BY <3>2 DEF StepAppend
      <4>2. /\ Len(log') = prev + Len(es)
            /\ \A i \in 1..prev : log'[i] = log[i]
            /\ \A i \in 1..Len(es) : log'[prev + i] = es[i]
        BY SMTT(60), <1>3, <4>1, CutFacts
      <4>3. ASSUME NEW i \in 1..Len(log') PROVE log'[i].kind # "Remove"
        <5>1. CASE i <= prev
          BY SMTT(60), <1>3, <4>2, <5>1 DEF LeaveInv
        <5>2. CASE i > prev
          <6>1. i - prev \in 1..Len(es) /\ i = prev + (i - prev)
            BY <1>3, <4>2, <5>2
          <6> QED
            BY <2>1, <4>2, <6>1
        <5> QED
          BY <1>3, <5>1, <5>2
      <4> QED
        BY <4>3
    <3> QED
      BY <3>1, <3>2
  <2> QED
    BY <1>2, <2>2 DEF LeaveInv, HardStateLoadable, Synced, Quiet
<1>10. ApplyInOrder'
  BY <1>2 DEF ApplyInOrder
<1>11. IndexInv'
  <2>1. /\ stabled <= Len(log) /\ applied <= since /\ since <= committed /\ dFirst - 1 <= since
        /\ dCommit <= Len(dLog) /\ dFirst - 1 <= Len(dLog)
        /\ since \in Nat /\ committed \in Nat /\ stabled \in Nat
    BY <1>2 DEF IndexInv, TypeOK, RaftType
  <2>2. stabled' <= Len(log')
    BY <1>3, <1>5, <2>1
  <2> QED
    BY <1>2, <1>6, <2>1, <2>2 DEF IndexInv
<1>12. StoreInv'
  BY <1>2 DEF StoreInv, Saved
<1>13. RoleInv'
  BY <1>2 DEF RoleInv
<1>14. TermInv'
  BY <1>2 DEF TermInv
<1>15. MsgInv'
  BY <1>2, <1>3, <1>5, <1>8 DEF MsgInv, Msg
<1>16. HsInv'
  BY <1>2 DEF HsInv, Synced, InReady, Saved, Quiet
<1>17. RangeInv'
  BY <1>2 DEF RangeInv, Quiet
<1>18. PromiseInv'
  <2>1. \A m \in outbox' : OldTerms(m.index)'
    BY <1>5, <1>8 DEF OldTerms, Msg
  <2> QED
    BY <1>2, <1>7, <2>1 DEF PromiseInv
<1>19. Bootstrap => AppliedIsDurable'
  BY <1>2
<1> QED
  BY <1>1, <1>9, <1>10, <1>11, <1>12, <1>13, <1>14, <1>15, <1>16, <1>17, <1>18, <1>19

\* Start preserves the inductive invariant.
LEMMA StartInv ==
    ASSUME IInv, Start
    PROVE  IInv'
<1> USE DEF IInv
<1>1. TypeOK'
  BY StartType
<1>2. /\ pc = "down" /\ dLog' = dLog /\ dFirst' = dFirst /\ UNCHANGED <<answers, promised>>
      /\ pc' \in {"idle", "ready"} /\ ~inline' /\ smLog' = <<>> /\ stabled' = Len(dLog)
      /\ since' = dFirst - 1 /\ applied' = dFirst - 1 /\ committed' = Max2(dCommit', dFirst - 1)
      /\ prevHs' = [term |-> dTerm', commit |-> committed']
      /\ dTerm' = (IF Bootstrap THEN dTerm ELSE 0) /\ dCommit' = (IF Bootstrap THEN dCommit ELSE 0)
  BY DEF Start, InitializeStorage, LoadInitialState, StartLog
<1>3. dFirst \in Nat /\ dFirst > 0 /\ dTerm \in Nat /\ dCommit \in Nat /\ Len(dLog) \in Nat /\ dLog \in Seq(Entries)
  BY DEF TypeOK, DiskType
<1>4. /\ dFirst - 1 <= Len(dLog) /\ dCommit <= Len(dLog)
      /\ committed' \in Nat /\ committed' <= Len(dLog) /\ dFirst - 1 <= committed' /\ dCommit' <= committed'
      /\ \/ committed' = dCommit'
         \/ dTerm' = 0 /\ dCommit' = 0 /\ committed' = dFirst - 1
  <2>1. dFirst - 1 <= Len(dLog) /\ dCommit <= Len(dLog)
    BY DEF IndexInv
  <2>2. Loads(dTerm', dCommit')
    BY DEF Start, InitializeStorage, LoadInitialState
  <2> QED
    BY <1>2, <1>3, <2>1, <2>2 DEF Loads, Max2
<1>5. EmptyEntry(dTerm' + 1) \in Entries
  BY SMTT(60), <1>2, <1>3, EntryTypes
<1>6. log' = dLog \/ log' = Append(dLog, EmptyEntry(dTerm' + 1))
  BY <1>2 DEF Start, InitializeStorage, LoadInitialState, Campaign
<1>7. Len(dLog) <= Len(log') /\ \A i \in 1..Len(dLog) : i <= Len(log') /\ log'[i] = dLog[i]
  BY <1>3, <1>5, <1>6, Grows
<1>8. /\ \/ Bootstrap /\ pc' = "ready"
         \/ role' = "Follower" /\ outbox' = {}
      /\ role' = "Leader" => Bootstrap /\ Self \in voters'
      /\ \A m \in outbox' : m.kind = "vote" /\ m.term = term' /\ m.index = Len(dLog)
      /\ ~Bootstrap => voters' = {}
  BY <1>2 DEF Start, InitializeStorage, LoadInitialState, Campaign, Msg
<1>9. Len(log') \in Nat /\ term' \in Nat
  BY SMTT(60), <1>1 DEF TypeOK, RaftType
<1>10. LeaveInv'
  <2> SUFFICES ASSUME Leavers = {} PROVE LeaveInv'
    BY DEF LeaveInv
  <2>1. \A i \in 1..Len(log') : log'[i].kind # "Remove"
    <3>1. \A i \in 1..Len(dLog) : dLog[i].kind # "Remove"
      BY DEF LeaveInv
    <3>2. EmptyEntry(dTerm' + 1).kind # "Remove"
      BY DEF EmptyEntry, Entry
    <3> QED
      BY <1>3, <1>5, <1>6, <3>1, <3>2, KeepsKinds
  <2>2. Synced(prevHs.commit)'
    BY <1>2, <1>4 DEF Synced
  <2>3. HardStateLoadable'
    BY <1>2, <1>3, <1>4 DEF HardStateLoadable
  <2> QED
    BY <1>2, <1>8, <2>1, <2>2, <2>3 DEF LeaveInv, Quiet
<1>11. ApplyInOrder'
  BY <1>2 DEF ApplyInOrder
<1>12. IndexInv'
  BY <1>2, <1>3, <1>4, <1>7, <1>9 DEF IndexInv
<1>13. StoreInv'
  BY <1>2, <1>7 DEF StoreInv, Saved
<1>14. RoleInv'
  BY <1>2, <1>8 DEF RoleInv
<1>15. TermInv'
  BY <1>2, <1>3, <1>4, <1>8 DEF TermInv, Max2
<1>16. MsgInv'
  BY SMTT(60), <1>2, <1>3, <1>7, <1>8, <1>9 DEF MsgInv
<1>17. HsInv'
  BY <1>2, <1>3, <1>4 DEF HsInv, Synced, InReady, Saved, Quiet
<1>18. RangeInv'
  BY SMTT(60), <1>2 DEF RangeInv, Quiet
<1>19. PromiseInv'
  BY <1>2, <1>7, <1>8 DEF PromiseInv
<1>20. Bootstrap => AppliedIsDurable'
  BY <1>2 DEF AppliedIsDurable
<1> QED
  BY <1>1, <1>10, <1>11, <1>12, <1>13, <1>14, <1>15, <1>16, <1>17, <1>18, <1>19, <1>20

\* The initial states satisfy IInv.
LEMMA InitInv ==
    ASSUME Init
    PROVE  IInv
<1> USE DEF Init
<1>1. RaftType
  <2>1. log \in Seq(Entries) /\ outbox \in SUBSET Messages /\ prevHs \in HardStates
    BY EmptyTypes DEF HardStates
  <2> QED
    BY Zenon, <2>1 DEF RaftType
<1>2. DiskType
  BY SMTT(60), EmptyTypes DEF DiskType
<1>3. DriverType
  <2>1. smLog \in Seq(Nat)
    BY EmptyTypes
  <2>2. rd \in Readies
    BY SMTT(60) DEF NoReady, Readies, HardStates
  <2> QED
    BY Zenon, <2>1, <2>2 DEF DriverType
<1>4. OutsideType
  BY DEF OutsideType
<1>5. LeaveInv /\ ApplyInOrder /\ IndexInv /\ StoreInv /\ RoleInv /\ TermInv
  BY DEF LeaveInv, HardStateLoadable, ApplyInOrder, IndexInv, StoreInv, RoleInv, TermInv, Saved,
     Quiet
<1>6. MsgInv /\ HsInv /\ RangeInv /\ PromiseInv
  BY DEF MsgInv, HsInv, Synced, RangeInv, PromiseInv, InReady, Saved, Quiet
<1>7. AppliedIsDurable
  BY DEF AppliedIsDurable
<1> QED
  BY <1>1, <1>2, <1>3, <1>4, <1>5, <1>6, <1>7 DEF IInv, TypeOK

\* A stuttering step preserves IInv.
LEMMA StutterInv ==
    ASSUME IInv, UNCHANGED vars
    PROVE  IInv'
<1> USE DEF IInv
<1>1. TypeOK'
  BY DEF TypeOK, RaftType, DiskType, DriverType, OutsideType
<1>2. LeaveInv'
  BY DEF LeaveInv, HardStateLoadable, Synced
<1>3. ApplyInOrder' /\ IndexInv' /\ StoreInv'
  BY DEF ApplyInOrder, IndexInv, StoreInv
<1>4. RoleInv' /\ TermInv' /\ MsgInv'
  BY DEF RoleInv, TermInv, MsgInv
<1>5. HsInv'
  BY DEF HsInv, Synced
<1>6. RangeInv'
  BY DEF RangeInv
<1>7. PromiseInv'
  BY DEF PromiseInv, OldTerms
<1>8. (Bootstrap => AppliedIsDurable)'
  BY DEF AppliedIsDurable
<1> QED
  BY <1>1, <1>2, <1>3, <1>4, <1>5, <1>6, <1>7, <1>8

\* Every step preserves IInv.
LEMMA NextInv ==
    ASSUME IInv, [Next]_vars
    PROVE  IInv'
<1>1. CASE UNCHANGED vars
  BY <1>1, StutterInv
<1>2. CASE Start \/ Boot2 \/ TickElection \/ NoReadyToProcess \/ BeginReady \/ SaveEntries
  BY <1>2, StartInv, Boot2Inv, TickElectionInv, NoReadyToProcessInv, BeginReadyInv,
     SaveEntriesInv
<1>3. CASE SaveHardState \/ Send \/ ApplyCommitted \/ Advance \/ LightReady
  BY <1>3, SaveHardStateInv, SendInv, ApplyCommittedInv, AdvanceInv, LightReadyInv
<1>4. CASE ApplyNewlyCommitted \/ CompactLog
  BY <1>4, ApplyNewlyCommittedInv, CompactLogInv
<1>t. crashes \in Nat
  BY DEF IInv, TypeOK, OutsideType
<1>10. CASE Crash
  <2>1. Dropped({}) /\ pc' \in {"down", "failed"} /\ crashes' \in Nat
    BY <1>10, <1>t DEF Crash
  <2> QED
    BY <2>1, DroppedInv
<1>11. CASE ApplyFails
  <2>1. Dropped({}) /\ pc' \in {"down", "failed"} /\ crashes' \in Nat
    BY <1>11, <1>t DEF ApplyFails
  <2> QED
    BY <2>1, DroppedInv
<1>12. ASSUME NEW p \in Proposals, ProposalFails(p) PROVE IInv'
  <2>1. Dropped({p}) /\ pc' \in {"down", "failed"} /\ crashes' \in Nat
    BY <1>12, <1>t DEF ProposalFails
  <2> QED
    BY <2>1, DroppedInv
<1>5. ASSUME NEW p \in Proposals, HandleProposal(p) PROVE IInv'
  BY <1>5, HandleProposalInv
<1>6. ASSUME NEW n \in Peers, HandleConfChange("Add", n) PROVE IInv'
  BY <1>6, HandleConfChangeInv DEF Nodes
<1>13. ASSUME NEW n \in Leavers, HandleConfChange("Remove", n) PROVE IInv'
  BY <1>13, PeersAssumption, HandleConfChangeInv DEF Nodes
<1>7. ASSUME NEW prev \in 0..MaxLog, NEW n \in 0..MaxAppend, NEW c \in 0..MaxLog,
             NEW es \in [1..n -> LeaderEntries], StepAppend(prev, es, c)
      PROVE  IInv'
  <2>1. es \in Seq(LeaderEntries) /\ prev \in Nat /\ c \in Nat
    BY SMTT(60)
  <2> QED
    BY <1>7, <2>1, StepAppendInv
<1>8. ASSUME NEW c \in 0..Len(log), NEW more \in BOOLEAN, StepResponse(c, more) PROVE IInv'
  <2>1. c \in Nat
    BY SMTT(60) DEF IInv, TypeOK, RaftType
  <2> QED
    BY <1>8, <2>1, StepResponseInv
<1>9. ASSUME NEW due \in BOOLEAN, Tick(due) \/ Tick2(due) PROVE IInv'
  BY <1>9, TickInv, Tick2Inv
<1> QED
  BY <1>1, <1>2, <1>3, <1>4, <1>5, <1>6, <1>7, <1>8, <1>9, <1>10, <1>11, <1>12,
     <1>13 DEF Next

-----------------------------------------------------------------------------
(* The theorems. *)

\* The inductive invariant holds in every reachable state of the event loop.
THEOREM Invariance == Spec => []IInv
<1>1. Init => IInv
  BY InitInv
<1>2. IInv /\ [Next]_vars => IInv'
  BY NextInv
<1> QED
  BY <1>1, <1>2, PTL DEF Spec

\* The event loop of RaftManager keeps every variable in its type; in particular
\* every index it applies or reads back is an index of the log.
THEOREM TypeCorrect == Spec => []TypeOK
<1>1. IInv => TypeOK
  BY DEF IInv
<1> QED
  BY <1>1, Invariance, PTL

\* However the process dies between save_entries_to_storage, save_hard_state and
\* compaction, the hard state that initial_state reads back lies in the log.
THEOREM AlwaysLoadable ==
    ASSUME Leavers = {}
    PROVE  Spec => []HardStateLoadable
<1>1. IInv => HardStateLoadable
  BY DEF IInv, LeaveInv
<1> QED
  BY <1>1, Invariance, PTL

\* process_committed_entries, the inline ready and handle_newly_committed_entries
\* together apply every entry at most once and in log order.
THEOREM AppliesInOrder == Spec => []ApplyInOrder
<1>1. IInv => ApplyInOrder
  BY DEF IInv
<1> QED
  BY <1>1, Invariance, PTL

\* On a bootstrapped node a proposal whose client was answered is in the log
\* table below the commit index on disk, after any number of crashes.
THEOREM AnsweredIsDurable ==
    ASSUME Bootstrap
    PROVE  Spec => []AppliedIsDurable
<1>1. IInv => AppliedIsDurable
  BY DEF IInv
<1> QED
  BY <1>1, Invariance, PTL

\* A message is handed over only by Send and LightReady, behind the saves.
LEMMA SendStep ==
    ASSUME IInv, Next, NEW m \in net', m \notin net
    PROVE  m.index <= Len(dLog) /\ m.term <= dTerm
<1> USE DEF IInv
<1>1. CASE Send
  <2>1. m \in rd.msgs /\ pc = "send"
    BY <1>1 DEF Send, Transmit, Sendable
  <2>2. m.index <= Len(log) /\ m.term <= term /\ m.index \in Nat
    BY <2>1 DEF MsgInv, TypeOK, DriverType, Readies, Messages
  <2>3. Len(log) <= Len(dLog)
    BY <2>1 DEF StoreInv, Saved
  <2>4. term = dTerm
    BY <2>1 DEF HsInv, Synced, InReady, Saved
  <2> QED
    BY <2>2, <2>3, <2>4 DEF TypeOK, RaftType, DiskType
<1>2. CASE LightReady
  <2>1. m \in rd.msgs /\ pc = "light"
    BY <1>2 DEF LightReady, Transmit
  <2>2. m.index <= Len(log) /\ m.term <= term /\ m.index \in Nat
    BY <2>1 DEF MsgInv, TypeOK, DriverType, Readies, Messages
  <2>3. Len(log) <= Len(dLog)
    BY <2>1 DEF StoreInv, Saved
  <2>4. term = dTerm
    BY <2>1 DEF HsInv, Synced, InReady, Saved
  <2> QED
    BY <2>2, <2>3, <2>4 DEF TypeOK, RaftType, DiskType
<1>3. ~Send /\ ~LightReady => net' \subseteq net
  BY Zenon DEF Next, Start, InitializeStorage, LoadInitialState, Boot2, HandleProposal, HandleConfChange, StepAppend,
     StepResponse, Tick, Tick2, TickElection, NoReadyToProcess, BeginReady, SaveEntries,
     SaveHardState, ApplyCommitted, Advance, ApplyNewlyCommitted, CompactLog, SnapshotIndex, CompactedFirst, Crash,
     ApplyFails, ProposalFails, Dropped
<1> QED
  BY <1>1, <1>2, <1>3

\* Persist before send: whatever on_ready, the inline ready and the LightReady
\* hand to the transport, the entries and the term it vouches for are on disk.
THEOREM PersistsBeforeSending == Spec => SendAfterPersist
<1>1. IInv /\ [Next]_vars =>
          [\A m \in net' \ net : m.index <= Len(dLog) /\ m.term <= dTerm]_vars
  BY SendStep
<1> QED
  BY <1>1, Invariance, PTL DEF Spec, SendAfterPersist

\* Only SaveEntries writes rows, and it keeps the promised ones.
LEMMA PromiseStep ==
    ASSUME IInv, Next, NEW i \in promised
    PROVE  i <= Len(dLog') /\ dLog'[i] = dLog[i]
<1> USE DEF IInv
<1>1. i \in 1..Len(dLog) /\ (pc \notin {"down", "failed"} => i \in 1..Len(log) /\ log[i] = dLog[i])
  BY DEF PromiseInv, TypeOK, RaftType
<1>2. CASE SaveEntries
  <2>1. /\ pc \notin {"down", "failed"} /\ log \in Seq(Entries) /\ dLog \in Seq(Entries)
        /\ dLog' = Stored(log, dLog)
    BY <1>2 DEF SaveEntries, TypeOK, RaftType, DiskType
  <2>2. Len(dLog') = Max2(Len(log), Len(dLog)) /\ \A j \in 1..Len(log) : dLog'[j] = log[j]
    BY Zenon, <2>1, StoredFacts
  <2>3. i \in 1..Len(log) /\ log[i] = dLog[i] /\ Len(log) \in Nat /\ Len(dLog) \in Nat
    BY SMTT(60), <1>1, <2>1
  <2>4. i <= Len(dLog')
    BY <2>2, <2>3 DEF Max2
  <2> QED
    BY <2>2, <2>3, <2>4
<1>3. ~SaveEntries => dLog' = dLog
  BY Zenon DEF Next, Start, InitializeStorage, LoadInitialState, StartLog, Boot2, HandleProposal, HandleConfChange, StepAppend,
     StepResponse, Tick, Tick2, TickElection, NoReadyToProcess, BeginReady, TakeReady,
     SaveHardState, Send, ApplyCommitted, Advance, LightReady, ApplyNewlyCommitted, CompactLog, SnapshotIndex, CompactedFirst,
     Crash, ApplyFails, ProposalFails, Dropped
<1> QED
  BY <1>1, <1>2, <1>3

\* RedbRaftStorage::append never overwrites a row that this node has vouched for,
\* over crashes and restarts, although a joined node forgets its term.
THEOREM PromisesAreKept == Spec => PromisedEntriesStay
<1>1. IInv /\ [Next]_vars =>
          [\A i \in promised : i <= Len(dLog') /\ dLog'[i] = dLog[i]]_vars
  BY PromiseStep
<1> QED
  BY <1>1, Invariance, PTL DEF Spec, PromisedEntriesStay

\* Only the two apply actions extend smLog, with a durable index.
LEMMA ApplyStep ==
    ASSUME IInv, Next, NEW i \in 1..Len(smLog'), i > Len(smLog)
    PROVE  /\ smLog'[i] <= dCommit /\ smLog'[i] <= Len(dLog)
           /\ dLog[smLog'[i]] = log[smLog'[i]]
<1>1. smLog \in Seq(Nat) /\ dCommit \in Nat /\ Len(dLog) \in Nat
  BY SMTT(60) DEF IInv, TypeOK, DriverType, DiskType
<1>2. CASE ApplyCommitted \/ ApplyNewlyCommitted
  <2>1. /\ smLog' = smLog \/ smLog' = Append(smLog, rd.lo)
        /\ rd.lo \in 1..dCommit /\ rd.lo \in 1..Len(dLog) /\ dLog[rd.lo] = log[rd.lo]
    BY <1>2, ApplyCommittedFacts, ApplyNewlyCommittedFacts
  <2>2. smLog' = Append(smLog, rd.lo) /\ rd.lo \in Nat
    BY SMTT(60), <1>1, <2>1
  <2>3. Len(smLog') = Len(smLog) + 1 /\ smLog'[Len(smLog) + 1] = rd.lo
    BY <1>1, <2>2, AppendFacts
  <2>4. i = Len(smLog) + 1
    BY <1>1, <2>3
  <2> QED
    BY <1>1, <2>1, <2>3, <2>4
<1>3. ~ApplyCommitted /\ ~ApplyNewlyCommitted => smLog' = smLog \/ smLog' = <<>>
  BY Zenon DEF Next, Start, InitializeStorage, LoadInitialState, Boot2, HandleProposal, HandleConfChange, StepAppend,
     StepResponse, Tick, Tick2, TickElection, NoReadyToProcess, BeginReady, TakeReady,
     SaveEntries, SaveHardState, Send, Advance, LightReady, CompactLog, SnapshotIndex, CompactedFirst, Crash,
     ApplyFails, ProposalFails, Dropped
<1> QED
  BY <1>1, <1>2, <1>3

\* process_normal_entry sees an entry only when its row and a commit index that
\* covers it are on disk.
THEOREM AppliesAfterCommit == Spec => ApplyAfterCommit
<1>1. IInv /\ [Next]_vars =>
          [\A i \in 1..Len(smLog') :
              i > Len(smLog) => /\ smLog'[i] <= dCommit /\ smLog'[i] <= Len(dLog)
                                /\ dLog[smLog'[i]] = log[smLog'[i]]]_vars
  BY ApplyStep
<1> QED
  BY <1>1, Invariance, PTL DEF Spec, ApplyAfterCommit

-----------------------------------------------------------------------------
(* Nothing committed is passed over on a node that bootstraps and has no     *)
(* peers.                                                                    *)

\* The entries up to k have reached the state machine.
Covered(k) == \A i \in 1..k : dLog[i].kind = "Normal" => i \in smSet

\* Which entries have been applied at each point of a handler.  A lone voter
\* never processes a ready inline, commits only what it has stored, and drops a
\* row from its log table only after applying it.
CoverInv ==
    /\ Covered(dFirst - 1)
    /\ pc \notin {"down", "failed"} =>
          /\ voters = {Self} /\ ~inline
          /\ committed <= stabled /\ stabled <= Len(dLog)
    /\ pc \in Quiet => Covered(since)
    /\ pc \in Quiet \ {"ready"} => Covered(committed)
    /\ pc \in {"entries", "hs", "send", "apply"} =>
          /\ committed <= since /\ Covered(rd.lo - 1)
          /\ rd.lo > rd.hi => rd.lo = since + 1
    /\ pc = "light" => Covered(applied) /\ (rd.save \/ committed <= applied)
    /\ pc = "newly" =>
          /\ rd.hi \in {0, committed} /\ Covered(rd.lo - 1)
          /\ rd.lo > rd.hi => committed < rd.lo

\* The node was started without a join address and nobody joins it.
Alone == Bootstrap /\ Peers = {}

\* The numbers that the invariants compare.
LEMMA CoverNumbers ==
    ASSUME IInv
    PROVE  /\ committed \in Nat /\ stabled \in Nat /\ applied \in Nat /\ since \in Nat
           /\ dFirst \in Nat \ {0} /\ Len(dLog) \in Nat /\ Len(log) \in Nat
           /\ rd.lo \in Nat \ {0} /\ rd.hi \in Nat /\ rd.last \in Nat /\ dCommit \in Nat
           /\ rd.hs.commit \in Nat /\ lastApplied \in Nat
BY SMTT(60) DEF IInv, TypeOK, RaftType, DiskType, DriverType, Readies, HardStates

\* Covered says less of fewer entries.
LEMMA CoveredLess ==
    ASSUME NEW k \in Nat, Covered(k), NEW j \in Nat, j <= k
    PROVE  Covered(j)
BY SMTT(60) DEF Covered

\* What was applied stays applied while the table keeps its rows.
LEMMA CoveredStays ==
    ASSUME NEW k \in Nat, Covered(k), smSet \subseteq smSet',
           \A i \in 1..k : dLog'[i] = dLog[i]
    PROVE  Covered(k)'
BY DEF Covered

\* Steps between two readies: the disk and the indexes are left alone.
LEMMA CoverQuiet ==
    ASSUME IInv, CoverInv, pc \in Quiet, pc' = "ready" \/ pc' = pc \/ Covered(committed),
           pc' \in Quiet, ~inline',
           UNCHANGED <<voters, committed, stabled, since, dLog, dFirst, smSet>>
    PROVE  CoverInv'
<1>1. \A k \in Nat : Covered(k) => Covered(k)'
  BY CoveredStays
<1>2. Covered(dFirst - 1)' /\ Covered(since)'
  BY SMTT(60), <1>1, CoverNumbers DEF CoverInv
<1>3. pc' # "ready" => Covered(committed)'
  BY <1>1, CoverNumbers DEF CoverInv
<1> QED
  BY <1>2, <1>3 DEF CoverInv, Quiet

\* The handlers of the main loop, and the end of a tick.
LEMMA HandlersCover ==
    ASSUME Alone, IInv, CoverInv,
           \/ Boot2 \/ TickElection \/ \E p \in Proposals : HandleProposal(p)
           \/ \E n \in Nodes, k \in {"Add", "Remove"} : HandleConfChange(k, n)
           \/ \E due \in BOOLEAN : Tick(due) \/ Tick2(due)
    PROVE  CoverInv'
<1>1. pc \in Quiet /\ ~inline
  BY DEF Quiet, CoverInv, Boot2, TickElection, HandleProposal, HandleConfChange, Tick, Tick2
<1>2. UNCHANGED <<voters, committed, stabled, since, dLog, dFirst, smSet>>
  BY Zenon DEF Boot2, TickElection, HandleProposal, HandleConfChange, Tick, Tick2
<1>3. ~inline' /\ pc' \in {pc, "ready", "idle"}
  BY <1>1 DEF Boot2, TickElection, HandleProposal, HandleConfChange, Tick, Tick2
<1>4. pc' = "ready" \/ pc' = pc \/ Covered(committed)
  BY <1>1, <1>3 DEF Boot2, TickElection, HandleProposal, HandleConfChange, Tick, Tick2, CoverInv, Quiet
<1> QED
  BY <1>1, <1>2, <1>3, <1>4, CoverQuiet DEF Quiet

\* No other message reaches a node without peers.
LEMMA NoMessages ==
    ASSUME Alone, IInv, CoverInv
    PROVE  /\ \A prev, es, c : ~StepAppend(prev, es, c)
           /\ \A c, more : ~StepResponse(c, more)
BY DEF Alone, CoverInv, StepAppend, StepResponse

\* Dropping the process leaves the disk alone.
LEMMA DroppedCover ==
    ASSUME IInv, CoverInv, NEW ps, Dropped(ps), pc' \in {"down", "failed"}
    PROVE  CoverInv'
<1>1. UNCHANGED <<dLog, dFirst, smSet>>
  BY DEF Dropped
<1>2. Covered(dFirst - 1)'
  BY <1>1 DEF Covered, CoverInv
<1> QED
  BY <1>2 DEF CoverInv, Quiet

\* The start hands out again what lies behind the rows that were dropped.
LEMMA StartCover ==
    ASSUME Alone, IInv, CoverInv, Start
    PROVE  CoverInv'
<1>1. UNCHANGED <<dLog, dFirst, smSet>> /\ dCommit' = dCommit
  BY DEF Alone, Start, InitializeStorage, StartLog
<1>2. Covered(dFirst - 1)'
  BY <1>1 DEF Covered, CoverInv
<1>3. /\ pc' = "ready" /\ ~inline' /\ voters' = {Self} /\ since' = dFirst' - 1
      /\ stabled' = Len(dLog') /\ committed' = Max2(dCommit, dFirst - 1)
  BY <1>1 DEF Alone, Start, InitializeStorage, LoadInitialState
<1>4. committed' <= stabled'
  BY <1>1, <1>3, CoverNumbers DEF IInv, IndexInv, Max2
<1>5. stabled' <= Len(dLog')
  BY <1>1, <1>3, CoverNumbers
<1> QED
  BY <1>2, <1>3, <1>4, <1>5 DEF CoverInv, Quiet

\* on_ready finds nothing left to hand out.
LEMMA NoReadyCover ==
    ASSUME IInv, CoverInv, NoReadyToProcess
    PROVE  CoverInv'
<1>1. /\ pc = "ready" /\ pc' = ret /\ UNCHANGED inline
      /\ UNCHANGED <<voters, committed, stabled, since, dLog, dFirst, smSet>>
      /\ ~(HandOut > since)
  BY DEF NoReadyToProcess, HasReady
<1>2. committed <= stabled /\ ~inline /\ Covered(since)
  BY <1>1 DEF CoverInv, Quiet
<1>3. committed <= since
  BY <1>1, <1>2, CoverNumbers DEF HandOut, Min2
<1>4. Covered(committed)
  BY <1>2, <1>3, CoverNumbers, CoveredLess
<1>5. pc' \in Quiet
  BY <1>1 DEF IInv, TypeOK, DriverType, Quiet
<1> QED
  BY <1>1, <1>2, <1>4, <1>5, CoverQuiet DEF Quiet

\* The ready takes everything that is committed and not handed out yet.
LEMMA BeginReadyCover ==
    ASSUME IInv, CoverInv, BeginReady
    PROVE  CoverInv'
<1>1. /\ pc = "ready" /\ pc' = "entries" /\ rd'.lo = since + 1 /\ rd'.hi = HandOut
      /\ since' = Max2(since, HandOut)
      /\ UNCHANGED <<voters, inline, committed, stabled, dLog, dFirst, smSet>>
  BY DEF BeginReady, TakeReady
<1>2. committed <= stabled /\ Covered(since) /\ Covered(dFirst - 1)
  BY <1>1 DEF CoverInv, Quiet
<1>3. HandOut = committed
  BY <1>2, CoverNumbers DEF HandOut, Min2
<1>4. committed' <= since' /\ rd'.lo - 1 = since /\ (rd'.lo > rd'.hi => rd'.lo = since' + 1)
  BY SMTT(60), <1>1, <1>3, CoverNumbers DEF Max2
<1>5. Covered(rd.lo - 1)' /\ Covered(dFirst - 1)'
  BY <1>1, <1>2, <1>4 DEF Covered
<1> QED
  BY <1>1, <1>4, <1>5 DEF CoverInv, Quiet

\* Saving the entries only adds rows.
LEMMA SaveEntriesCover ==
    ASSUME Alone, IInv, CoverInv, SaveEntries
    PROVE  CoverInv'
<1>1. /\ pc = "entries" /\ pc' = "hs" /\ UNCHANGED <<rd, since, smSet, dFirst, committed, stabled>>
      /\ UNCHANGED <<voters, inline>> /\ dLog' = Stored(log, dLog)
  BY DEF SaveEntries
<1>2. log \in Seq(Entries) /\ dLog \in Seq(Entries)
  BY DEF IInv, TypeOK, RaftType, DiskType
<1>3. Len(dLog') = Max2(Len(log), Len(dLog)) /\ \A j \in 1..Len(log) : dLog'[j] = log[j]
  BY Zenon, <1>1, <1>2, StoredFacts
<1>4. Len(dLog) <= Len(log) /\ \A i \in 1..Len(dLog) : log[i] = dLog[i]
  BY <1>1 DEF Alone, IInv, StoreInv
<1>5. Len(dLog) <= Len(dLog') /\ Len(dLog') \in Nat /\ \A i \in 1..Len(dLog) : dLog'[i] = dLog[i]
  BY SMTT(60), <1>3, <1>4, CoverNumbers DEF Max2
<1>6. ASSUME NEW k \in Nat, k <= Len(dLog), Covered(k) PROVE Covered(k)'
  BY SMTT(60), <1>1, <1>5, <1>6, CoverNumbers DEF Covered
<1>7. rd.lo - 1 <= Len(dLog) /\ dFirst - 1 <= Len(dLog) /\ stabled <= Len(dLog')
  BY SMTT(60), <1>1, <1>5, CoverNumbers DEF IInv, RangeInv, IndexInv, CoverInv
<1>8. Covered(rd.lo - 1)' /\ Covered(dFirst - 1)'
  <2>1. PICK k, j \in Nat : k = rd.lo - 1 /\ j = dFirst - 1
    BY CoverNumbers
  <2>2. Covered(k) /\ Covered(j) /\ k <= Len(dLog) /\ j <= Len(dLog)
    BY <1>1, <1>7, <2>1 DEF CoverInv
  <2>3. Covered(k)' /\ Covered(j)'
    BY <1>6, <2>2
  <2>4. rd' = rd /\ dFirst' = dFirst
    BY <1>1
  <2> QED
    BY <2>1, <2>3, <2>4 DEF Covered
<1> QED
  BY <1>1, <1>7, <1>8 DEF CoverInv, Quiet

\* Saving the hard state and sending apply nothing.
LEMMA SaveAndSendCover ==
    ASSUME IInv, CoverInv, SaveHardState \/ Send
    PROVE  CoverInv'
<1>1. /\ pc \in {"hs", "send"} /\ pc' \in {"send", "apply"}
      /\ UNCHANGED <<rd, since, smSet, dFirst, committed, stabled, voters, inline, dLog>>
  BY DEF SaveHardState, Send
<1>2. Covered(rd.lo - 1)' /\ Covered(dFirst - 1)'
  BY <1>1 DEF CoverInv, Covered
<1> QED
  BY <1>1, <1>2 DEF CoverInv, Quiet

\* Applying the next entry of a lone voter: a proposal reaches the tables, the
\* configuration and the commit index stay.
LEMMA ApplyCovers ==
    ASSUME Alone, IInv, CoverInv, rd.lo \in 1..Len(log), voters = {Self},
           \/ ApplyConf(rd.lo) /\ IsConf(log[rd.lo])
           \/ ApplyNormal(rd.lo) /\ log[rd.lo].kind = "Normal"
           \/ SkipEntry /\ log[rd.lo].kind \notin {"Normal", "Add", "Remove"},
           Covered(rd.lo - 1), dLog' = dLog, dFirst' = dFirst, dLog[rd.lo] = log[rd.lo],
           rd' = [rd EXCEPT !.lo = @ + 1]
    PROVE  /\ voters' = {Self} /\ committed' = committed
           /\ Covered(rd.lo - 1)' /\ Covered(dFirst - 1)'
<1>1. smSet \subseteq smSet' /\ (log[rd.lo].kind = "Normal" => rd.lo \in smSet')
  BY DEF ApplyConf, IsConf, ApplyNormal, SkipEntry
<1>2. voters' = {Self}
  <2>1. CASE ApplyConf(rd.lo) /\ IsConf(log[rd.lo])
    <3>1. log[rd.lo].val = Self
      BY SMTT(60), <2>1 DEF Alone, IInv, TypeOK, RaftType, Entries, Nodes, IsConf
    <3> QED
      BY <2>1, <3>1 DEF ApplyConf, NewVoters
  <2> QED
    BY <2>1 DEF ApplyNormal, SkipEntry
<1>3. committed' = committed
  BY <1>2 DEF ApplyConf, Committable, ApplyNormal, SkipEntry
<1>4. rd'.lo - 1 = rd.lo
  BY SMTT(60), CoverNumbers DEF IInv, TypeOK, DriverType, Readies
<1>5. \A i \in 1..rd.lo : i \in 1..(rd.lo - 1) \/ i = rd.lo
  BY CoverNumbers
<1>6. Covered(rd.lo - 1)'
  BY <1>1, <1>4, <1>5 DEF Covered
<1>7. Covered(dFirst - 1)'
  BY <1>1 DEF Covered, CoverInv
<1> QED
  BY <1>2, <1>3, <1>6, <1>7

\* The next entry of the ready.
LEMMA ApplyCommittedCover ==
    ASSUME Alone, IInv, CoverInv, ApplyCommitted
    PROVE  CoverInv'
<1>1. /\ pc = "apply" /\ pc' = pc /\ rd.lo <= rd.hi /\ rd' = [rd EXCEPT !.lo = @ + 1]
      /\ UNCHANGED <<inline, since, stabled, dLog, dFirst>>
  BY DEF ApplyCommitted
<1>2. /\ voters = {Self} /\ ~inline /\ Covered(rd.lo - 1) /\ committed <= since
      /\ committed <= stabled /\ stabled <= Len(dLog)
  BY <1>1 DEF CoverInv
<1>3. rd.lo \in 1..Len(log) /\ dLog[rd.lo] = log[rd.lo]
  BY ApplyCommittedFacts
<1>4. \/ ApplyConf(rd.lo) /\ IsConf(log[rd.lo])
      \/ ApplyNormal(rd.lo) /\ log[rd.lo].kind = "Normal"
      \/ SkipEntry /\ log[rd.lo].kind \notin {"Normal", "Add", "Remove"}
  BY <1>2 DEF ApplyCommitted, IsConf
<1>5. /\ voters' = {Self} /\ committed' = committed
      /\ Covered(rd.lo - 1)' /\ Covered(dFirst - 1)'
  BY <1>1, <1>2, <1>3, <1>4, ApplyCovers
<1>6. rd.hi = since /\ rd'.lo = rd.lo + 1 /\ rd'.hi = rd.hi
  BY <1>1 DEF IInv, RangeInv, TypeOK, DriverType, Readies
<1>7. rd'.lo > rd'.hi => rd'.lo = since' + 1
  BY <1>1, <1>6, CoverNumbers
<1> QED
  BY <1>1, <1>2, <1>5, <1>7 DEF CoverInv, Quiet

\* advance() commits what has been stored; all that was handed out is applied.
LEMMA AdvanceCover ==
    ASSUME Alone, IInv, CoverInv, Advance
    PROVE  CoverInv'
<1>1. /\ pc = "apply" /\ rd.lo > rd.hi /\ stabled' = rd.last /\ committed' = CommittedAfterPersist
      /\ applied' = since
      /\ UNCHANGED <<voters, dLog, dFirst, smSet>>
  BY DEF Advance
<1>2. /\ voters = {Self} /\ ~inline /\ Covered(rd.lo - 1) /\ committed <= since
      /\ committed <= stabled /\ rd.lo = since + 1 /\ Covered(dFirst - 1)
  BY <1>1 DEF CoverInv
<1>3. pc' = "light" /\ inline' = inline /\ rd' = [rd EXCEPT !.msgs = outbox, !.save = committed' > rd.hs.commit]
  BY <1>2 DEF Advance
<1>4. rd'.save = (committed' > rd.hs.commit)
  BY <1>3 DEF IInv, TypeOK, DriverType, Readies
<1>5. stabled <= rd.last /\ rd.last <= Len(log) /\ Len(log) <= Len(dLog) /\ rd.hs.commit <= committed
  BY <1>1 DEF IInv, RangeInv, StoreInv, HsInv, Saved
<1>6. committed' \in Nat /\ committed' <= stabled' /\ stabled' <= Len(dLog')
  BY <1>1, <1>2, <1>5, CoverNumbers DEF CommittedAfterPersist, Max2
<1>7. rd'.save \/ committed' <= applied'
  <2>1. committed' > rd.hs.commit \/ committed' <= since
    BY <1>2, <1>5, <1>6, CoverNumbers
  <2> QED
    BY <1>1, <1>4, <2>1, Zenon
<1>8. rd.lo - 1 = since
  BY <1>2, CoverNumbers
<1>9. Covered(applied)' /\ Covered(dFirst - 1)'
  BY <1>1, <1>2, <1>8 DEF Covered
<1> QED
  BY <1>1, <1>2, <1>3, <1>6, <1>7, <1>9 DEF CoverInv, Quiet

\* The range that is read back starts behind what has been applied.
LEMMA LightReadyCover ==
    ASSUME IInv, CoverInv, LightReady
    PROVE  CoverInv'
<1>1. /\ pc = "light" /\ pc' = "newly"
      /\ rd' = [rd EXCEPT !.lo = NewlyStart, !.hi = IF rd.save THEN NewlyEnd ELSE 0]
      /\ UNCHANGED <<voters, inline, committed, stabled, dLog, dFirst, smSet>>
  BY DEF LightReady
<1>2. rd'.lo = NewlyStart /\ rd'.hi = IF rd.save THEN committed ELSE 0
  BY <1>1 DEF NewlyEnd, IInv, TypeOK, DriverType, Readies
<1>3. NewlyStart = applied + 1
  BY <1>1, CoverNumbers DEF NewlyStart, CurrentApplied, IInv, RangeInv
<1>4. rd'.lo - 1 = applied /\ rd'.lo > applied
  BY <1>2, <1>3, CoverNumbers
<1>5. Covered(rd.lo - 1)' /\ Covered(dFirst - 1)'
  BY <1>1, <1>4 DEF Covered, CoverInv
<1>6. rd.save \/ committed <= applied
  BY <1>1 DEF CoverInv
<1>7. rd'.hi \in {0, committed} /\ (rd'.lo > rd'.hi => committed < rd'.lo)
  BY <1>2, <1>3, <1>6, CoverNumbers
<1> QED
  BY <1>1, <1>5, <1>7 DEF CoverInv, Quiet

\* The next entry of that range.
LEMMA ApplyNewlyCommittedCover ==
    ASSUME Alone, IInv, CoverInv, ApplyNewlyCommitted
    PROVE  CoverInv'
<1>1. /\ pc = "newly" /\ pc' = pc /\ rd.lo <= rd.hi /\ rd' = [rd EXCEPT !.lo = @ + 1]
      /\ UNCHANGED <<inline, since, stabled, dLog, dFirst>>
  BY DEF ApplyNewlyCommitted
<1>2. /\ voters = {Self} /\ ~inline /\ Covered(rd.lo - 1) /\ rd.hi \in {0, committed}
      /\ committed <= stabled /\ stabled <= Len(dLog)
  BY <1>1 DEF CoverInv
<1>3. rd.lo \in 1..Len(log) /\ dLog[rd.lo] = log[rd.lo]
  BY ApplyNewlyCommittedFacts
<1>4. \/ ApplyConf(rd.lo) /\ IsConf(log[rd.lo])
      \/ ApplyNormal(rd.lo) /\ log[rd.lo].kind = "Normal"
      \/ SkipEntry /\ log[rd.lo].kind \notin {"Normal", "Add", "Remove"}
  BY <1>2 DEF ApplyNewlyCommitted, IsConf
<1>5. /\ voters' = {Self} /\ committed' = committed
      /\ Covered(rd.lo - 1)' /\ Covered(dFirst - 1)'
  BY <1>1, <1>2, <1>3, <1>4, ApplyCovers
<1>6. rd.hi = committed /\ rd'.lo = rd.lo + 1 /\ rd'.hi = rd.hi
  BY SMTT(60), <1>1, <1>2, CoverNumbers DEF IInv, TypeOK, DriverType, Readies
<1>7. rd'.lo > rd'.hi => committed < rd'.lo
  BY <1>1, <1>6, CoverNumbers
<1> QED
  BY <1>1, <1>2, <1>5, <1>6, <1>7 DEF CoverInv, Quiet

\* Compaction drops only rows below the last one applied.
LEMMA CompactLogCover ==
    ASSUME IInv, CoverInv, CompactLog
    PROVE  CoverInv'
<1>1. /\ pc = "newly" /\ rd.lo > rd.hi /\ pc' = ret
      /\ UNCHANGED <<voters, inline, committed, stabled, since, dLog, smSet>>
      /\ dFirst' = dFirst \/ dFirst' = CompactedFirst(SnapshotIndex)
  BY DEF CompactLog
<1>2. Covered(rd.lo - 1) /\ committed < rd.lo /\ Covered(dFirst - 1)
  BY <1>1 DEF CoverInv
<1>3. applied <= since /\ since <= committed
  BY <1>1 DEF IInv, IndexInv
<1>4. Covered(committed) /\ Covered(since) /\ Covered(applied)
  BY <1>2, <1>3, CoverNumbers, CoveredLess
<1>5. dFirst' - 1 <= dFirst - 1 \/ dFirst' - 1 <= applied
  BY <1>1, CoverNumbers DEF CompactedFirst, SnapshotIndex, Max2, Min2
<1>6. dFirst' - 1 \in Nat
  BY <1>1, CoverNumbers DEF CompactedFirst, SnapshotIndex, Max2, Min2
<1>7. Covered(dFirst - 1)'
  <2>1. \A i \in 1..(dFirst' - 1) : i \in 1..(dFirst - 1) \/ i \in 1..applied
    BY <1>5, <1>6, CoverNumbers
  <2> QED
    BY <1>1, <1>2, <1>4, <2>1 DEF Covered
<1>8. Covered(since)' /\ Covered(committed)'
  BY <1>1, <1>4 DEF Covered
<1>9. ret \in Quiet \ {"ready"}
  BY DEF IInv, TypeOK, DriverType, Quiet
<1> QED
  BY <1>1, <1>7, <1>8, <1>9 DEF CoverInv, Quiet

\* Every step of a lone voter keeps CoverInv.
LEMMA NextCover ==
    ASSUME Alone, IInv, CoverInv, [Next]_vars
    PROVE  CoverInv'
<1>1. CASE UNCHANGED vars
  BY <1>1 DEF CoverInv, Covered
<1>2. CASE Start \/ NoReadyToProcess \/ BeginReady \/ SaveEntries \/ SaveHardState \/ Send
  BY <1>2, StartCover, NoReadyCover, BeginReadyCover, SaveEntriesCover, SaveAndSendCover
<1>3. CASE ApplyCommitted \/ Advance \/ LightReady \/ ApplyNewlyCommitted \/ CompactLog
  BY <1>3, ApplyCommittedCover, AdvanceCover, LightReadyCover, ApplyNewlyCommittedCover,
     CompactLogCover
<1>4. CASE Crash \/ ApplyFails
  BY <1>4, DroppedCover DEF Crash, ApplyFails
<1>5. ASSUME NEW p \in Proposals, ProposalFails(p) PROVE CoverInv'
  BY <1>5, DroppedCover DEF ProposalFails
<1>6. CASE Boot2 \/ TickElection \/ \E p \in Proposals : HandleProposal(p)
  BY <1>6, HandlersCover
<1>7. CASE \E due \in BOOLEAN : Tick(due) \/ Tick2(due)
  BY <1>7, HandlersCover
<1>8. ASSUME NEW n \in Leavers, HandleConfChange("Remove", n) PROVE CoverInv'
  BY <1>8, HandlersCover, PeersAssumption DEF Nodes
<1>9. ASSUME NEW n \in Peers PROVE FALSE
  BY DEF Alone
<1> QED
  BY <1>1, <1>2, <1>3, <1>4, <1>5, <1>6, <1>7, <1>8, <1>9, NoMessages DEF Next

\* On a node that bootstraps and has no peers every committed proposal has been
\* applied when the main loop waits for the next event, after any number of
\* crashes and of log compactions.
THEOREM NothingIsPassedOver ==
    ASSUME Bootstrap, Peers = {}
    PROVE  Spec => []NothingPassedOver
<1>1. Alone
  BY DEF Alone
<1>2. Init => CoverInv
  BY SMTT(60) DEF Init, CoverInv, Covered, Quiet
<1>3. IInv /\ CoverInv /\ [Next]_vars => CoverInv'
  BY <1>1, NextCover
<1>4. IInv /\ CoverInv => NothingPassedOver
  <2> SUFFICES ASSUME IInv, CoverInv, pc = "idle", NEW i \in 1..committed, log[i].kind = "Normal"
               PROVE  i \in smSet
    BY DEF NothingPassedOver
  <2>1. committed <= Len(dLog) /\ Covered(committed)
    BY SMTT(60), CoverNumbers DEF CoverInv, Quiet
  <2>2. log[i] = dLog[i]
    BY <2>1, CoverNumbers DEF IInv, StoreInv
  <2> QED
    BY <2>1, <2>2 DEF Covered
<1> QED
  BY <1>2, <1>3, <1>4, Invariance, PTL DEF Spec

=============================================================================
