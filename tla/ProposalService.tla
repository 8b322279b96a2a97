--------------------------- MODULE ProposalService ---------------------------
(***************************************************************************)
(* What a node promises to the clients of send_raft_proposal, whatever      *)
(* batches their proposals travel in: proposals take effect one at a time   *)
(* and in the order they were sent, Ok means that the proposal took effect, *)
(* and each client is answered once.  An error does not mean that nothing   *)
(* happened: the proposal, or others that share its fate, may have taken    *)
(* effect before.                                                           *)
(***************************************************************************)
EXTENDS Naturals, Sequences

CONSTANT Asked    \* proposals, one per client

VARIABLES
    asked,     \* proposals in the order they were sent
    effects,   \* proposals in the order they took effect
    result     \* what each client has been told

serviceVars == <<asked, effects, result>>

ServiceInit ==
    /\ asked = <<>> /\ effects = <<>>
    /\ result = [p \in Asked |-> "none"]

Tells(ps, r) == result' = [p \in Asked |-> IF p \in ps THEN r ELSE result[p]]
Waiting == {p \in Asked : result[p] = "waiting"}

\* The line: clients wait for these proposals, and they have had no effect.
HadEffect(p) == \E i \in 1..Len(effects) : effects[i] = p
Pending == {p \in Waiting : ~HadEffect(p)}
Precedes(p, q) == \E i, j \in 1..Len(asked) : i < j /\ asked[i] = p /\ asked[j] = q
IsFirst(p) == p \in Pending /\ \A q \in Pending \ {p} : Precedes(p, q)

Ask(p) ==
    /\ result[p] = "none"
    /\ \/ Tells({p}, "waiting") /\ asked' = Append(asked, p)
       \/ Tells({p}, "error") /\ UNCHANGED asked
    /\ UNCHANGED effects

\* The first in line takes effect.  Clients whose proposals all had their effect
\* may be told so in the same step.
TakeEffect ==
    /\ \E p \in Asked : IsFirst(p) /\ effects' = Append(effects, p)
    /\ \/ UNCHANGED result
       \/ \E ps \in SUBSET Waiting : (\A p \in ps : HadEffect(p)') /\ Tells(ps, "ok")
    /\ UNCHANGED asked

\* Clients are told of a failure, and leave the line: their proposals will not
\* take effect any more.
Fail ==
    /\ \E ps \in SUBSET Waiting, r \in {"error", "dropped"} : ps # {} /\ Tells(ps, r)
    /\ UNCHANGED <<asked, effects>>

ServiceNext == (\E p \in Asked : Ask(p)) \/ TakeEffect \/ Fail

ServiceSpec == ServiceInit /\ [][ServiceNext]_serviceVars
=============================================================================
