------------------------- MODULE MCProposalBatching -------------------------
EXTENDS ProposalBatching
CONSTANTS p1, p2, p3, p4
SmallSizes == [p \in Proposals |-> IF p = p1 THEN 4 ELSE 1]
=============================================================================
