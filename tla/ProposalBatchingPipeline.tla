----------------------- MODULE ProposalBatchingPipeline -----------------------
(***************************************************************************)
(* The channels, the accumulating batches and the log of ProposalBatching   *)
(* as the stages of one pipeline: what the sequences of clients in a stage  *)
(* hold and in which order, what moving a proposal, a batch or a whole      *)
(* stage does to that, and that types and limits are kept.                  *)
(***************************************************************************)
EXTENDS ProposalBatching, WellFoundedInduction, TLAPS

\* The least element, for a relation that contains <.
LEMMA LeastByRelation ==
    ASSUME NEW R, IsWellFoundedOn(R, Nat),
           \A x, y \in Nat : y < x => <<y, x>> \in R,
           NEW S, S \subseteq Nat, S # {}
    PROVE  \E x \in S : \A y \in S : x <= y
<1>1. PICK x \in S : \A y \in S : ~(<<y, x>> \in R)
    BY WFMin
<1>2. \A y \in S : ~(y < x)
    BY <1>1
<1>3. \A y \in S : x <= y
    BY <1>2, SMT
<1> QED
    BY <1>3

\* Induction, stated for a set: one that holds 0 and with every number the next
\* holds them all.
LEMMA SetInduction ==
    ASSUME NEW S, 0 \in S, \A n \in Nat : n \in S => n + 1 \in S
    PROVE  Nat \subseteq S
<1> SUFFICES ASSUME Nat \ S # {} PROVE FALSE
    OBVIOUS
<1> DEFINE R == OpToRel(<, Nat)
<1>1. IsWellFoundedOn(R, Nat)
    BY NatLessThanWellFounded
<1>2. \A x, y \in Nat : y < x => <<y, x>> \in R
    BY DEF OpToRel
<1> HIDE DEF R
<1>3. PICK x \in Nat \ S : \A y \in Nat \ S : x <= y
    BY <1>1, <1>2, LeastByRelation, Zenon
<1>4. x # 0 /\ x - 1 \in Nat /\ x - 1 \in S
    BY <1>3
<1> QED
    BY <1>3, <1>4

-----------------------------------------------------------------------------
\* Of any two elements of s the earlier one is B-before the later one.
Chain(s, B) == \A i, j \in 1..Len(s) : i < j => <<s[i], s[j]>> \in B

\* Of any two sequences the elements of the first are B-before the second's.
Joins(s, t, B) == \A x \in Range(s), y \in Range(t) : <<x, y>> \in B

\* The elements of a sequence.
LEMMA Elements ==
    ASSUME NEW X, NEW s \in Seq(X)
    PROVE  /\ \A x : x \in Range(s) <=> \E i \in 1..Len(s) : x = s[i]
           /\ Range(s) \subseteq X
           /\ Range(s) = {} <=> s = <<>>
<1>1. Len(s) \in Nat /\ DOMAIN s = 1..Len(s)
    OBVIOUS
<1>2. \A x : x \in Range(s) <=> \E i \in 1..Len(s) : x = s[i]
    BY <1>1 DEF Range
<1>3. Range(s) \subseteq X
    BY <1>1, <1>2
<1>4. Range(s) = {} <=> s = <<>>
  <2>1. s = <<>> <=> Len(s) = 0
      OBVIOUS
  <2>2. Len(s) = 0 => 1..Len(s) = {}
      BY <1>1
  <2>4. Len(s) # 0 => 1 \in 1..Len(s)
      BY <1>1
  <2>3. Range(s) = {} <=> 1..Len(s) = {}
      BY <1>2, Zenon
  <2> QED
      BY <2>1, <2>2, <2>3, <2>4
<1> QED
    BY <1>2, <1>3, <1>4

\* Two chains, the first before the second, are one.
LEMMA ChainConcat ==
    ASSUME NEW X, NEW B, NEW s \in Seq(X), NEW t \in Seq(X)
    PROVE  /\ s \o t \in Seq(X)
           /\ \A x : x \in Range(s \o t) <=> x \in Range(s) \/ x \in Range(t)
           /\ Chain(s, B) /\ Chain(t, B) /\ Joins(s, t, B) => Chain(s \o t, B)
<1> DEFINE u == s \o t
<1>1. /\ u \in Seq(X) /\ Len(u) = Len(s) + Len(t) /\ Len(s) \in Nat /\ Len(t) \in Nat
      /\ \A i \in 1..Len(s) : u[i] = s[i]
      /\ \A i \in (Len(s) + 1)..Len(u) : u[i] = t[i - Len(s)]
    OBVIOUS
<1> HIDE DEF u
<1>2. \A i \in 1..Len(t) : Len(s) + i \in (Len(s) + 1)..Len(u) /\ (Len(s) + i) - Len(s) = i
    BY <1>1
<1>3. \A i \in 1..Len(t) : u[Len(s) + i] = t[i]
    BY <1>1, <1>2
<1>4. ASSUME NEW x PROVE x \in Range(u) <=> x \in Range(s) \/ x \in Range(t)
  <2>1. ASSUME x \in Range(u) PROVE x \in Range(s) \/ x \in Range(t)
    <3>1. PICK i \in 1..Len(u) : x = u[i]
        BY <1>1, <2>1, Elements
    <3>2. i \in 1..Len(s) \/ (i \in (Len(s) + 1)..Len(u) /\ i - Len(s) \in 1..Len(t))
        BY <1>1
    <3> QED
        BY <1>1, <3>1, <3>2, Elements
  <2>2. ASSUME x \in Range(s) PROVE x \in Range(u)
    <3>1. PICK i \in 1..Len(s) : x = s[i]
        BY <2>2, Elements
    <3>2. i \in 1..Len(u) /\ x = u[i]
        BY <1>1, <3>1
    <3> QED
        BY <1>1, <3>2, Elements
  <2>3. ASSUME x \in Range(t) PROVE x \in Range(u)
    <3>1. PICK i \in 1..Len(t) : x = t[i]
        BY <2>3, Elements
    <3>2. Len(s) + i \in 1..Len(u) /\ x = u[Len(s) + i]
        BY <1>1, <1>3, <3>1
    <3> QED
        BY <1>1, <3>2, Elements
  <2> QED
      BY <2>1, <2>2, <2>3
<1>5. ASSUME Chain(s, B), Chain(t, B), Joins(s, t, B) PROVE Chain(u, B)
  <2> SUFFICES ASSUME NEW i \in 1..Len(u), NEW j \in 1..Len(u), i < j PROVE <<u[i], u[j]>> \in B
      BY DEF Chain
  <2>1. CASE j <= Len(s)
      BY <1>1, <1>5, <2>1, SMTT(30) DEF Chain
  <2>2. CASE i > Len(s)
    <3>1. i - Len(s) \in 1..Len(t) /\ j - Len(s) \in 1..Len(t) /\ i - Len(s) < j - Len(s)
          /\ u[i] = t[i - Len(s)] /\ u[j] = t[j - Len(s)]
        BY <1>1, <2>2
    <3> QED
        BY <1>5, <3>1 DEF Chain
  <2>3. CASE i <= Len(s) /\ j > Len(s)
    <3>1. i \in 1..Len(s) /\ j - Len(s) \in 1..Len(t) /\ u[i] = s[i] /\ u[j] = t[j - Len(s)]
        BY <1>1, <2>3
    <3>2. u[i] \in Range(s) /\ u[j] \in Range(t)
        BY <3>1, Elements
    <3> QED
        BY <1>5, <3>2 DEF Joins
  <2> QED
      BY <1>1, <2>1, <2>2, <2>3
<1> QED
    BY <1>1, <1>4, <1>5 DEF u

\* The sequences that Flatten goes through for the first m elements of s.
Grows(F, s, X, m) ==
    /\ F \in [1..m -> Seq(X)] /\ F[1] = s[1]
    /\ \A i \in 1..m : i # 1 => F[i] = F[i - 1] \o s[i]

Unfolds(f, s, n) == \A i \in 1..n : f[i] = IF i = 1 THEN s[i] ELSE f[i - 1] \o s[i]

\* They exist.
LEMMA GrowsExists ==
    ASSUME NEW X, NEW s \in Seq(Seq(X)), s # <<>>
    PROVE  \E F : Grows(F, s, X, Len(s))
<1> DEFINE n == Len(s)
           S == {m \in Nat : m < n => \E F : Grows(F, s, X, m + 1)}
<1>1. n \in Nat /\ n # 0 /\ \A i \in 1..n : s[i] \in Seq(X)
    OBVIOUS
<1> HIDE DEF n
<1>2. 0 \in S
  <2> DEFINE F == [i \in 1..1 |-> s[1]]
  <2>1. F \in [1..1 -> Seq(X)] /\ F[1] = s[1] /\ 0 + 1 = 1
      BY <1>1
  <2> HIDE DEF F
  <2>2. Grows(F, s, X, 1)
      BY <2>1 DEF Grows
  <2> QED
      BY <2>1, <2>2
<1>3. ASSUME NEW m \in Nat, m \in S, m + 1 < n PROVE \E F : Grows(F, s, X, m + 2)
  <2>1. PICK F : Grows(F, s, X, m + 1)
      BY <1>1, <1>3
  <2> DEFINE e == F[m + 1] \o s[m + 2]
             G == [i \in 1..(m + 2) |-> IF i = m + 2 THEN e ELSE F[i]]
  <2>2. F \in [1..(m + 1) -> Seq(X)] /\ s[m + 2] \in Seq(X) /\ F[m + 1] \in Seq(X)
      BY <1>1, <1>3, <2>1 DEF Grows
  <2>3. e \in Seq(X)
      BY <2>2
  <2> HIDE DEF e
  <2>4. G \in [1..(m + 2) -> Seq(X)] /\ G[m + 2] = e /\ \A i \in 1..(m + 1) : G[i] = F[i]
      BY <2>2, <2>3
  <2> HIDE DEF G
  <2>5. ASSUME NEW i \in 1..(m + 2), i # 1 PROVE G[i] = G[i - 1] \o s[i]
    <3>1. CASE i = m + 2
      <4>1. i - 1 = m + 1 /\ m + 1 \in 1..(m + 1)
          BY <3>1
      <4> QED
          BY <2>4, <3>1, <4>1 DEF e
    <3>2. CASE i \in 1..(m + 1)
      <4>1. i - 1 \in 1..(m + 1)
          BY <2>5, <3>2
      <4> QED
          BY <2>1, <2>4, <2>5, <3>2, <4>1 DEF Grows
    <3>3. i = m + 2 \/ i \in 1..(m + 1)
        OBVIOUS
    <3> QED
        BY <3>1, <3>2, <3>3, Zenon
  <2>6. G[1] = s[1]
      BY <2>1, <2>4 DEF Grows
  <2>7. Grows(G, s, X, m + 2)
      BY <2>4, <2>5, <2>6 DEF Grows
  <2> QED
      BY <2>7
<1>4. ASSUME NEW m \in Nat, m \in S PROVE m + 1 \in S
  <2>1. m + 1 \in Nat /\ (m + 1) + 1 = m + 2
      OBVIOUS
  <2>2. m + 1 < n => \E F : Grows(F, s, X, m + 2)
      BY <1>3, <1>4
  <2> QED
      BY <2>1, <2>2
<1>5. Nat \subseteq S
  <2> HIDE DEF S
  <2> QED
      BY <1>2, <1>4, SetInduction
<1>6. n - 1 \in Nat /\ n - 1 < n /\ (n - 1) + 1 = n
    BY <1>1
<1>7. n - 1 \in S
    BY <1>5, <1>6
<1> QED
    BY <1>6, <1>7 DEF n

\* There is one such row of sequences.
LEMMA GrowsOnce ==
    ASSUME NEW X, NEW s, NEW n \in Nat, NEW F, NEW f, Grows(F, s, X, n), Unfolds(f, s, n),
           NEW k \in 1..n
    PROVE  f[k] = F[k]
<1> DEFINE T == {m \in Nat : m < n => f[m + 1] = F[m + 1]}
<1>1. 0 \in T
    BY DEF Grows, Unfolds
<1>2. ASSUME NEW m \in Nat, m \in T, m + 1 < n PROVE f[m + 2] = F[m + 2]
  <2>1. f[m + 1] = F[m + 1]
      BY <1>2
  <2>2. m + 2 \in 1..n /\ m + 2 # 1 /\ (m + 2) - 1 = m + 1
      BY <1>2
  <2>3. f[m + 2] = f[m + 1] \o s[m + 2]
      BY <2>2 DEF Unfolds
  <2>4. F[m + 2] = F[m + 1] \o s[m + 2]
      BY <2>2, Zenon DEF Grows
  <2> QED
      BY <2>1, <2>3, <2>4
<1>3. ASSUME NEW m \in Nat, m \in T PROVE m + 1 \in T
  <2>1. m + 1 \in Nat /\ (m + 1) + 1 = m + 2
      OBVIOUS
  <2> QED
      BY <1>2, <1>3, <2>1
<1>4. Nat \subseteq T
  <2> HIDE DEF T
  <2> QED
      BY <1>1, <1>3, SetInduction
<1>5. k - 1 \in Nat /\ k - 1 < n /\ (k - 1) + 1 = k
    OBVIOUS
<1>6. k - 1 \in T
    BY <1>4, <1>5
<1> QED
    BY <1>5, <1>6

\* Flatten by its steps.
LEMMA FlattenSteps ==
    ASSUME NEW X, NEW s \in Seq(Seq(X)), s # <<>>, NEW F, Grows(F, s, X, Len(s))
    PROVE  Flatten(s) = F[Len(s)]
<1> DEFINE n == Len(s)
           Is(f) == f = [i \in 1..n |-> IF i = 1 THEN s[i] ELSE f[i - 1] \o s[i]]
           flatten == CHOOSE f : Is(f)
<1>1. n \in Nat /\ n # 0 /\ n \in 1..n
    OBVIOUS
<1>2. Flatten(s) = flatten[n]
    BY <1>1 DEF Flatten
<1>3. Grows(F, s, X, n)
    OBVIOUS
<1> HIDE DEF n, flatten
<1>4. Is(F)
  <2> DEFINE G == [i \in 1..n |-> IF i = 1 THEN s[i] ELSE F[i - 1] \o s[i]]
  <2>1. \A i \in 1..n : F[i] = G[i]
      BY <1>3, Zenon DEF Grows
  <2>2. F = [i \in 1..n |-> F[i]]
      BY <1>3, Zenon DEF Grows
  <2>3. F = G
      BY <2>1, <2>2
  <2> QED
      BY <2>3, Zenon
<1>5. Is(flatten)
  <2> HIDE DEF Is
  <2> QED
      BY <1>4 DEF flatten
<1>6. Unfolds(flatten, s, n)
    BY <1>5, Zenon DEF Unfolds
<1>7. flatten[n] = F[n]
  <2> HIDE DEF Is
  <2> QED
      BY <1>1, <1>3, <1>6, GrowsOnce
<1> QED
    BY <1>2, <1>7 DEF n

\* Flatten keeps what is in the sequences, and chains that follow one another
\* make one chain.
LEMMA FlattenChain ==
    ASSUME NEW X, NEW B, NEW s \in Seq(Seq(X))
    PROVE  /\ Flatten(s) \in Seq(X)
           /\ \A x : x \in Range(Flatten(s)) <=> \E k \in 1..Len(s) : x \in Range(s[k])
           /\ (/\ \A k \in 1..Len(s) : Chain(s[k], B)
               /\ \A j, k \in 1..Len(s) : j < k => Joins(s[j], s[k], B))
              => Chain(Flatten(s), B)
<1>1. CASE s = <<>>
  <2>1. Flatten(s) = <<>> /\ Len(s) = 0 /\ 1..Len(s) = {}
      BY <1>1 DEF Flatten
  <2>2. Range(s) = {} /\ s \in Seq(X)
    <3>1. s \in Seq(X)
        BY <1>1
    <3> QED
        BY <1>1, <3>1, Elements
  <2>3. Chain(s, B)
      BY <2>1 DEF Chain
  <2> QED
      BY <1>1, <2>1, <2>2, <2>3, Zenon
<1>2. CASE s # <<>>
  <2> DEFINE n == Len(s)
  <2>1. n \in Nat /\ n # 0 /\ \A i \in 1..n : s[i] \in Seq(X)
      BY <1>2
  <2>2. PICK F : Grows(F, s, X, n)
      BY <1>2, GrowsExists
  <2>3. Flatten(s) = F[n]
      BY <1>2, <2>2, FlattenSteps
  <2> HIDE DEF n
  <2>4. /\ F \in [1..n -> Seq(X)] /\ F[1] = s[1]
        /\ \A i \in 1..n : i # 1 => F[i] = F[i - 1] \o s[i]
      BY <2>2, Zenon DEF Grows
  <2> DEFINE Has(m) == \A x : x \in Range(F[m]) <=> \E k \in 1..m : x \in Range(s[k])
             S == {m \in Nat : m < n => Has(m + 1)}
  <2>5. 0 \in S
    <3>1. 0 + 1 = 1 /\ 1..1 = {1}
        OBVIOUS
    <3>2. Has(1)
        BY <2>4, <3>1
    <3> HIDE DEF Has
    <3> QED
        BY <3>1, <3>2
  <2>6. ASSUME NEW m \in Nat, m \in S, m + 1 < n PROVE Has(m + 2)
    <3>1. Has(m + 1)
        BY <2>1, <2>6
    <3>2. m + 2 \in 1..n /\ m + 2 # 1 /\ (m + 2) - 1 = m + 1 /\ m + 1 \in 1..n
        BY <2>1, <2>6
    <3>3. F[m + 2] = F[m + 1] \o s[m + 2] /\ F[m + 1] \in Seq(X) /\ s[m + 2] \in Seq(X)
        BY <2>1, <2>4, <3>2, Zenon
    <3>4. \A x : x \in Range(F[m + 2]) <=> x \in Range(F[m + 1]) \/ x \in Range(s[m + 2])
        BY <3>3, ChainConcat
    <3>5. 1..(m + 2) = (1..(m + 1)) \union {m + 2}
        OBVIOUS
    <3> QED
        BY <3>1, <3>4, <3>5, Zenon
  <2>7. ASSUME NEW m \in Nat, m \in S PROVE m + 1 \in S
    <3>1. m + 1 \in Nat /\ (m + 1) + 1 = m + 2
        OBVIOUS
    <3> HIDE DEF Has
    <3> QED
        BY <2>6, <2>7, <3>1
  <2>8. ASSUME NEW m \in 1..n PROVE Has(m)
    <3>1. Nat \subseteq S
      <4> HIDE DEF S
      <4> QED
          BY <2>5, <2>7, SetInduction
    <3>2. m - 1 \in Nat /\ m - 1 < n /\ (m - 1) + 1 = m
        BY <2>1
    <3> HIDE DEF Has
    <3> QED
        BY <3>1, <3>2
  <2>9. ASSUME \A k \in 1..n : Chain(s[k], B), \A j, k \in 1..n : j < k => Joins(s[j], s[k], B)
        PROVE  Chain(F[n], B)
    <3> DEFINE T == {m \in Nat : m < n => Chain(F[m + 1], B)}
    <3>1. 0 \in T
        BY <2>1, <2>4, <2>9
    <3>2. ASSUME NEW m \in Nat, m \in T, m + 1 < n PROVE Chain(F[m + 2], B)
      <4>1. Chain(F[m + 1], B)
          BY <2>1, <3>2
      <4>2. m + 2 \in 1..n /\ m + 2 # 1 /\ (m + 2) - 1 = m + 1 /\ m + 1 \in 1..n
          BY <2>1, <3>2
      <4>3. F[m + 2] = F[m + 1] \o s[m + 2] /\ F[m + 1] \in Seq(X) /\ s[m + 2] \in Seq(X)
          BY <2>1, <2>4, <4>2
      <4>4. Joins(F[m + 1], s[m + 2], B)
        <5> SUFFICES ASSUME NEW x \in Range(F[m + 1]), NEW y \in Range(s[m + 2])
                     PROVE  <<x, y>> \in B
            BY DEF Joins
        <5>1. PICK k \in 1..(m + 1) : x \in Range(s[k])
            BY <2>8, <4>2
        <5>2. k \in 1..n /\ k < m + 2
            BY <2>1, <4>2
        <5>3. Joins(s[k], s[m + 2], B)
            BY <2>9, <4>2, <5>2
        <5> QED
            BY <5>1, <5>3 DEF Joins
      <4>5. Chain(s[m + 2], B)
          BY <2>9, <4>2
      <4> QED
          BY <4>1, <4>3, <4>4, <4>5, ChainConcat
    <3>3. ASSUME NEW m \in Nat, m \in T PROVE m + 1 \in T
      <4>1. m + 1 \in Nat /\ (m + 1) + 1 = m + 2
          OBVIOUS
      <4> QED
          BY <3>2, <3>3, <4>1
    <3>4. Nat \subseteq T
      <4> HIDE DEF T
      <4> QED
          BY <3>1, <3>3, SetInduction
    <3>5. n - 1 \in Nat /\ n - 1 < n /\ (n - 1) + 1 = n
        BY <2>1
    <3>6. n - 1 \in T
        BY <3>4, <3>5
    <3> QED
        BY <3>5, <3>6
  <2>10. n \in 1..n /\ F[n] \in Seq(X)
      BY <2>1, <2>4
  <2>11. Has(n)
      BY <2>8, <2>10
  <2> QED
      BY <2>3, <2>9, <2>10, <2>11, Zenon DEF n
<1> QED
    BY <1>1, <1>2

\* A proposal of the RaftManager: none of its parts is empty, and its clients
\* stand in the order B.
Sound(item, B) ==
    /\ item \in Seq(Seq(Proposals)) /\ item # <<>>
    /\ \A k \in 1..Len(item) : item[k] # <<>> /\ Chain(item[k], B)
    /\ \A j, k \in 1..Len(item) : j < k => Joins(item[j], item[k], B)

\* The clients of a queue of proposals.
Held(s) == {p \in Proposals : \E i \in 1..Len(s) : p \in Clients(s[i])}

\* A queue of such proposals, in the order B.
Lined(s, B) ==
    /\ s \in Items
    /\ \A i \in 1..Len(s) : Sound(s[i], B)
    /\ \A i, j \in 1..Len(s) : i < j => \A p \in Clients(s[i]), q \in Clients(s[j]) : <<p, q>> \in B

\* The clients of a proposal.
LEMMA ItemClients ==
    ASSUME NEW item \in Seq(Seq(Proposals))
    PROVE  /\ Flatten(item) \in Seq(Proposals) /\ Clients(item) \subseteq Proposals
           /\ \A p : p \in Clients(item) <=> \E k \in 1..Len(item) : p \in Range(item[k])
<1>1. Flatten(item) \in Seq(Proposals)
    BY FlattenChain
<1>2. Range(Flatten(item)) \subseteq Proposals
    BY <1>1, Elements
<1>3. \A p : p \in Range(Flatten(item)) <=> \E k \in 1..Len(item) : p \in Range(item[k])
    BY FlattenChain
<1> QED
    BY <1>1, <1>2, <1>3 DEF Clients

\* A sound proposal has clients, and flattened it is a sound part.
LEMMA SoundItem ==
    ASSUME NEW B, NEW item, Sound(item, B)
    PROVE  /\ Flatten(item) \in Seq(Proposals) /\ Flatten(item) # <<>>
           /\ Chain(Flatten(item), B)
           /\ Clients(item) # {} /\ Clients(item) \subseteq Proposals
<1>1. item \in Seq(Seq(Proposals)) /\ Len(item) \in Nat /\ Len(item) # 0 /\ 1 \in 1..Len(item)
      /\ item[1] \in Seq(Proposals) /\ item[1] # <<>>
    BY DEF Sound
<1>2. Flatten(item) \in Seq(Proposals) /\ Clients(item) \subseteq Proposals
    BY <1>1, ItemClients
<1>3. Chain(Flatten(item), B)
    BY <1>1, FlattenChain DEF Sound
<1>4. item[1][1] \in Range(item[1])
  <2>1. 1 \in 1..Len(item[1])
      BY <1>1
  <2> QED
      BY <1>1, <2>1, Elements
<1>5. Clients(item) # {}
    BY <1>1, <1>4, ItemClients, Zenon
<1>6. Flatten(item) # <<>>
    BY <1>2, <1>5, Elements DEF Clients
<1> QED
    BY <1>2, <1>3, <1>5, <1>6

\* A client's own proposal.
LEMMA PlainSound ==
    ASSUME NEW B, NEW p \in Proposals
    PROVE  Sound(Plain(p), B) /\ Clients(Plain(p)) = {p}
<1>1. /\ Plain(p) \in Seq(Seq(Proposals)) /\ Plain(p) # <<>> /\ Len(Plain(p)) = 1
      /\ Plain(p)[1] = <<p>> /\ <<p>> \in Seq(Proposals) /\ Len(<<p>>) = 1 /\ <<p>>[1] = p /\ <<p>> # <<>>
    BY DEF Plain
<1>2. Range(<<p>>) = {p}
    BY <1>1, Elements
<1>3. Chain(<<p>>, B)
    BY <1>1 DEF Chain
<1>4. Sound(Plain(p), B)
    BY <1>1, <1>3 DEF Sound
<1>5. \A q : q \in Clients(Plain(p)) <=> q \in Range(<<p>>)
  <2>1. \A q : q \in Clients(Plain(p)) <=> \E k \in 1..1 : q \in Range(Plain(p)[k])
      BY <1>1, ItemClients
  <2>2. 1..1 = {1}
      OBVIOUS
  <2> QED
      BY <1>1, <2>1, <2>2
<1> QED
    BY <1>2, <1>4, <1>5

\* The clients of a queue, as Flush and Stop compute them.
LEMMA HeldIs ==
    ASSUME NEW s \in Items
    PROVE  Clients(Flatten(s)) = Held(s)
<1>1. s \in Seq(Seq(Seq(Proposals))) /\ \A i \in 1..Len(s) : s[i] \in Seq(Seq(Proposals))
    BY DEF Items
<1>2. Flatten(s) \in Seq(Seq(Proposals))
      /\ \A x : x \in Range(Flatten(s)) <=> \E i \in 1..Len(s) : x \in Range(s[i])
    BY <1>1, FlattenChain
<1>3. Clients(Flatten(s)) \subseteq Proposals
    BY <1>2, ItemClients
<1>4. ASSUME NEW p \in Clients(Flatten(s)) PROVE p \in Held(s)
  <2>1. PICK k \in 1..Len(Flatten(s)) : p \in Range(Flatten(s)[k])
      BY <1>2, ItemClients
  <2>2. Flatten(s)[k] \in Range(Flatten(s))
      BY <1>2, Elements
  <2>3. PICK i \in 1..Len(s) : Flatten(s)[k] \in Range(s[i])
      BY <1>2, <2>2
  <2>4. PICK j \in 1..Len(s[i]) : Flatten(s)[k] = s[i][j]
      BY <1>1, <2>3, Elements
  <2>5. p \in Clients(s[i])
      BY <1>1, <2>1, <2>4, ItemClients
  <2> QED
      BY <1>3, <2>5 DEF Held
<1>5. ASSUME NEW p \in Held(s) PROVE p \in Clients(Flatten(s))
  <2>1. PICK i \in 1..Len(s) : p \in Clients(s[i])
      BY DEF Held
  <2>2. PICK j \in 1..Len(s[i]) : p \in Range(s[i][j])
      BY <1>1, <2>1, ItemClients
  <2>3. s[i][j] \in Range(s[i])
      BY <1>1, Elements
  <2>4. s[i][j] \in Range(Flatten(s))
      BY <1>2, <2>3
  <2>5. PICK k \in 1..Len(Flatten(s)) : s[i][j] = Flatten(s)[k]
      BY <1>2, <2>4, Elements
  <2> QED
      BY <1>2, <2>2, <2>5, ItemClients
<1> QED
    BY <1>4, <1>5

\* create_batched_proposal keeps the clients and their order.
LEMMA BatchedSound ==
    ASSUME NEW B, NEW s, Lined(s, B), s # <<>>
    PROVE  Sound(Batched(s), B) /\ Clients(Batched(s)) = Held(s)
<1>1. s \in Seq(Seq(Seq(Proposals))) /\ Len(s) \in Nat /\ Len(s) # 0
      /\ \A i \in 1..Len(s) : s[i] \in Seq(Seq(Proposals)) /\ Sound(s[i], B)
    BY DEF Lined, Items
<1>2. CASE Len(s) = 1
  <2>1. Batched(s) = s[1] /\ 1 \in 1..Len(s) /\ 1..Len(s) = {1}
      BY <1>1, <1>2 DEF Batched
  <2>2. Clients(s[1]) \subseteq Proposals
      BY <1>1, <2>1, ItemClients
  <2> QED
      BY <1>1, <2>1, <2>2 DEF Held
<1>3. CASE Len(s) # 1
  <2> DEFINE b == [i \in 1..Len(s) |-> Flatten(s[i])]
  <2>1. Batched(s) = b
      BY <1>3 DEF Batched
  <2>2. \A i \in 1..Len(s) : /\ Flatten(s[i]) \in Seq(Proposals) /\ Flatten(s[i]) # <<>>
                             /\ Chain(Flatten(s[i]), B)
      BY <1>1, SoundItem
  <2>3. b \in Seq(Seq(Proposals)) /\ Len(b) = Len(s) /\ \A i \in 1..Len(s) : b[i] = Flatten(s[i])
      BY <1>1, <2>2
  <2> HIDE DEF b
  <2>4. b # <<>>
      BY <1>1, <2>3
  <2>5. ASSUME NEW i \in 1..Len(s), NEW j \in 1..Len(s), i < j PROVE Joins(b[i], b[j], B)
      BY <2>3, <2>5 DEF Lined, Joins, Clients
  <2>6. Sound(b, B)
      BY <2>2, <2>3, <2>4, <2>5 DEF Sound
  <2>7. \A p : p \in Clients(b) <=> \E i \in 1..Len(s) : p \in Clients(s[i])
      BY <2>3, ItemClients DEF Clients
  <2>8. Clients(b) \subseteq Proposals
      BY <2>3, ItemClients
  <2> QED
      BY <2>1, <2>6, <2>7, <2>8 DEF Held
<1> QED
    BY <1>2, <1>3

\* The n queues of a pipeline, the last one in front.
Flow(S, n, B) ==
    /\ \A k \in 1..n : Lined(S[k], B)
    /\ \A j, k \in 1..n : j < k => \A p \in Held(S[k]), q \in Held(S[j]) : <<p, q>> \in B
Everyone(S, n) == {p \in Proposals : \E k \in 1..n : p \in Held(S[k])}

Irreflexive(B) == \A p : <<p, p>> \notin B

\* Taking the first proposal from a queue.
LEMMA LinedTail ==
    ASSUME NEW B, NEW s, Lined(s, B), s # <<>>
    PROVE  /\ Lined(Tail(s), B) /\ Sound(Head(s), B) /\ Clients(Head(s)) \subseteq Proposals
           /\ Held(s) = Held(Tail(s)) \union Clients(Head(s))
           /\ \A p \in Clients(Head(s)), q \in Held(Tail(s)) : <<p, q>> \in B
<1>1. s \in Seq(Seq(Seq(Proposals))) /\ Len(s) \in Nat /\ Len(s) # 0
    BY DEF Lined, Items
<1>2. /\ Tail(s) \in Seq(Seq(Seq(Proposals))) /\ Len(Tail(s)) = Len(s) - 1 /\ Head(s) = s[1]
      /\ \A i \in 1..(Len(s) - 1) : Tail(s)[i] = s[i + 1]
    BY <1>1
<1>3. 1 \in 1..Len(s) /\ \A i \in 1..(Len(s) - 1) : i + 1 \in 1..Len(s) /\ 1 < i + 1
    BY <1>1
<1>4. Sound(Head(s), B) /\ Clients(Head(s)) \subseteq Proposals
    BY <1>2, <1>3, SoundItem DEF Lined
<1>5. Lined(Tail(s), B)
  <2>1. \A i \in 1..Len(Tail(s)) : Sound(Tail(s)[i], B)
      BY <1>2, <1>3 DEF Lined
  <2>2. ASSUME NEW i \in 1..Len(Tail(s)), NEW j \in 1..Len(Tail(s)), i < j
        PROVE  \A p \in Clients(Tail(s)[i]), q \in Clients(Tail(s)[j]) : <<p, q>> \in B
    <3>1. i + 1 \in 1..Len(s) /\ j + 1 \in 1..Len(s) /\ i + 1 < j + 1
        BY <1>1, <1>2, <2>2
    <3>2. Tail(s)[i] = s[i + 1] /\ Tail(s)[j] = s[j + 1]
        BY <1>2
    <3> QED
        BY <3>1, <3>2 DEF Lined
  <2> QED
      BY <1>2, <2>1, <2>2 DEF Lined, Items
<1>6. ASSUME NEW p \in Held(s) PROVE p \in Held(Tail(s)) \union Clients(Head(s))
  <2>1. PICK i \in 1..Len(s) : p \in Clients(s[i])
      BY DEF Held
  <2>2. CASE i = 1
      BY <1>2, <2>1, <2>2
  <2>3. CASE i # 1
    <3>1. i - 1 \in 1..(Len(s) - 1) /\ (i - 1) + 1 = i
        BY <1>1, <2>3
    <3>2. i - 1 \in 1..Len(Tail(s)) /\ p \in Clients(Tail(s)[i - 1])
        BY <1>2, <2>1, <3>1
    <3> QED
        BY <3>2 DEF Held
  <2> QED
      BY <2>2, <2>3
<1>7. ASSUME NEW q \in Held(Tail(s))
      PROVE  q \in Held(s) /\ \A p \in Clients(Head(s)) : <<p, q>> \in B
  <2>1. PICK i \in 1..Len(Tail(s)) : q \in Clients(Tail(s)[i])
      BY DEF Held
  <2>2. i + 1 \in 1..Len(s) /\ 1 < i + 1 /\ q \in Clients(s[i + 1])
      BY <1>2, <1>3, <2>1
  <2> QED
      BY <1>2, <1>3, <2>2 DEF Held, Lined
<1>8. Clients(Head(s)) \subseteq Held(s)
    BY <1>2, <1>3, <1>4 DEF Held
<1> QED
    BY <1>4, <1>5, <1>6, <1>7, <1>8

\* Putting a proposal behind a queue.
LEMMA LinedAppend ==
    ASSUME NEW B, NEW s, Lined(s, B), NEW x, Sound(x, B),
           \A p \in Held(s), q \in Clients(x) : <<p, q>> \in B
    PROVE  /\ Lined(Append(s, x), B) /\ Held(Append(s, x)) = Held(s) \union Clients(x)
           /\ Append(s, x) # <<>>
<1> DEFINE t == Append(s, x)
<1>1. s \in Seq(Seq(Seq(Proposals))) /\ x \in Seq(Seq(Proposals)) /\ Len(s) \in Nat
    BY DEF Lined, Sound, Items
<1>2. /\ t \in Seq(Seq(Seq(Proposals))) /\ Len(t) = Len(s) + 1 /\ t[Len(s) + 1] = x
      /\ t # <<>> /\ \A i \in 1..Len(s) : t[i] = s[i]
  <2>1. /\ t \in Seq(Seq(Seq(Proposals))) /\ Len(t) = Len(s) + 1 /\ t[Len(s) + 1] = x
        /\ \A i \in 1..Len(s) : t[i] = s[i]
      BY <1>1
  <2> HIDE DEF t
  <2>2. t # <<>>
      BY <1>1, <2>1
  <2> QED
      BY <2>1, <2>2
<1> HIDE DEF t
<1>3. Clients(x) \subseteq Proposals
    BY SoundItem
<1>4. 1..Len(t) = (1..Len(s)) \union {Len(s) + 1}
    BY <1>1, <1>2
<1>5. \A i \in 1..Len(t) : Sound(t[i], B)
    BY <1>2, <1>4, Zenon DEF Lined
<1>6. ASSUME NEW i \in 1..Len(t), NEW j \in 1..Len(t), i < j,
             NEW p \in Clients(t[i]), NEW q \in Clients(t[j])
      PROVE  <<p, q>> \in B
  <2>1. i \in 1..Len(s) /\ t[i] = s[i]
      BY <1>1, <1>2, <1>6
  <2>2. CASE j \in 1..Len(s)
      BY <1>2, <1>6, <2>1, <2>2 DEF Lined
  <2>3. CASE j = Len(s) + 1
    <3>1. p \in Proposals
        BY <1>6, <2>1, SoundItem DEF Lined
    <3>2. p \in Held(s) /\ q \in Clients(x)
        BY <1>2, <1>6, <2>1, <2>3, <3>1 DEF Held
    <3> QED
        BY <3>2
  <2> QED
      BY <1>4, <2>2, <2>3
<1>7. Lined(t, B)
    BY <1>2, <1>5, <1>6 DEF Lined, Items
<1>8. Held(t) = Held(s) \union Clients(x)
    BY <1>2, <1>3, <1>4, Zenon DEF Held
<1> QED
    BY <1>2, <1>7, <1>8 DEF t

\* An empty queue.
LEMMA LinedEmpty ==
    ASSUME NEW B
    PROVE  Lined(<<>>, B) /\ Held(<<>>) = {}
<1>1. <<>> \in Items /\ Len(<<>>) = 0 /\ 1..0 = {}
    BY DEF Items
<1> QED
    BY <1>1 DEF Lined, Held

\* A nonempty queue has clients.
LEMMA HeldSome ==
    ASSUME NEW B, NEW s, Lined(s, B), s # <<>>
    PROVE  Held(s) # {}
<1>1. Sound(Head(s), B) /\ Held(s) = Held(Tail(s)) \union Clients(Head(s))
    BY LinedTail
<1> QED
    BY <1>1, SoundItem

\* Two neighbours of a pipeline are changed so that the clients of the one behind
\* are some of those that were there, and the clients of the one in front are old
\* ones or come from behind.
LEMMA FlowStep ==
    ASSUME NEW B, NEW n \in Nat, NEW S, NEW T, Flow(S, n, B), NEW k \in 1..n, k + 1 \in 1..n,
           \A j \in 1..n : j # k /\ j # k + 1 => T[j] = S[j],
           Lined(T[k], B), Lined(T[k + 1], B),
           Held(T[k]) \subseteq Held(S[k]), Held(T[k + 1]) \subseteq Held(S[k + 1]) \union Held(S[k]),
           \A p \in Held(T[k + 1]), q \in Held(T[k]) : <<p, q>> \in B
    PROVE  Flow(T, n, B)
<1>1. ASSUME NEW j \in 1..n PROVE Lined(T[j], B)
    BY DEF Flow
<1>2. ASSUME NEW i \in 1..n, NEW j \in 1..n, i < j, NEW p \in Held(T[j]), NEW q \in Held(T[i])
      PROVE  <<p, q>> \in B
  <2>1. CASE i = k /\ j = k + 1
      BY <1>2, <2>1
  <2>2. CASE i = k /\ j > k + 1
    <3>1. p \in Held(S[j]) /\ q \in Held(S[k])
        BY <1>2, <2>2
    <3> QED
        BY <1>2, <2>2, <3>1 DEF Flow
  <2>3. CASE i = k + 1
    <3>1. p \in Held(S[j]) /\ (q \in Held(S[k + 1]) \/ q \in Held(S[k])) /\ k < j /\ k + 1 < j
        BY <1>2, <2>3
    <3> QED
        BY <3>1 DEF Flow
  <2>4. CASE i < k /\ j \notin {k, k + 1}
      BY <1>2, <2>4 DEF Flow
  <2>5. CASE i < k /\ j \in {k, k + 1}
    <3>1. q \in Held(S[i]) /\ (p \in Held(S[k]) \/ p \in Held(S[k + 1])) /\ i < k + 1
        BY <1>2, <2>5
    <3> QED
        BY <2>5, <3>1 DEF Flow
  <2>6. CASE i > k + 1
      BY <1>2, <2>6 DEF Flow
  <2> QED
      BY <1>2, <2>1, <2>2, <2>3, <2>4, <2>5, <2>6
<1> QED
    BY <1>1, <1>2 DEF Flow

\* What the steps of the program do to a pipeline, in queue k.
FirstMoves(S, T, n, k) ==
    /\ k \in 1..n /\ k + 1 \in 1..n /\ S[k] # <<>>
    /\ T[k] = Tail(S[k]) /\ T[k + 1] = Append(S[k + 1], Head(S[k]))
    /\ \A j \in 1..n : j # k /\ j # k + 1 => T[j] = S[j]
AllMove(S, T, n, k) ==
    /\ k \in 1..n /\ k + 1 \in 1..n /\ S[k] # <<>>
    /\ T[k] = <<>> /\ T[k + 1] = Append(S[k + 1], Batched(S[k]))
    /\ \A j \in 1..n : j # k /\ j # k + 1 => T[j] = S[j]
FirstDrops(S, T, n, k) ==
    k \in 1..n /\ S[k] # <<>> /\ T[k] = Tail(S[k]) /\ \A j \in 1..n : j # k => T[j] = S[j]
AllDrop(S, T, n, k) ==
    k \in 1..n /\ T[k] = <<>> /\ \A j \in 1..n : j # k => T[j] = S[j]

\* The first proposal of a queue moves to the end of the one in front: recv and
\* add_to_batch, or handle_proposal.
LEMMA MoveHead ==
    ASSUME NEW B, NEW n \in Nat, NEW S, NEW T, NEW k, Flow(S, n, B), FirstMoves(S, T, n, k)
    PROVE  Flow(T, n, B) /\ Everyone(T, n) = Everyone(S, n)
<1>a. /\ k \in 1..n /\ k + 1 \in 1..n /\ S[k] # <<>>
      /\ T[k] = Tail(S[k]) /\ T[k + 1] = Append(S[k + 1], Head(S[k]))
      /\ \A j \in 1..n : j # k /\ j # k + 1 => T[j] = S[j]
    BY DEF FirstMoves
<1> USE <1>a
<1> DEFINE x == Head(S[k])
<1>0. k < k + 1 /\ Lined(S[k], B) /\ Lined(S[k + 1], B)
    BY DEF Flow
<1>1. /\ Lined(T[k], B) /\ Sound(x, B) /\ Held(S[k]) = Held(T[k]) \union Clients(x)
      /\ \A p \in Clients(x), q \in Held(T[k]) : <<p, q>> \in B
    BY <1>0, LinedTail
<1>2. \A p \in Held(S[k + 1]), q \in Held(S[k]) : <<p, q>> \in B
    BY <1>0 DEF Flow
<1>3. \A p \in Held(S[k + 1]), q \in Clients(x) : <<p, q>> \in B
    BY <1>1, <1>2
<1>4. Lined(T[k + 1], B) /\ Held(T[k + 1]) = Held(S[k + 1]) \union Clients(x)
    BY <1>0, <1>1, <1>3, LinedAppend
<1> HIDE DEF x
<1>5. \A p \in Held(T[k + 1]), q \in Held(T[k]) : <<p, q>> \in B
    BY <1>1, <1>2, <1>4
<1>6. Flow(T, n, B)
    BY <1>1, <1>4, <1>5, FlowStep
<1>7. Everyone(T, n) = Everyone(S, n)
    BY <1>1, <1>4 DEF Everyone
<1> QED
    BY <1>6, <1>7

\* A queue is emptied into one proposal at the end of the one in front:
\* flush_specific_batch.
LEMMA MoveAll ==
    ASSUME NEW B, NEW n \in Nat, NEW S, NEW T, NEW k, Flow(S, n, B), AllMove(S, T, n, k)
    PROVE  Flow(T, n, B) /\ Everyone(T, n) = Everyone(S, n)
<1>a. /\ k \in 1..n /\ k + 1 \in 1..n /\ S[k] # <<>>
      /\ T[k] = <<>> /\ T[k + 1] = Append(S[k + 1], Batched(S[k]))
      /\ \A j \in 1..n : j # k /\ j # k + 1 => T[j] = S[j]
    BY DEF AllMove
<1> USE <1>a
<1> DEFINE x == Batched(S[k])
<1>0. k < k + 1 /\ Lined(S[k], B) /\ Lined(S[k + 1], B)
    BY DEF Flow
<1>1. Sound(x, B) /\ Held(S[k]) = Clients(x)
    BY <1>0, BatchedSound
<1>2. Lined(T[k], B) /\ Held(T[k]) = {}
    BY LinedEmpty
<1>3. \A p \in Held(S[k + 1]), q \in Clients(x) : <<p, q>> \in B
    BY <1>0, <1>1 DEF Flow
<1>4. Lined(T[k + 1], B) /\ Held(T[k + 1]) = Held(S[k + 1]) \union Clients(x)
    BY <1>0, <1>1, <1>3, LinedAppend
<1> HIDE DEF x
<1>5. Flow(T, n, B)
    BY <1>1, <1>2, <1>4, FlowStep
<1>6. Everyone(T, n) = Everyone(S, n)
    BY <1>1, <1>2, <1>4 DEF Everyone
<1> QED
    BY <1>5, <1>6

\* Clients leave the pipeline.
LEMMA FlowDrop ==
    ASSUME NEW B, NEW n \in Nat, NEW S, NEW T, Flow(S, n, B), Irreflexive(B), NEW k \in 1..n,
           NEW D, Lined(T[k], B), Held(S[k]) = Held(T[k]) \union D, Held(T[k]) \cap D = {},
           \A j \in 1..n : j # k => T[j] = S[j]
    PROVE  Flow(T, n, B) /\ Everyone(T, n) = Everyone(S, n) \ D
<1>1. ASSUME NEW j \in 1..n PROVE Lined(T[j], B) /\ Held(T[j]) \subseteq Held(S[j])
    BY DEF Flow
<1>2. Flow(T, n, B)
    BY <1>1 DEF Flow
<1>3. ASSUME NEW j \in 1..n, j # k PROVE Held(S[j]) \cap D = {}
  <2>1. ASSUME NEW p \in Held(S[j]), p \in D PROVE FALSE
    <3>1. p \in Held(S[k]) /\ (j < k \/ k < j)
        BY <1>3, <2>1
    <3>2. <<p, p>> \in B
        BY <2>1, <3>1 DEF Flow
    <3> QED
        BY <3>2 DEF Irreflexive
  <2> QED
      BY <2>1
<1>4. ASSUME NEW p \in Everyone(T, n) PROVE p \in Everyone(S, n) /\ p \notin D
  <2>1. PICK j \in 1..n : p \in Held(T[j])
      BY DEF Everyone
  <2> QED
      BY <1>1, <1>3, <2>1 DEF Everyone
<1>5. ASSUME NEW p \in Everyone(S, n), p \notin D PROVE p \in Everyone(T, n)
  <2>1. PICK j \in 1..n : p \in Held(S[j])
      BY DEF Everyone
  <2>2. p \in Held(T[j])
      BY <1>5, <2>1
  <2> QED
      BY <2>2 DEF Everyone
<1> QED
    BY <1>2, <1>4, <1>5

\* The queue is dropped.
LEMMA DropAll ==
    ASSUME NEW B, NEW n \in Nat, NEW S, NEW T, NEW k, Flow(S, n, B), Irreflexive(B), AllDrop(S, T, n, k)
    PROVE  Flow(T, n, B) /\ Everyone(T, n) = Everyone(S, n) \ Held(S[k])
<1>a. k \in 1..n /\ T[k] = <<>> /\ \A j \in 1..n : j # k => T[j] = S[j]
    BY DEF AllDrop
<1> USE <1>a
<1>1. Lined(T[k], B) /\ Held(T[k]) = {}
    BY LinedEmpty
<1> QED
    BY <1>1, FlowDrop

\* The first proposal of the queue is dropped.
LEMMA DropHead ==
    ASSUME NEW B, NEW n \in Nat, NEW S, NEW T, NEW k, Flow(S, n, B), Irreflexive(B), FirstDrops(S, T, n, k)
    PROVE  Flow(T, n, B) /\ Everyone(T, n) = Everyone(S, n) \ Clients(Head(S[k]))
<1>a. k \in 1..n /\ S[k] # <<>> /\ T[k] = Tail(S[k]) /\ \A j \in 1..n : j # k => T[j] = S[j]
    BY DEF FirstDrops
<1> USE <1>a
<1> DEFINE D == Clients(Head(S[k]))
<1>1. Lined(S[k], B)
    BY DEF Flow
<1>2. /\ Lined(T[k], B) /\ Held(S[k]) = Held(T[k]) \union D
      /\ \A p \in D, q \in Held(T[k]) : <<p, q>> \in B
    BY <1>1, LinedTail
<1>3. Held(T[k]) \cap D = {}
    BY <1>2 DEF Irreflexive
<1> QED
    BY <1>2, <1>3, FlowDrop

-----------------------------------------------------------------------------
\* Types and limits.

\* The running totals of estimate_proposal_size.
Sums(F, ps, m) ==
    /\ F \in [0..m -> Nat] /\ F[0] = Overhead
    /\ \A i \in 1..m : F[i] = F[i - 1] + Size[ps[i]]

\* They exist.
LEMMA SumsExist ==
    ASSUME NEW ps \in Seq(Proposals)
    PROVE  \E F : Sums(F, ps, Len(ps))
<1> DEFINE n == Len(ps)
           S == {m \in Nat : m <= n => \E F : Sums(F, ps, m)}
<1>1. n \in Nat /\ \A i \in 1..n : Size[ps[i]] \in Nat
    BY BatchAssumption
<1> HIDE DEF n
<1>2. 0 \in S
  <2> DEFINE F == [i \in 0..0 |-> Overhead]
  <2>1. F \in [0..0 -> Nat] /\ F[0] = Overhead
      BY BatchAssumption
  <2> HIDE DEF F
  <2>2. Sums(F, ps, 0)
      BY <2>1 DEF Sums
  <2> QED
      BY <2>2
<1>3. ASSUME NEW m \in Nat, m \in S, m + 1 <= n PROVE \E F : Sums(F, ps, m + 1)
  <2>1. PICK F : Sums(F, ps, m)
      BY <1>1, <1>3
  <2> DEFINE e == F[m] + Size[ps[m + 1]]
             G == [i \in 0..(m + 1) |-> IF i = m + 1 THEN e ELSE F[i]]
  <2>2. F \in [0..m -> Nat] /\ F[0] = Overhead
      BY <2>1 DEF Sums
  <2>3. e \in Nat
    <3>1. Size[ps[m + 1]] \in Nat
        BY <1>1, <1>3
    <3> QED
        BY <2>2, <3>1
  <2> HIDE DEF e
  <2>4. G \in [0..(m + 1) -> Nat] /\ G[m + 1] = e /\ \A i \in 0..m : G[i] = F[i]
      BY <2>2, <2>3
  <2> HIDE DEF G
  <2>5. ASSUME NEW i \in 1..(m + 1) PROVE G[i] = G[i - 1] + Size[ps[i]]
    <3>1. CASE i = m + 1
        BY <2>4, <3>1 DEF e
    <3>2. CASE i \in 1..m
        BY <2>1, <2>4, <3>2 DEF Sums
    <3>3. i = m + 1 \/ i \in 1..m
        OBVIOUS
    <3> QED
        BY <3>1, <3>2, <3>3, Zenon
  <2>6. Sums(G, ps, m + 1)
      BY <2>2, <2>4, <2>5 DEF Sums
  <2> QED
      BY <2>6
<1>4. ASSUME NEW m \in Nat, m \in S PROVE m + 1 \in S
    BY <1>3, <1>4
<1>5. Nat \subseteq S
  <2> HIDE DEF S
  <2> QED
      BY <1>2, <1>4, SetInduction
<1>6. n \in S
    BY <1>1, <1>5
<1> QED
    BY <1>1, <1>6 DEF n

\* An estimate is a number.
LEMMA EstimateIsNat ==
    ASSUME NEW item \in Seq(Seq(Proposals))
    PROVE  Estimate(item) \in Nat
<1> DEFINE ps == Flatten(item)
           n == Len(ps)
           Is(f) == f = [i \in 0..n |-> IF i = 0 THEN Overhead ELSE f[i - 1] + Size[ps[i]]]
           bytes == CHOOSE f : Is(f)
<1>1. Estimate(item) = bytes[n]
    BY DEF Estimate
<1>2. ps \in Seq(Proposals) /\ n \in Nat
    BY ItemClients
<1>3. PICK F : Sums(F, ps, n)
    BY <1>2, SumsExist
<1>4. \A i \in 1..n : Size[ps[i]] \in Nat
    BY <1>2, BatchAssumption
<1> HIDE DEF ps, n, bytes
<1>5. Is(F)
  <2> DEFINE G == [i \in 0..n |-> IF i = 0 THEN Overhead ELSE F[i - 1] + Size[ps[i]]]
  <2>1. \A i \in 0..n : F[i] = G[i]
      BY <1>2, <1>3 DEF Sums
  <2>2. F = [i \in 0..n |-> F[i]]
      BY <1>3 DEF Sums
  <2>3. F = G
      BY <2>1, <2>2
  <2> QED
      BY <2>3
<1>6. Is(bytes)
  <2> HIDE DEF Is
  <2> QED
      BY <1>5 DEF bytes
<1>7. \A i \in 0..n : bytes[i] = IF i = 0 THEN Overhead ELSE bytes[i - 1] + Size[ps[i]]
    BY <1>6, Zenon
<1> HIDE DEF Is
<1> DEFINE T == {m \in Nat : m <= n => bytes[m] \in Nat}
<1>8. 0 \in T
    BY <1>2, <1>7, BatchAssumption
<1>9. ASSUME NEW m \in Nat, m \in T, m + 1 <= n PROVE bytes[m + 1] \in Nat
  <2>1. m + 1 \in 0..n /\ m + 1 # 0 /\ (m + 1) - 1 = m /\ m + 1 \in 1..n /\ m <= n
      BY <1>2, <1>9
  <2>2. bytes[m + 1] = bytes[m] + Size[ps[m + 1]]
      BY <1>7, <2>1
  <2>3. bytes[m] \in Nat /\ Size[ps[m + 1]] \in Nat
      BY <1>4, <1>9, <2>1
  <2> QED
      BY <2>2, <2>3
<1>10. ASSUME NEW m \in Nat, m \in T PROVE m + 1 \in T
    BY <1>9, <1>10
<1>11. Nat \subseteq T
  <2> HIDE DEF T
  <2> QED
      BY <1>8, <1>10, SetInduction
<1>12. n \in T
    BY <1>2, <1>11
<1> QED
    BY <1>1, <1>2, <1>12

\* A batch is a proposal.
LEMMA BatchedType ==
    ASSUME NEW s \in Items, s # <<>>
    PROVE  Batched(s) \in Seq(Seq(Proposals))
<1>1. s \in Seq(Seq(Seq(Proposals))) /\ Len(s) \in Nat /\ Len(s) # 0
      /\ \A i \in 1..Len(s) : s[i] \in Seq(Seq(Proposals))
    BY DEF Items
<1>2. \A i \in 1..Len(s) : Flatten(s[i]) \in Seq(Proposals)
    BY <1>1, ItemClients
<1>3. [i \in 1..Len(s) |-> Flatten(s[i])] \in Seq(Seq(Proposals))
    BY <1>1, <1>2
<1> QED
    BY <1>1, <1>3 DEF Batched

\* Types and limits are preserved together: a total is a number because the
\* proposals are well-formed.
Bounded == TypeOK /\ BatchWithinLimits

\* They hold at the start.
LEMMA BoundedInit == Init => Bounded
<1> SUFFICES ASSUME Init PROVE Bounded
    OBVIOUS
<1>1. <<>> \in Seq(Proposals) /\ <<>> \in Items
    BY DEF Items
<1>2. TypeOK
    BY <1>1 DEF Init, TypeOK
<1>3. BatchWithinLimits
    BY DEF Init, BatchWithinLimits
<1> QED
    BY <1>2, <1>3 DEF Bounded

Answers == {"none", "waiting", "ok", "error", "dropped"}

\* Reply keeps the type of the answers.
LEMMA ReplyType ==
    ASSUME TypeOK, NEW ps, NEW r \in Answers, Reply(ps, r)
    PROVE  answer' \in [Proposals -> Answers]
    BY DEF TypeOK, Reply, Answers

\* flush_specific_batch keeps the types of the channels and of the answers.
LEMMA FlushType ==
    ASSUME TypeOK, NEW l \in Layer, NEW q \in [Channel -> Items], NEW items \in Items, items # <<>>,
           NEW lost, Flush(l, q, items, lost)
    PROVE  queue' \in [Channel -> Items] /\ answer' \in [Proposals -> Answers]
<1>1. l + 1 \in Channel
    BY BatchAssumption DEF Layer, Channel
<1>2. CASE l = Layers /\ ~serving
    BY <1>2, ReplyType DEF Flush, Answers
<1>3. CASE ~(l = Layers /\ ~serving)
  <2>1. queue' = [q EXCEPT ![l + 1] = Append(@, Batched(items))] /\ answer' = answer
      BY <1>3 DEF Flush
  <2>2. Batched(items) \in Seq(Seq(Proposals)) /\ q[l + 1] \in Seq(Seq(Seq(Proposals)))
      BY <1>1, BatchedType DEF Items
  <2>3. Append(q[l + 1], Batched(items)) \in Items
      BY <2>2 DEF Items
  <2> QED
      BY <2>1, <2>3 DEF TypeOK, Answers
<1> QED
    BY <1>2, <1>3

\* A step of a batch processor that leaves the batches other than its own.
LEMMA LayerType ==
    ASSUME Bounded, NEW l \in Layer, NEW b \in Items, NEW n \in Nat, NEW o \in BOOLEAN,
           batch' = [batch EXCEPT ![l] = b], total' = [total EXCEPT ![l] = n],
           aged' = [aged EXCEPT ![l] = o],
           b # <<>> => Len(b) < MaxBatchSize /\ (n <= MaxBatchBytes \/ Len(b) = 1),
           queue' \in [Channel -> Items], answer' \in [Proposals -> Answers],
           UNCHANGED <<sent, entry, done, applied, serving>>
    PROVE  Bounded'
<1>1. TypeOK'
    BY DEF Bounded, TypeOK, Answers
<1>2. BatchWithinLimits'
    BY DEF Bounded, TypeOK, BatchWithinLimits
<1> QED
    BY <1>1, <1>2 DEF Bounded

\* add_to_batch.
LEMMA BoundedAdd ==
    ASSUME Bounded, NEW l \in Layer, AddToBatch(l)
    PROVE  Bounded'
<1> DEFINE item == Head(queue[l])
           n == Estimate(item)
           q == [queue EXCEPT ![l] = Tail(@)]
<1>1. /\ queue \in [Channel -> Items] /\ batch \in [Layer -> Items] /\ total \in [Layer -> Nat]
      /\ aged \in [Layer -> BOOLEAN] /\ l \in Channel
    BY BatchAssumption DEF Bounded, TypeOK, Layer, Channel
<1>2. /\ queue[l] \in Seq(Seq(Seq(Proposals))) /\ queue[l] # <<>>
      /\ batch[l] \in Seq(Seq(Seq(Proposals))) /\ total[l] \in Nat
    BY <1>1 DEF AddToBatch, Items
<1>3. item \in Seq(Seq(Proposals)) /\ Tail(queue[l]) \in Items
    BY <1>2 DEF Items
<1>4. n \in Nat
    BY <1>3, EstimateIsNat
<1>5. q \in [Channel -> Items]
    BY <1>1, <1>3
<1>6. UNCHANGED <<sent, entry, done, applied, serving>> /\ TypeOK
    BY DEF AddToBatch, Bounded
<1>7. <<>> \in Items /\ <<item>> \in Items /\ Append(batch[l], item) \in Items
      /\ Append(batch[l], item) # <<>> /\ Len(<<item>>) = 1 /\ Len(Append(batch[l], item)) = Len(batch[l]) + 1
      /\ Len(batch[l]) \in Nat /\ batch[l] \in Items
  <2>1. /\ <<item>> \in Items /\ Len(<<item>>) = 1 /\ <<>> \in Items /\ batch[l] \in Items
        /\ Len(batch[l]) \in Nat
      BY <1>2, <1>3 DEF Items
  <2>2. /\ Append(batch[l], item) \in Items /\ Len(Append(batch[l], item)) = Len(batch[l]) + 1
        /\ Append(batch[l], item) # <<>>
      BY <1>2, <1>3 DEF Items
  <2> QED
      BY <2>1, <2>2
<1>8. batch[l] # <<>> => 0 < Len(batch[l]) /\ Len(batch[l]) < MaxBatchSize
    BY <1>2 DEF Bounded, BatchWithinLimits
<1>9. MaxBatchSize \in Nat /\ MaxBatchBytes \in Nat
    BY BatchAssumption
<1>10. CASE batch[l] # <<>> /\ Exceeds(l, n)
  <2>1. Flush(l, q, batch[l], Clients(item)) /\ (NewBatch(l, <<>>, 0) \/ NewBatch(l, <<item>>, n))
      BY <1>10 DEF AddToBatch
  <2>2. queue' \in [Channel -> Items] /\ answer' \in [Proposals -> Answers]
      BY <1>5, <1>6, <1>7, <1>10, <2>1, FlushType
  <2> HIDE DEF item, n, q
  <2>3. CASE NewBatch(l, <<>>, 0)
      BY <1>6, <1>7, <2>2, <2>3, LayerType DEF NewBatch
  <2>4. CASE NewBatch(l, <<item>>, n)
    <3>1. 1 < MaxBatchSize
        BY <1>7, <1>8, <1>9, <1>10
    <3> QED
        BY <1>4, <1>6, <1>7, <2>2, <2>4, <3>1, LayerType DEF NewBatch
  <2> QED
      BY <2>1, <2>3, <2>4
<1>11. CASE ~(batch[l] # <<>> /\ Exceeds(l, n)) /\ Reaches(l, n)
  <2>1. Flush(l, q, Append(batch[l], item), {}) /\ NewBatch(l, <<>>, 0)
      BY <1>11 DEF AddToBatch
  <2>2. queue' \in [Channel -> Items] /\ answer' \in [Proposals -> Answers]
      BY <1>5, <1>6, <1>7, <2>1, FlushType
  <2> QED
      BY <1>6, <1>7, <2>1, <2>2, LayerType DEF NewBatch
<1>12. CASE ~(batch[l] # <<>> /\ Exceeds(l, n)) /\ ~Reaches(l, n)
  <2>1. /\ queue' = q /\ batch' = [batch EXCEPT ![l] = Append(@, item)]
        /\ total' = [total EXCEPT ![l] = @ + n] /\ UNCHANGED <<answer, aged>>
      BY <1>12 DEF AddToBatch
  <2>2. Len(batch[l]) + 1 < MaxBatchSize /\ total[l] + n < MaxBatchBytes
      BY <1>2, <1>4, <1>7, <1>9, <1>12 DEF Reaches
  <2>3. /\ batch' = [batch EXCEPT ![l] = Append(batch[l], item)]
        /\ total' = [total EXCEPT ![l] = total[l] + n] /\ aged' = [aged EXCEPT ![l] = aged[l]]
        /\ total[l] + n \in Nat /\ total[l] + n <= MaxBatchBytes /\ aged[l] \in BOOLEAN
      BY <1>1, <1>2, <1>4, <1>9, <2>1, <2>2
  <2>4. queue' \in [Channel -> Items] /\ answer' \in [Proposals -> Answers]
      BY <1>5, <1>6, <2>1 DEF TypeOK, Answers
  <2> HIDE DEF item, n, q
  <2> QED
      BY <1>6, <1>7, <2>2, <2>3, <2>4, LayerType
<1> QED
    BY <1>10, <1>11, <1>12

\* check_and_flush_batch.
LEMMA BoundedFlush ==
    ASSUME Bounded, NEW l \in Layer, CheckAndFlush(l)
    PROVE  Bounded'
<1>1. /\ queue \in [Channel -> Items] /\ batch[l] \in Items /\ batch[l] # <<>> /\ <<>> \in Items
      /\ TypeOK /\ UNCHANGED <<sent, entry, done, applied, serving>>
    BY DEF Bounded, TypeOK, CheckAndFlush, Items
<1>2. Flush(l, queue, batch[l], {}) /\ NewBatch(l, <<>>, 0)
    BY DEF CheckAndFlush
<1>3. queue' \in [Channel -> Items] /\ answer' \in [Proposals -> Answers]
    BY <1>1, <1>2, FlushType
<1> QED
    BY <1>1, <1>2, <1>3, LayerType DEF NewBatch

\* The steps that leave the batches.
LEMMA BoundedRest ==
    ASSUME Bounded, UNCHANGED <<batch, total>>, sent' \in Seq(Proposals), applied' \in Seq(Proposals),
           queue' \in [Channel -> Items], entry' \in Items, aged' \in [Layer -> BOOLEAN],
           done' \in Nat, serving' \in BOOLEAN, answer' \in [Proposals -> Answers]
    PROVE  Bounded'
<1>1. TypeOK'
    BY DEF Bounded, TypeOK, Answers
<1>2. BatchWithinLimits'
    BY DEF Bounded, BatchWithinLimits
<1> QED
    BY <1>1, <1>2 DEF Bounded

-----------------------------------------------------------------------------
\* The pipeline.

\* The channels, the batches and the log as the queues of one pipeline.
Stages == 2 * Layers + 2
StageOf(q, b, e) ==
    [k \in 1..Stages |-> IF k = Stages THEN e ELSE IF k % 2 = 1 THEN q[(k + 1) \div 2] ELSE b[k \div 2]]

Pipe(q, b, e, B) == Flow(StageOf(q, b, e), Stages, B)
Crowd(q, b, e) == Everyone(StageOf(q, b, e), Stages)

ChannelStage(c) == 2 * c - 1
BatchStage(l) == 2 * l

\* Where they are in it.
LEMMA StageAt ==
    ASSUME NEW q, NEW b, NEW e
    PROVE  /\ StageOf(q, b, e)[Stages] = e
           /\ \A c \in Channel : StageOf(q, b, e)[ChannelStage(c)] = q[c]
           /\ \A l \in Layer : StageOf(q, b, e)[BatchStage(l)] = b[l]
<1>1. Layers \in Nat /\ Stages \in Nat /\ Stages \in 1..Stages
    BY BatchAssumption DEF Stages
<1>2. StageOf(q, b, e)[Stages] = e
    BY <1>1 DEF StageOf
<1>3. ASSUME NEW c \in Channel
      PROVE  StageOf(q, b, e)[2 * c - 1] = q[c]
  <2>1. 2 * c - 1 \in 1..Stages /\ 2 * c - 1 # Stages
      BY <1>1 DEF Channel, Stages
  <2>2. (2 * c - 1) % 2 = 1 /\ ((2 * c - 1) + 1) \div 2 = c
      BY <1>1 DEF Channel
  <2> QED
      BY <2>1, <2>2 DEF StageOf
<1>4. ASSUME NEW l \in Layer
      PROVE  StageOf(q, b, e)[2 * l] = b[l]
  <2>1. 2 * l \in 1..Stages /\ 2 * l # Stages
      BY <1>1 DEF Layer, Stages
  <2>2. (2 * l) % 2 # 1 /\ (2 * l) \div 2 = l
      BY <1>1 DEF Layer
  <2> QED
      BY <2>1, <2>2 DEF StageOf
<1> QED
    BY <1>2, <1>3, <1>4 DEF ChannelStage, BatchStage

\* The last one is the log.
LEMMA StageLast ==
    ASSUME NEW q, NEW b, NEW e
    PROVE  StageOf(q, b, e)[Stages] = e
    BY StageAt

\* The order of the stages.
LEMMA StageOrder ==
    /\ Stages \in Nat /\ Stages \in 1..Stages
    /\ \A c \in Channel : ChannelStage(c) \in 1..Stages /\ ChannelStage(c) # Stages
    /\ \A l \in Layer : BatchStage(l) \in 1..Stages /\ BatchStage(l) # Stages
    /\ \A c \in Channel : ChannelStage(c) + 1 = IF c = Layers + 1 THEN Stages ELSE BatchStage(c)
    /\ \A l \in Layer, c \in Channel : c = l + 1 => BatchStage(l) + 1 = ChannelStage(c)
    /\ \A l \in Layer, c \in Channel : BatchStage(l) # ChannelStage(c)
    /\ \A l, m \in Layer : BatchStage(l) = BatchStage(m) => l = m
    /\ \A c, d \in Channel : ChannelStage(c) = ChannelStage(d) => c = d
    BY BatchAssumption DEF Stages, ChannelStage, BatchStage, Layer, Channel

\* There are no others.
LEMMA StageCases ==
    ASSUME NEW k \in 1..Stages
    PROVE  \/ \E c \in Channel : k = ChannelStage(c)
           \/ \E l \in Layer : k = BatchStage(l)
           \/ k = Stages
<1>1. Layers \in Nat
    BY BatchAssumption
<1>2. k % 2 = 1 \/ k % 2 = 0
    BY <1>1 DEF Stages
<1>3. CASE k % 2 = 1
  <2>1. (k + 1) \div 2 \in Channel /\ k = 2 * ((k + 1) \div 2) - 1
      BY <1>1, <1>3 DEF Channel, Stages
  <2> QED
      BY <2>1 DEF ChannelStage
<1>4. CASE k % 2 = 0 /\ k # Stages
  <2>1. k \div 2 \in Layer /\ k = 2 * (k \div 2)
      BY <1>1, <1>4 DEF Layer, Stages
  <2> QED
      BY <2>1 DEF BatchStage
<1> QED
    BY <1>2, <1>3, <1>4

\* A step changes the channels of C and the batches of L only.
Changes(q, b, r, d, C, L) ==
    /\ C \subseteq Channel /\ \A c \in Channel \ C : r[c] = q[c]
    /\ L \subseteq Layer /\ \A l \in Layer \ L : d[l] = b[l]

\* It leaves the other stages alone.
LEMMA StageSame ==
    ASSUME NEW q, NEW b, NEW e, NEW r, NEW d, NEW f, NEW C, NEW L, Changes(q, b, r, d, C, L)
    PROVE  \A k \in 1..Stages :
             \/ \E c \in C : k = ChannelStage(c)
             \/ \E l \in L : k = BatchStage(l)
             \/ k = Stages /\ f # e
             \/ StageOf(r, d, f)[k] = StageOf(q, b, e)[k]
    BY StageCases, StageAt DEF Changes

\* What the steps of the program do to the channels, the batches and the log.
Takes(q, b, r, d, l) ==
    /\ q[l] # <<>> /\ r[l] = Tail(q[l]) /\ d[l] = Append(b[l], Head(q[l]))
    /\ (\A c \in Channel \ {l} : r[c] = q[c]) /\ \A m \in Layer \ {l} : d[m] = b[m]
Sends(q, b, r, d, l, c) ==
    /\ c = l + 1 /\ b[l] # <<>> /\ d[l] = <<>> /\ r[c] = Append(q[c], Batched(b[l]))
    /\ (\A i \in Channel \ {c} : r[i] = q[i]) /\ \A m \in Layer \ {l} : d[m] = b[m]
Proposes(q, e, r, f, c) ==
    /\ c = Layers + 1 /\ q[c] # <<>> /\ r[c] = Tail(q[c]) /\ f = Append(e, Head(q[c]))
    /\ \A i \in Channel \ {c} : r[i] = q[i]
Discards(b, d, l) ==
    /\ d[l] = <<>> /\ \A m \in Layer \ {l} : d[m] = b[m]
Skips(q, r, c) ==
    /\ q[c] # <<>> /\ r[c] = Tail(q[c]) /\ \A i \in Channel \ {c} : r[i] = q[i]
Closes(q, r, c) ==
    /\ r[c] = <<>> /\ \A i \in Channel \ {c} : r[i] = q[i]

\* A batch processor takes a proposal from its channel into its batch.
LEMMA PipeTake ==
    ASSUME NEW B, NEW q, NEW b, NEW e, NEW r, NEW d, NEW l \in Layer, Pipe(q, b, e, B),
           Takes(q, b, r, d, l)
    PROVE  Pipe(r, d, e, B) /\ Crowd(r, d, e) = Crowd(q, b, e)
<1>a. /\ q[l] # <<>> /\ r[l] = Tail(q[l]) /\ d[l] = Append(b[l], Head(q[l]))
      /\ (\A c \in Channel \ {l} : r[c] = q[c]) /\ \A m \in Layer \ {l} : d[m] = b[m]
    BY DEF Takes
<1> USE <1>a
<1> DEFINE S == StageOf(q, b, e)
           T == StageOf(r, d, e)
           k == ChannelStage(l)
<1>0. l \in Channel /\ l # Layers + 1
    BY BatchAssumption DEF Layer, Channel
<1>1. S[k] = q[l] /\ T[k] = r[l] /\ S[BatchStage(l)] = b[l] /\ T[BatchStage(l)] = d[l]
  <2>1. S[k] = q[l]
      BY <1>0, StageAt
  <2>2. T[k] = r[l]
      BY <1>0, StageAt
  <2>3. S[BatchStage(l)] = b[l]
      BY <1>0, StageAt
  <2>4. T[BatchStage(l)] = d[l]
      BY <1>0, StageAt
  <2> QED
      BY <2>1, <2>2, <2>3, <2>4
<1>2. Changes(q, b, r, d, {l}, {l})
    BY <1>0, BatchAssumption DEF Changes, Layer, Channel
<1>3. \A j \in 1..Stages :
             \/ \E c \in {l} : j = ChannelStage(c)
             \/ \E m \in {l} : j = BatchStage(m)
             \/ j = Stages /\ e # e
             \/ T[j] = S[j]
    BY <1>2, StageSame, SMTT(30)
<1>4. FirstMoves(S, T, Stages, k)
    BY <1>0, <1>1, <1>3, StageOrder DEF FirstMoves
<1>5. Flow(S, Stages, B) /\ Stages \in Nat
    BY StageOrder, SMTT(30) DEF Pipe
<1> HIDE DEF S, T, k
<1>6. Flow(T, Stages, B) /\ Everyone(T, Stages) = Everyone(S, Stages)
    BY <1>4, <1>5, MoveHead
<1> QED
    BY <1>1, <1>6 DEF Pipe, Crowd, S, T

\* A batch processor sends its batch on.
LEMMA PipeFlush ==
    ASSUME NEW B, NEW q, NEW b, NEW e, NEW r, NEW d, NEW l \in Layer, NEW c \in Channel, Pipe(q, b, e, B),
           Sends(q, b, r, d, l, c)
    PROVE  Pipe(r, d, e, B) /\ Crowd(r, d, e) = Crowd(q, b, e)
<1>a. /\ c = l + 1 /\ b[l] # <<>> /\ d[l] = <<>> /\ r[c] = Append(q[c], Batched(b[l]))
      /\ (\A i \in Channel \ {c} : r[i] = q[i]) /\ \A m \in Layer \ {l} : d[m] = b[m]
    BY DEF Sends
<1> USE <1>a
<1> DEFINE S == StageOf(q, b, e)
           T == StageOf(r, d, e)
           k == BatchStage(l)
<1>1. S[k] = b[l] /\ T[k] = d[l] /\ S[ChannelStage(c)] = q[c] /\ T[ChannelStage(c)] = r[c]
  <2>1. S[k] = b[l]
      BY StageAt
  <2>2. T[k] = d[l]
      BY StageAt
  <2>3. S[ChannelStage(c)] = q[c]
      BY StageAt
  <2>4. T[ChannelStage(c)] = r[c]
      BY StageAt
  <2> QED
      BY <2>1, <2>2, <2>3, <2>4
<1>2. Changes(q, b, r, d, {c}, {l})
    BY BatchAssumption DEF Changes, Layer, Channel
<1>3. \A j \in 1..Stages :
             \/ \E i \in {c} : j = ChannelStage(i)
             \/ \E m \in {l} : j = BatchStage(m)
             \/ j = Stages /\ e # e
             \/ T[j] = S[j]
    BY <1>2, StageSame, SMTT(30)
<1>4. AllMove(S, T, Stages, k)
    BY <1>1, <1>3, StageOrder, SMTT(30) DEF AllMove
<1>5. Flow(S, Stages, B) /\ Stages \in Nat
    BY StageOrder DEF Pipe
<1> HIDE DEF S, T, k
<1>6. Flow(T, Stages, B) /\ Everyone(T, Stages) = Everyone(S, Stages)
    BY <1>4, <1>5, MoveAll
<1> QED
    BY <1>1, <1>6 DEF Pipe, Crowd, S, T

\* The RaftManager takes a proposal into the log.
LEMMA PipeHandle ==
    ASSUME NEW B, NEW q, NEW b, NEW e, NEW r, NEW f, NEW c \in Channel, Pipe(q, b, e, B),
           Proposes(q, e, r, f, c)
    PROVE  Pipe(r, b, f, B) /\ Crowd(r, b, f) = Crowd(q, b, e)
<1>a. /\ c = Layers + 1 /\ q[c] # <<>> /\ r[c] = Tail(q[c]) /\ f = Append(e, Head(q[c]))
      /\ \A i \in Channel \ {c} : r[i] = q[i]
    BY DEF Proposes
<1> USE <1>a
<1> DEFINE S == StageOf(q, b, e)
           T == StageOf(r, b, f)
           k == ChannelStage(c)
<1>1. S[k] = q[c] /\ T[k] = r[c] /\ S[Stages] = e /\ T[Stages] = f
  <2>1. S[k] = q[c]
      BY StageAt
  <2>2. T[k] = r[c]
      BY StageAt
  <2>3. S[Stages] = e
      BY StageAt
  <2>4. T[Stages] = f
    <3>1. \A g : StageOf(r, b, g)[Stages] = g
        BY StageLast
    <3> QED
        BY <3>1, Zenon
  <2> QED
      BY <2>1, <2>2, <2>3, <2>4
<1>2. Changes(q, b, r, b, {c}, {})
    BY BatchAssumption DEF Changes, Layer, Channel
<1>3. \A j \in 1..Stages :
             \/ \E i \in {c} : j = ChannelStage(i)
             \/ \E m \in {} : j = BatchStage(m)
             \/ j = Stages /\ f # e
             \/ T[j] = S[j]
    BY <1>2, StageSame
<1>4. FirstMoves(S, T, Stages, k)
    BY <1>1, <1>3, StageOrder DEF FirstMoves
<1>5. Flow(S, Stages, B) /\ Stages \in Nat
    BY StageOrder DEF Pipe
<1> HIDE DEF S, T, k
<1>6. Flow(T, Stages, B) /\ Everyone(T, Stages) = Everyone(S, Stages)
    BY <1>4, <1>5, MoveHead, SMTT(30)
<1> QED
    BY <1>1, <1>6 DEF Pipe, Crowd, S, T

\* A batch is dropped.
LEMMA PipeDropBatch ==
    ASSUME NEW B, NEW q, NEW b, NEW e, NEW d, NEW l \in Layer, Pipe(q, b, e, B), Irreflexive(B),
           Discards(b, d, l)
    PROVE  Pipe(q, d, e, B) /\ \A x : x \in Crowd(q, d, e) <=> x \in Crowd(q, b, e) /\ x \notin Held(b[l])
<1>a. /\ d[l] = <<>> /\ \A m \in Layer \ {l} : d[m] = b[m]
    BY DEF Discards
<1> USE <1>a
<1> DEFINE S == StageOf(q, b, e)
           T == StageOf(q, d, e)
           k == BatchStage(l)
<1>1. S[k] = b[l] /\ T[k] = d[l]
  <2>1. S[k] = b[l]
      BY StageAt
  <2>2. T[k] = d[l]
      BY StageAt
  <2> QED
      BY <2>1, <2>2
<1>2. Changes(q, b, q, d, {}, {l})
    BY BatchAssumption DEF Changes, Layer, Channel
<1>3. \A j \in 1..Stages :
             \/ \E c \in {} : j = ChannelStage(c)
             \/ \E m \in {l} : j = BatchStage(m)
             \/ j = Stages /\ e # e
             \/ T[j] = S[j]
    BY <1>2, StageSame, SMTT(30)
<1>4. AllDrop(S, T, Stages, k)
    BY <1>1, <1>3, StageOrder, SMTT(30) DEF AllDrop
<1>5. Flow(S, Stages, B) /\ Stages \in Nat
    BY StageOrder, SMTT(30) DEF Pipe
<1> HIDE DEF S, T, k
<1>6. Flow(T, Stages, B) /\ Everyone(T, Stages) = Everyone(S, Stages) \ Held(S[k])
    BY <1>4, <1>5, DropAll, SMTT(30)
<1> QED
    BY <1>1, <1>6 DEF Pipe, Crowd, S, T

\* The first proposal of a channel is dropped.
LEMMA PipeDropFirst ==
    ASSUME NEW B, NEW q, NEW b, NEW e, NEW r, NEW c \in Channel, Pipe(q, b, e, B), Irreflexive(B),
           Skips(q, r, c)
    PROVE  Pipe(r, b, e, B) /\ \A x : x \in Crowd(r, b, e) <=> x \in Crowd(q, b, e) /\ x \notin Clients(Head(q[c]))
<1>a. /\ q[c] # <<>> /\ r[c] = Tail(q[c]) /\ \A i \in Channel \ {c} : r[i] = q[i]
    BY DEF Skips
<1> USE <1>a
<1> DEFINE S == StageOf(q, b, e)
           T == StageOf(r, b, e)
           k == ChannelStage(c)
<1>1. S[k] = q[c] /\ T[k] = r[c]
  <2>1. S[k] = q[c]
      BY StageAt
  <2>2. T[k] = r[c]
      BY StageAt
  <2> QED
      BY <2>1, <2>2
<1>2. Changes(q, b, r, b, {c}, {})
    BY BatchAssumption, SMTT(30) DEF Changes, Layer, Channel
<1>3. \A j \in 1..Stages :
             \/ \E i \in {c} : j = ChannelStage(i)
             \/ \E m \in {} : j = BatchStage(m)
             \/ j = Stages /\ e # e
             \/ T[j] = S[j]
    BY <1>2, StageSame, SMTT(30)
<1>4. FirstDrops(S, T, Stages, k)
    BY <1>1, <1>3, StageOrder DEF FirstDrops
<1>5. Flow(S, Stages, B) /\ Stages \in Nat
    BY StageOrder, SMTT(30) DEF Pipe
<1> HIDE DEF S, T, k
<1>6. Flow(T, Stages, B) /\ Everyone(T, Stages) = Everyone(S, Stages) \ Clients(Head(S[k]))
    BY <1>4, <1>5, DropHead, SMTT(30)
<1> QED
    BY <1>1, <1>6 DEF Pipe, Crowd, S, T

\* A channel is dropped.
LEMMA PipeDropChannel ==
    ASSUME NEW B, NEW q, NEW b, NEW e, NEW r, NEW c \in Channel, Pipe(q, b, e, B), Irreflexive(B),
           Closes(q, r, c)
    PROVE  Pipe(r, b, e, B) /\ \A x : x \in Crowd(r, b, e) <=> x \in Crowd(q, b, e) /\ x \notin Held(q[c])
<1>a. /\ r[c] = <<>> /\ \A i \in Channel \ {c} : r[i] = q[i]
    BY DEF Closes
<1> USE <1>a
<1> DEFINE S == StageOf(q, b, e)
           T == StageOf(r, b, e)
           k == ChannelStage(c)
<1>1. S[k] = q[c] /\ T[k] = r[c]
  <2>1. S[k] = q[c]
      BY StageAt
  <2>2. T[k] = r[c]
      BY StageAt
  <2> QED
      BY <2>1, <2>2
<1>2. Changes(q, b, r, b, {c}, {})
    BY BatchAssumption, SMTT(30) DEF Changes, Layer, Channel
<1>3. \A j \in 1..Stages :
             \/ \E i \in {c} : j = ChannelStage(i)
             \/ \E m \in {} : j = BatchStage(m)
             \/ j = Stages /\ e # e
             \/ T[j] = S[j]
    BY <1>2, StageSame, SMTT(30)
<1>4. AllDrop(S, T, Stages, k)
    BY <1>1, <1>3, StageOrder DEF AllDrop
<1>5. Flow(S, Stages, B) /\ Stages \in Nat
    BY StageOrder, SMTT(30) DEF Pipe
<1> HIDE DEF S, T, k
<1>6. Flow(T, Stages, B) /\ Everyone(T, Stages) = Everyone(S, Stages) \ Held(S[k])
    BY <1>4, <1>5, DropAll, SMTT(30)
<1> QED
    BY <1>1, <1>6 DEF Pipe, Crowd, S, T

\* The first entry leaves the log.
LEMMA PipeDropEntry ==
    ASSUME NEW B, NEW q, NEW b, NEW e, NEW f, Pipe(q, b, e, B), Irreflexive(B),
           e # <<>>, f = Tail(e)
    PROVE  Pipe(q, b, f, B) /\ \A x : x \in Crowd(q, b, f) <=> x \in Crowd(q, b, e) /\ x \notin Clients(Head(e))
<1> DEFINE S == StageOf(q, b, e)
           T == StageOf(q, b, f)
           k == Stages
<1>1. S[k] = e /\ T[k] = f
  <2>1. S[k] = e
      BY StageAt
  <2>2. T[k] = f
    <3>1. \A g : StageOf(q, b, g)[Stages] = g
        BY StageLast
    <3> QED
        BY <3>1
  <2> QED
      BY <2>1, <2>2
<1>2. Changes(q, b, q, b, {}, {})
    BY BatchAssumption DEF Changes, Layer, Channel
<1>3. \A j \in 1..Stages :
             \/ \E c \in {} : j = ChannelStage(c)
             \/ \E m \in {} : j = BatchStage(m)
             \/ j = Stages /\ f # e
             \/ T[j] = S[j]
    BY <1>2, StageSame
<1>4. FirstDrops(S, T, Stages, k)
    BY <1>1, <1>3, StageOrder DEF FirstDrops
<1>5. Flow(S, Stages, B) /\ Stages \in Nat
    BY StageOrder DEF Pipe
<1> HIDE DEF S, T, k
<1>6. Flow(T, Stages, B) /\ Everyone(T, Stages) = Everyone(S, Stages) \ Clients(Head(S[k]))
    BY <1>4, <1>5, DropHead, SMTT(30)
<1> QED
    BY <1>1, <1>6 DEF Pipe, Crowd, S, T

\* The log is dropped.
LEMMA PipeDropLog ==
    ASSUME NEW B, NEW q, NEW b, NEW e, NEW f, Pipe(q, b, e, B), Irreflexive(B),
           f = <<>>
    PROVE  Pipe(q, b, f, B) /\ \A x : x \in Crowd(q, b, f) <=> x \in Crowd(q, b, e) /\ x \notin Held(e)
<1> DEFINE S == StageOf(q, b, e)
           T == StageOf(q, b, f)
           k == Stages
<1>1. S[k] = e /\ T[k] = f
  <2>1. S[k] = e
      BY StageAt
  <2>2. T[k] = f
    <3>1. \A g : StageOf(q, b, g)[Stages] = g
        BY StageLast
    <3> QED
        BY <3>1
  <2> QED
      BY <2>1, <2>2
<1>2. Changes(q, b, q, b, {}, {})
    BY BatchAssumption DEF Changes, Layer, Channel
<1>3. \A j \in 1..Stages :
             \/ \E c \in {} : j = ChannelStage(c)
             \/ \E m \in {} : j = BatchStage(m)
             \/ j = Stages /\ f # e
             \/ T[j] = S[j]
    BY <1>2, StageSame
<1>4. AllDrop(S, T, Stages, k)
    BY <1>1, <1>3, StageOrder DEF AllDrop
<1>5. Flow(S, Stages, B) /\ Stages \in Nat
    BY StageOrder DEF Pipe
<1> HIDE DEF S, T, k
<1>6. Flow(T, Stages, B) /\ Everyone(T, Stages) = Everyone(S, Stages) \ Held(S[k])
    BY <1>4, <1>5, DropAll, SMTT(30)
<1> QED
    BY <1>1, <1>6 DEF Pipe, Crowd, S, T

\* An order may be extended.
LEMMA FlowMono ==
    ASSUME NEW B, NEW C, B \subseteq C, NEW n, NEW S, Flow(S, n, B)
    PROVE  Flow(S, n, C)
<1>1. ASSUME NEW item, Sound(item, B) PROVE Sound(item, C)
    BY <1>1 DEF Sound, Chain, Joins
<1>2. ASSUME NEW s, Lined(s, B) PROVE Lined(s, C)
    BY <1>1, <1>2 DEF Lined
<1> QED
    BY <1>2 DEF Flow

\* A client's proposal enters the first queue.
Enters(S, T, n, p) ==
    1 \in 1..n /\ T[1] = Append(S[1], Plain(p)) /\ \A j \in 1..n : j # 1 => T[j] = S[j]

\* It is behind all others.
LEMMA FlowEnter ==
    ASSUME NEW B, NEW n \in Nat, NEW S, NEW T, Flow(S, n, B), NEW p \in Proposals,
           Enters(S, T, n, p), \A q \in Everyone(S, n) : <<q, p>> \in B
    PROVE  Flow(T, n, B) /\ Everyone(T, n) = Everyone(S, n) \union {p}
<1>a. 1 \in 1..n /\ T[1] = Append(S[1], Plain(p)) /\ \A j \in 1..n : j # 1 => T[j] = S[j]
    BY DEF Enters
<1> USE <1>a
<1>1. Lined(S[1], B) /\ \A j \in 1..n : \A q \in Held(S[j]) : q \in Everyone(S, n)
    BY DEF Flow, Everyone, Held
<1>2. Sound(Plain(p), B) /\ Clients(Plain(p)) = {p}
    BY PlainSound, SMTT(30)
<1>3. Lined(T[1], B) /\ Held(T[1]) = Held(S[1]) \union {p}
    BY <1>1, <1>2, LinedAppend
<1>4. \A j \in 1..n : Lined(T[j], B)
    BY <1>3 DEF Flow
<1>5. ASSUME NEW j \in 1..n, NEW k \in 1..n, j < k, NEW x \in Held(T[k]), NEW y \in Held(T[j])
      PROVE  <<x, y>> \in B
  <2>1. k # 1 /\ x \in Held(S[k])
      BY <1>5
  <2>2. y \in Held(S[j]) \/ y = p
      BY <1>3
  <2>3. CASE y \in Held(S[j])
      BY <1>5, <2>1, <2>3 DEF Flow
  <2>4. CASE y = p
      BY <1>1, <2>1, <2>4
  <2> QED
      BY <2>2, <2>3, <2>4
<1>6. Flow(T, n, B)
    BY <1>4, <1>5 DEF Flow
<1>7. Everyone(T, n) = Everyone(S, n) \union {p}
    BY <1>3 DEF Everyone
<1> QED
    BY <1>6, <1>7

\* The same for the pipeline.
LEMMA PipeMono ==
    ASSUME NEW B, NEW C, B \subseteq C, NEW q, NEW b, NEW e, Pipe(q, b, e, B)
    PROVE  Pipe(q, b, e, C)
    BY FlowMono DEF Pipe

\* send_raft_proposal.
Receives(q, r, p) == r[1] = Append(q[1], Plain(p)) /\ \A i \in Channel \ {1} : r[i] = q[i]

\* The proposal enters the first channel, behind all others.
LEMMA PipeEnter ==
    ASSUME NEW C, NEW q, NEW b, NEW e, NEW r, Pipe(q, b, e, C), NEW p \in Proposals,
           Receives(q, r, p), \A x \in Crowd(q, b, e) : <<x, p>> \in C
    PROVE  Pipe(r, b, e, C) /\ \A x : x \in Crowd(r, b, e) <=> x \in Crowd(q, b, e) \/ x = p
<1>a. r[1] = Append(q[1], Plain(p)) /\ \A i \in Channel \ {1} : r[i] = q[i]
    BY DEF Receives
<1> USE <1>a
<1> DEFINE S == StageOf(q, b, e)
           T == StageOf(r, b, e)
<1>1. 1 \in Channel /\ ChannelStage(1) = 1
    BY BatchAssumption DEF Channel, ChannelStage
<1>2. S[1] = q[1] /\ T[1] = r[1]
  <2>1. S[ChannelStage(1)] = q[1] /\ T[ChannelStage(1)] = r[1]
      BY <1>1, StageAt
  <2> QED
      BY <1>1, <2>1
<1>3. Changes(q, b, r, b, {1}, {})
    BY <1>1 DEF Changes
<1>4. \A j \in 1..Stages :
             \/ \E i \in {1} : j = ChannelStage(i)
             \/ \E m \in {} : j = BatchStage(m)
             \/ j = Stages /\ e # e
             \/ T[j] = S[j]
    BY <1>3, StageSame
<1>5. Stages \in Nat /\ 1 \in 1..Stages /\ \A j \in 1..Stages : j # 1 => T[j] = S[j]
    BY <1>1, <1>4, StageOrder
<1>6. Flow(S, Stages, C)
    BY DEF Pipe
<1>7. T[1] = Append(S[1], Plain(p)) /\ \A x \in Everyone(S, Stages) : <<x, p>> \in C
    BY <1>2 DEF Crowd
<1> HIDE DEF S, T
<1>9. Enters(S, T, Stages, p)
    BY <1>5, <1>7, SMTT(30) DEF Enters
<1>8. Flow(T, Stages, C) /\ Everyone(T, Stages) = Everyone(S, Stages) \union {p}
    BY <1>5, <1>6, <1>7, <1>9, FlowEnter
<1> QED
    BY <1>8 DEF Pipe, Crowd, S, T

\* The first entry of the log is in front.
LEMMA PipeFront ==
    ASSUME NEW B, NEW q, NEW b, NEW e, Pipe(q, b, e, B), e # <<>>
    PROVE  /\ Lined(e, B) /\ Sound(Head(e), B) /\ Clients(Head(e)) \subseteq Crowd(q, b, e)
           /\ \A x \in Clients(Head(e)), y \in Crowd(q, b, e) \ Clients(Head(e)) : <<x, y>> \in B
<1> DEFINE S == StageOf(q, b, e)
<1>1. S[Stages] = e /\ Stages \in Nat /\ Stages \in 1..Stages
    BY StageAt, StageOrder
<1>2. Flow(S, Stages, B)
    BY DEF Pipe
<1>3. Lined(e, B)
    BY <1>1, <1>2 DEF Flow
<1>4. /\ Sound(Head(e), B) /\ Clients(Head(e)) \subseteq Proposals
      /\ Held(e) = Held(Tail(e)) \union Clients(Head(e))
      /\ \A x \in Clients(Head(e)), y \in Held(Tail(e)) : <<x, y>> \in B
    BY <1>3, LinedTail
<1> HIDE DEF S
<1>5. Clients(Head(e)) \subseteq Everyone(S, Stages)
    BY <1>1, <1>4 DEF Everyone
<1>6. ASSUME NEW x \in Clients(Head(e)), NEW y \in Everyone(S, Stages), y \notin Clients(Head(e))
      PROVE  <<x, y>> \in B
  <2>1. PICK j \in 1..Stages : y \in Held(S[j])
      BY DEF Everyone
  <2>2. CASE j = Stages
      BY <1>1, <1>4, <1>6, <2>1, <2>2
  <2>3. CASE j # Stages
    <3>1. j < Stages /\ x \in Held(S[Stages])
        BY <1>1, <1>4, <2>3, SMTT(30)
    <3> QED
        BY <1>1, <1>2, <2>1, <3>1 DEF Flow
  <2> QED
      BY <2>2, <2>3
<1> QED
    BY <1>3, <1>4, <1>5, <1>6 DEF Crowd, S

\* The queues are sound, and who is in them is in the pipeline.
LEMMA PipeParts ==
    ASSUME NEW B, NEW q, NEW b, NEW e, Pipe(q, b, e, B)
    PROVE  /\ \A c \in Channel : Lined(q[c], B) /\ Held(q[c]) \subseteq Crowd(q, b, e)
           /\ \A l \in Layer : Lined(b[l], B) /\ Held(b[l]) \subseteq Crowd(q, b, e)
           /\ Lined(e, B) /\ Held(e) \subseteq Crowd(q, b, e)
<1> DEFINE S == StageOf(q, b, e)
<1>1. \A k \in 1..Stages : Lined(S[k], B) /\ Held(S[k]) \subseteq Everyone(S, Stages)
    BY DEF Pipe, Flow, Everyone, Held
<1>2. ASSUME NEW c \in Channel PROVE Lined(q[c], B) /\ Held(q[c]) \subseteq Everyone(S, Stages)
  <2>1. S[ChannelStage(c)] = q[c] /\ ChannelStage(c) \in 1..Stages
      BY StageAt, StageOrder
  <2> HIDE DEF S
  <2> QED
      BY <1>1, <2>1
<1>3. ASSUME NEW l \in Layer PROVE Lined(b[l], B) /\ Held(b[l]) \subseteq Everyone(S, Stages)
  <2>1. S[BatchStage(l)] = b[l] /\ BatchStage(l) \in 1..Stages
      BY StageAt, StageOrder
  <2> HIDE DEF S
  <2> QED
      BY <1>1, <2>1
<1>4. Lined(e, B) /\ Held(e) \subseteq Everyone(S, Stages)
  <2>1. S[Stages] = e /\ Stages \in 1..Stages
      BY StageAt, StageOrder
  <2> HIDE DEF S
  <2> QED
      BY <1>1, <2>1
<1> QED
    BY <1>2, <1>3, <1>4, SMTT(30) DEF Crowd

\* A pipeline of empty queues.
LEMMA PipeEmpty ==
    ASSUME NEW B, NEW q, NEW b, NEW e,
           \A c \in Channel : q[c] = <<>>, \A l \in Layer : b[l] = <<>>, e = <<>>
    PROVE  Pipe(q, b, e, B) /\ Crowd(q, b, e) = {}
<1> DEFINE S == StageOf(q, b, e)
<1>1. \A k \in 1..Stages : S[k] = <<>>
    BY StageCases, StageAt
<1> HIDE DEF S
<1>2. Flow(S, Stages, B) /\ Everyone(S, Stages) = {}
    BY <1>1, LinedEmpty DEF Flow, Everyone
<1> QED
    BY <1>2 DEF Pipe, Crowd, S

\* The order in which the clients of s sent their proposals, and the relation of
\* different clients.
SentBefore(s) == {x \in Proposals \X Proposals : Before(s, x[1], x[2])}
Distinct == {x \in Proposals \X Proposals : x[1] # x[2]}

\* Their members.
LEMMA OrderIs ==
    ASSUME NEW s, NEW p, NEW q
    PROVE  /\ <<p, q>> \in SentBefore(s) <=> p \in Proposals /\ q \in Proposals /\ Before(s, p, q)
           /\ <<p, q>> \in Distinct <=> p \in Proposals /\ q \in Proposals /\ p # q
<1>1. <<p, q>>[1] = p /\ <<p, q>>[2] = q
    OBVIOUS
<1>2. <<p, q>> \in Proposals \X Proposals <=> p \in Proposals /\ q \in Proposals
    OBVIOUS
<1> QED
    BY <1>1, <1>2 DEF SentBefore, Distinct

\* Nobody sent before themselves.
LEMMA OrderIrreflexive ==
    ASSUME NEW s \in Seq(Proposals), Chain(s, Distinct)
    PROVE  Irreflexive(SentBefore(s)) /\ SentBefore(s) \subseteq Distinct
<1>1. ASSUME NEW p, NEW q, <<p, q>> \in SentBefore(s) PROVE p # q /\ <<p, q>> \in Distinct
  <2>1. p \in Proposals /\ q \in Proposals /\ Before(s, p, q)
      BY <1>1, OrderIs
  <2>2. PICK i \in 1..Len(s), j \in 1..Len(s) : i < j /\ s[i] = p /\ s[j] = q
      BY <2>1 DEF Before
  <2>3. <<s[i], s[j]>> \in Distinct
      BY <2>2 DEF Chain
  <2> QED
      BY <2>2, <2>3, OrderIs
<1>2. Irreflexive(SentBefore(s))
    BY <1>1 DEF Irreflexive
<1>3. ASSUME NEW x \in SentBefore(s) PROVE x \in Distinct
  <2>1. x \in Proposals \X Proposals
      BY DEF SentBefore
  <2>2. x = <<x[1], x[2]>>
      BY <2>1
  <2> QED
      BY <1>1, <2>2
<1> QED
    BY <1>2, <1>3

\* A sequence with one more element.
LEMMA Appended ==
    ASSUME NEW s \in Seq(Proposals), NEW p \in Proposals
    PROVE  /\ Append(s, p) \in Seq(Proposals) /\ Len(Append(s, p)) = Len(s) + 1 /\ Len(s) \in Nat
           /\ Append(s, p)[Len(s) + 1] = p /\ \A i \in 1..Len(s) : Append(s, p)[i] = s[i]
           /\ Append(s, p) = s \o <<p>> /\ Range(Append(s, p)) = Range(s) \union {p}
<1>1. /\ Append(s, p) \in Seq(Proposals) /\ Len(Append(s, p)) = Len(s) + 1 /\ Len(s) \in Nat
      /\ Append(s, p)[Len(s) + 1] = p /\ \A i \in 1..Len(s) : Append(s, p)[i] = s[i]
    OBVIOUS
<1>2. Append(s, p) = s \o <<p>>
    OBVIOUS
<1>3. ASSUME NEW x PROVE x \in Range(Append(s, p)) <=> x \in Range(s) \/ x = p
  <2>1. x \in Range(Append(s, p)) <=> \E i \in 1..(Len(s) + 1) : x = Append(s, p)[i]
      BY <1>1, Elements
  <2>2. x \in Range(s) <=> \E i \in 1..Len(s) : x = s[i]
      BY Elements
  <2>3. Len(s) + 1 \in 1..(Len(s) + 1) /\ \A i \in 1..(Len(s) + 1) : i \in 1..Len(s) \/ i = Len(s) + 1
      BY <1>1
  <2>4. \A i \in 1..Len(s) : i \in 1..(Len(s) + 1)
      BY <1>1
  <2> QED
      BY <1>1, <2>1, <2>2, <2>3, <2>4
<1> QED
    BY <1>1, <1>2, <1>3

\* The order grows at its end.
LEMMA OrderAppend ==
    ASSUME NEW s \in Seq(Proposals), NEW p \in Proposals
    PROVE  /\ SentBefore(s) \subseteq SentBefore(Append(s, p))
           /\ \A x \in Range(s) : <<x, p>> \in SentBefore(Append(s, p))
<1> DEFINE t == Append(s, p)
<1>1. /\ Len(t) = Len(s) + 1 /\ Len(s) \in Nat /\ t[Len(s) + 1] = p
      /\ \A i \in 1..Len(s) : t[i] = s[i]
    BY Appended
<1> HIDE DEF t
<1>2. ASSUME NEW x \in SentBefore(s) PROVE x \in SentBefore(t)
  <2>1. x \in Proposals \X Proposals /\ Before(s, x[1], x[2])
      BY DEF SentBefore
  <2>2. PICK i \in 1..Len(s), j \in 1..Len(s) : i < j /\ s[i] = x[1] /\ s[j] = x[2]
      BY <2>1 DEF Before
  <2>3. i \in 1..Len(t) /\ j \in 1..Len(t) /\ t[i] = x[1] /\ t[j] = x[2]
      BY <1>1, <2>2
  <2> QED
      BY <2>1, <2>2, <2>3 DEF SentBefore, Before
<1>3. ASSUME NEW x \in Range(s) PROVE <<x, p>> \in SentBefore(t)
  <2>1. PICK i \in 1..Len(s) : x = s[i]
      BY Elements
  <2>2. x \in Proposals
      BY Elements
  <2>3. i \in 1..Len(t) /\ Len(s) + 1 \in 1..Len(t) /\ i < Len(s) + 1 /\ t[i] = x
      BY <1>1, <2>1
  <2>4. Before(t, x, p)
      BY <1>1, <2>3 DEF Before
  <2> QED
      BY <2>2, <2>4, OrderIs
<1> QED
    BY <1>2, <1>3 DEF t

\* A chain stays one with a last element that all others are before.
LEMMA ChainAppend ==
    ASSUME NEW B, NEW s \in Seq(Proposals), NEW p \in Proposals, Chain(s, B),
           \A x \in Range(s) : <<x, p>> \in B
    PROVE  Chain(Append(s, p), B)
<1> DEFINE t == Append(s, p)
<1>1. /\ Len(t) = Len(s) + 1 /\ Len(s) \in Nat /\ t[Len(s) + 1] = p
      /\ \A i \in 1..Len(s) : t[i] = s[i]
    BY Appended
<1>2. \A i \in 1..Len(s) : s[i] \in Range(s)
    BY Elements
<1> HIDE DEF t
<1>3. ASSUME NEW i \in 1..Len(t), NEW j \in 1..Len(t), i < j PROVE <<t[i], t[j]>> \in B
  <2>1. i \in 1..Len(s) /\ t[i] = s[i]
      BY <1>1, <1>3
  <2>2. CASE j = Len(s) + 1
      BY <1>1, <1>2, <2>1, <2>2
  <2>3. CASE j \in 1..Len(s)
      BY <1>1, <1>3, <2>1, <2>3 DEF Chain
  <2> QED
      BY <1>1, <2>2, <2>3
<1> QED
    BY <1>3 DEF Chain, t

\* A longer order keeps a chain.
LEMMA ChainMono ==
    ASSUME NEW B, NEW C, B \subseteq C, NEW s, Chain(s, B)
    PROVE  Chain(s, C)
    BY DEF Chain
=============================================================================
