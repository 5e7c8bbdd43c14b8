--------------------------- MODULE RedTeam_proofs ---------------------------
(***************************************************************************)
(* Proofs about RedTeamCampaign, for any number of rounds, tokens, worker  *)
(* slots, requests and faults: what the attempts of an attack run may do   *)
(* (Shape), how they, the workflow and the row agree (Ledger), and, for    *)
(* the two attempts the workflow allows, what a resumed campaign knows of  *)
(* the rounds its predecessor left (Campaign).                             *)
(***************************************************************************)
EXTENDS RedTeamCampaign, SequenceTheorems, Induction

-----------------------------------------------------------------------------
(* Operators on rounds.                                                    *)

\* The numbers of the durable rounds, and those up to n.
Present == {n \in 1 .. MaxRounds : durable[n] # NoRound}
PresentTo(n) == Present \cap 1 .. n

\* q is what RoundsUpTo[n] is meant to be: the durable rounds up to n, each
\* once, in the order of their numbers.
OrderedRounds(q, n) ==
  /\ q \in Seq(Rounds) /\ Len(q) = Cardinality(PresentTo(n))
  /\ \A i \in 1 .. Len(q) :
       /\ q[i].number \in PresentTo(n)
       /\ q[i] = [number |-> q[i].number, kind |-> durable[q[i].number]]
  /\ \A i, j \in 1 .. Len(q) : i < j => q[i].number < q[j].number
  /\ \A m \in PresentTo(n) : \E i \in 1 .. Len(q) : q[i].number = m

LEMMA RoundsUpToDefined ==
  ASSUME durable \in [1 .. MaxRounds -> AllRoundKinds \cup {NoRound}]
  PROVE  /\ RoundsUpTo[0] = <<>>
         /\ \A n \in 1 .. MaxRounds :
              RoundsUpTo[n] =
                IF durable[n] = NoRound THEN RoundsUpTo[n - 1]
                ELSE Append(RoundsUpTo[n - 1], [number |-> n, kind |-> durable[n]])
<1> DEFINE step == [n \in 1 .. MaxRounds |-> [q \in Seq(Rounds) |->
                      IF durable[n] = NoRound THEN q
                      ELSE Append(q, [number |-> n, kind |-> durable[n]])]]
           Def(g) == [n \in 0 .. MaxRounds |->
                        IF n = 0 THEN <<>>
                        ELSE IF durable[n] = NoRound THEN g[n - 1]
                        ELSE Append(g[n - 1], [number |-> n, kind |-> durable[n]])]
<1>1. MaxRounds \in Nat /\ <<>> \in Seq(Rounds)
  BY RedTeamCampaignAssumption
<1>2. step \in [1 .. MaxRounds -> [Seq(Rounds) -> Seq(Rounds)]]
  <2>1. ASSUME NEW n \in 1 .. MaxRounds, NEW q \in Seq(Rounds), durable[n] # NoRound
        PROVE  Append(q, [number |-> n, kind |-> durable[n]]) \in Seq(Rounds)
    <3>1. [number |-> n, kind |-> durable[n]] \in Rounds
      BY <2>1 DEF Rounds
    <3> QED
      BY <3>1, AppendProperties
  <2> QED
    BY <2>1
<1>3. PICK f \in [0 .. MaxRounds -> Seq(Rounds)] :
        f[0] = <<>> /\ \A n \in 1 .. MaxRounds : f[n] = step[n][f[n - 1]]
  <2>1. Recursion(MaxRounds, Seq(Rounds), <<>>, step)
    <3> HIDE DEF step
    <3>1. MaxRounds \in Nat
      BY <1>1
    <3> QED
      BY <1>1, <1>2, <3>1, IntervalRecursion
  <2> HIDE DEF step
  <2> QED
    BY <2>1 DEF Recursion
<1>4. f = Def(f)
  <2>1. ASSUME NEW n \in 1 .. MaxRounds
        PROVE  f[n] = IF durable[n] = NoRound THEN f[n - 1]
                      ELSE Append(f[n - 1], [number |-> n, kind |-> durable[n]])
    <3>1. f[n - 1] \in Seq(Rounds)
      BY <1>1
    <3> QED
      BY <1>3, <3>1
  <2>2. ASSUME NEW n \in 0 .. MaxRounds
        PROVE  f[n] = IF n = 0 THEN <<>>
                      ELSE IF durable[n] = NoRound THEN f[n - 1]
                      ELSE Append(f[n - 1], [number |-> n, kind |-> durable[n]])
    <3>1. CASE n = 0
      BY <3>1, <1>3
    <3>2. CASE n # 0
      <4>1. n \in 1 .. MaxRounds
        BY <1>1, <3>2
      <4> QED
        BY <3>2, <4>1, <2>1
    <3> QED
      BY <3>1, <3>2
  <2>3. DOMAIN f = 0 .. MaxRounds /\ f = [n \in 0 .. MaxRounds |-> f[n]]
    OBVIOUS
  <2> QED
    BY <2>2, <2>3, Zenon
<1>5. RoundsUpTo = Def(RoundsUpTo)
  <2>1. RoundsUpTo = CHOOSE g : g = Def(g)
    BY DEF RoundsUpTo
  <2> HIDE DEF Def
  <2> QED
    BY <1>4, <2>1
<1>6. 0 \in 0 .. MaxRounds /\ \A n \in 1 .. MaxRounds : n \in 0 .. MaxRounds /\ n # 0
  BY <1>1
<1> QED
  BY <1>5, <1>6

LEMMA PresentFinite ==
  ASSUME NEW n \in 0 .. MaxRounds
  PROVE  /\ IsFiniteSet(PresentTo(n)) /\ Cardinality(PresentTo(n)) \in Nat
         /\ Cardinality(PresentTo(n)) <= n
         /\ PresentTo(n) \subseteq 1 .. n
<1>1. MaxRounds \in Nat /\ n \in Nat
  BY RedTeamCampaignAssumption
<1>2. IsFiniteSet(1 .. n) /\ Cardinality(1 .. n) = n
  BY <1>1, FS_Interval
<1>3. PresentTo(n) \in SUBSET (1 .. n)
  BY DEF PresentTo
<1> QED
  BY <1>2, <1>3, FS_Subset, FS_CardinalityType

LEMMA RoundsUpToOrdered ==
  ASSUME durable \in [1 .. MaxRounds -> AllRoundKinds \cup {NoRound}]
  PROVE  \A n \in 0 .. MaxRounds : OrderedRounds(RoundsUpTo[n], n)
<1> DEFINE S == {n \in 0 .. MaxRounds : OrderedRounds(RoundsUpTo[n], n)}
<1>1. MaxRounds \in Nat
  BY RedTeamCampaignAssumption
<1>2. 0 \in S
  <2>1. PresentTo(0) = {} /\ 0 \in 0 .. MaxRounds
    BY <1>1 DEF PresentTo
  <2>2. Cardinality(PresentTo(0)) = 0
    BY <2>1, FS_EmptySet
  <2>3. RoundsUpTo[0] = <<>>
    BY RoundsUpToDefined
  <2>4. <<>> \in Seq(Rounds) /\ Len(<<>>) = 0
    BY EmptySeq
  <2>5. OrderedRounds(<<>>, 0)
    <3>1. \A i \in 1 .. 0 : FALSE
      OBVIOUS
    <3> QED
      BY <2>1, <2>2, <2>4, <3>1 DEF OrderedRounds
  <2> QED
    BY <2>1, <2>3, <2>5
<1>3. ASSUME NEW n \in 1 .. MaxRounds, n - 1 \in S PROVE n \in S
  <2> DEFINE q == RoundsUpTo[n - 1]
             r == [number |-> n, kind |-> durable[n]]
  <2>1. n \in 0 .. MaxRounds /\ n - 1 \in 0 .. MaxRounds /\ n \in Nat
    BY <1>1
  <2>2. OrderedRounds(q, n - 1)
    BY <1>3
  <2>3. RoundsUpTo[n] = IF durable[n] = NoRound THEN q ELSE Append(q, r)
    BY RoundsUpToDefined
  <2>4. CASE durable[n] = NoRound
    <3>1. PresentTo(n) = PresentTo(n - 1)
      BY <1>1, <2>4 DEF PresentTo, Present
    <3> QED
      BY <2>1, <2>2, <2>3, <2>4, <3>1 DEF OrderedRounds
  <2>5. CASE durable[n] # NoRound
    <3>1. /\ PresentTo(n) = PresentTo(n - 1) \cup {n}
          /\ n \notin PresentTo(n - 1)
          /\ \A m \in PresentTo(n - 1) : m < n
      BY <1>1, <2>5 DEF PresentTo, Present
    <3>2. Cardinality(PresentTo(n)) = Cardinality(PresentTo(n - 1)) + 1
      BY <2>1, <3>1, PresentFinite, FS_AddElement
    <3>3. r \in Rounds
      BY <2>5 DEF Rounds
    <3>4. q \in Seq(Rounds)
      BY <2>2 DEF OrderedRounds
    <3> DEFINE p == Append(q, r)
    <3>5. /\ p \in Seq(Rounds) /\ Len(p) = Len(q) + 1 /\ Len(q) \in Nat
          /\ \A i \in 1 .. Len(q) : p[i] = q[i]
          /\ p[Len(q) + 1] = r
      BY <3>3, <3>4, AppendProperties, LenProperties
    <3> HIDE DEF p, q
    <3>6. /\ p \in Seq(Rounds) /\ Len(p) = Cardinality(PresentTo(n))
      BY <2>2, <3>2, <3>5 DEF OrderedRounds
    <3>7. ASSUME NEW i \in 1 .. Len(p)
          PROVE  p[i].number \in PresentTo(n)
                 /\ p[i] = [number |-> p[i].number, kind |-> durable[p[i].number]]
      BY <2>2, <3>1, <3>5 DEF OrderedRounds
    <3>8. ASSUME NEW i \in 1 .. Len(p), NEW j \in 1 .. Len(p), i < j
          PROVE  p[i].number < p[j].number
      <4>1. i \in 1 .. Len(q) /\ p[i] = q[i] /\ q[i].number \in PresentTo(n - 1)
        BY <2>2, <3>5, <3>8 DEF OrderedRounds
      <4>2. CASE j = Len(q) + 1
        BY <3>1, <3>5, <4>1, <4>2
      <4>3. CASE j # Len(q) + 1
        <5>1. j \in 1 .. Len(q) /\ p[j] = q[j]
          BY <3>5, <4>3
        <5> QED
          BY <2>2, <3>8, <4>1, <5>1 DEF OrderedRounds
      <4> QED
        BY <4>2, <4>3
    <3>9. ASSUME NEW m \in PresentTo(n) PROVE \E i \in 1 .. Len(p) : p[i].number = m
      <4>1. CASE m = n
        <5>1. Len(q) + 1 \in 1 .. Len(p) /\ p[Len(q) + 1].number = n
          BY <3>5
        <5> QED
          BY <4>1, <5>1
      <4>2. CASE m # n
        <5>1. PICK i \in 1 .. Len(q) : q[i].number = m
          BY <2>2, <3>1, <4>2 DEF OrderedRounds
        <5>2. i \in 1 .. Len(p) /\ p[i] = q[i]
          BY <3>5
        <5> QED
          BY <5>1, <5>2
      <4> QED
        BY <4>1, <4>2
    <3>10. OrderedRounds(p, n)
      BY <3>6, <3>7, <3>8, <3>9 DEF OrderedRounds
    <3> QED
      BY <2>1, <2>3, <2>5, <3>10 DEF p
  <2> QED
    BY <2>4, <2>5
<1>4. \A n \in 0 .. MaxRounds : n \in S
  <2> HIDE DEF S
  <2> QED
    BY <1>1, <1>2, <1>3, IntervalBySuccessor
<1> QED
  BY <1>4

(* What the durable rounds are, as a sequence.                             *)
LEMMA DurableRoundsOrdered ==
  ASSUME durable \in [1 .. MaxRounds -> AllRoundKinds \cup {NoRound}]
  PROVE  /\ DurableRounds \in Seq(Rounds)
         /\ Len(DurableRounds) = Cardinality(Present) /\ Len(DurableRounds) <= MaxRounds
         /\ \A i \in 1 .. Len(DurableRounds) :
              LET m == DurableRounds[i].number
              IN  m \in Present /\ DurableRounds[i] = [number |-> m, kind |-> durable[m]]
         /\ \A i, j \in 1 .. Len(DurableRounds) :
              i < j => DurableRounds[i].number < DurableRounds[j].number
         /\ \A m \in Present : \E i \in 1 .. Len(DurableRounds) : DurableRounds[i].number = m
<1>1. MaxRounds \in Nat /\ MaxRounds \in 0 .. MaxRounds
  BY RedTeamCampaignAssumption
<1>2. OrderedRounds(DurableRounds, MaxRounds)
  BY <1>1, RoundsUpToOrdered DEF DurableRounds
<1>3. PresentTo(MaxRounds) = Present
  BY DEF PresentTo, Present
<1>4. Cardinality(Present) <= MaxRounds
  BY <1>1, <1>3, PresentFinite
<1> QED
  BY <1>2, <1>3, <1>4 DEF OrderedRounds

(* Rounds of some kinds are among the rounds.                              *)
LEMMA OfKindFinite ==
  ASSUME NEW q \in Seq(Rounds), NEW kinds
  PROVE  /\ OfKind(q, kinds) \subseteq 1 .. Len(q)
         /\ IsFiniteSet(OfKind(q, kinds)) /\ Cardinality(OfKind(q, kinds)) \in Nat
         /\ Cardinality(OfKind(q, kinds)) <= Len(q)
<1>1. Len(q) \in Nat /\ DOMAIN q = 1 .. Len(q)
  BY LenProperties
<1>2. IsFiniteSet(1 .. Len(q)) /\ Cardinality(1 .. Len(q)) = Len(q)
  BY <1>1, FS_Interval
<1>3. OfKind(q, kinds) \in SUBSET (1 .. Len(q))
  BY <1>1 DEF OfKind
<1> QED
  BY <1>2, <1>3, FS_Subset, FS_CardinalityType

\* f adds up what the rounds of q use.
Adds(f, q) ==
  /\ f \in [0 .. Len(q) -> Nat]
  /\ f[0] = 0 /\ \A i \in 1 .. Len(q) : f[i] = f[i - 1] + TokensUsed(q[i])

LEMMA TokensUsedType ==
  ASSUME NEW r \in Rounds
  PROVE  TokensUsed(r) \in 0 .. DearestCall /\ TokensUsed(r) \in Nat
<1>1. CASE r.kind = "error"
  BY <1>1, RedTeamCampaignAssumption DEF TokensUsed
<1>2. CASE r.kind # "error"
  <2>1. r.number \in 1 .. MaxRounds /\ r.kind \in AnsweredKinds
    BY <1>2 DEF Rounds, AnsweredKinds
  <2>2. CallTokens[r.number][r.kind] \in 0 .. DearestCall
    BY <2>1, RedTeamCampaignAssumption
  <2> QED
    BY <1>2, <2>2, RedTeamCampaignAssumption DEF TokensUsed
<1> QED
  BY <1>1, <1>2

LEMMA TokensAddedUp ==
  ASSUME NEW q \in Seq(Rounds)
  PROVE  \E f : Adds(f, q) /\ TokensOf(q) = f[Len(q)]
<1> DEFINE L == Len(q)
           step == [i \in 1 .. L |-> [v \in Nat |-> v + TokensUsed(q[i])]]
           Def(g) == [i \in 0 .. L |-> IF i = 0 THEN 0 ELSE g[i - 1] + TokensUsed(q[i])]
<1>1. L \in Nat /\ \A i \in 1 .. L : TokensUsed(q[i]) \in Nat
  BY LenProperties, TokensUsedType
<1>2. PICK f \in [0 .. L -> Nat] :
        f[0] = 0 /\ \A i \in 1 .. L : f[i] = step[i][f[i - 1]]
  <2>1. step \in [1 .. L -> [Nat -> Nat]]
    BY <1>1
  <2>2. Recursion(L, Nat, 0, step)
    <3> HIDE DEF step, L
    <3> QED
      BY <1>1, <2>1, IntervalRecursion
  <2> HIDE DEF step, L
  <2> QED
    BY <2>2 DEF Recursion
<1>3. \A i \in 1 .. L : f[i] = f[i - 1] + TokensUsed(q[i])
  <2> SUFFICES ASSUME NEW i \in 1 .. L PROVE f[i] = f[i - 1] + TokensUsed(q[i])
    OBVIOUS
  <2>1. i - 1 \in 0 .. L
    BY <1>1
  <2>2. f[i - 1] \in Nat
    BY <1>2, <2>1
  <2> QED
    BY <1>2, <2>2
<1> HIDE DEF step
<1>4. f = Def(f)
  <2>1. \A i \in 0 .. L : f[i] = IF i = 0 THEN 0 ELSE f[i - 1] + TokensUsed(q[i])
    BY <1>1, <1>2, <1>3
  <2>2. f = [i \in 0 .. L |-> f[i]]
    BY <1>2
  <2> QED
    BY <2>1, <2>2, Zenon
<1>5. PICK g : g = Def(g) /\ TokensOf(q) = g[L]
  <2>1. TokensOf(q) = (CHOOSE g : g = Def(g))[L]
    BY DEF TokensOf
  <2> HIDE DEF Def
  <2> QED
    BY <1>4, <2>1
<1>6. g[0] = 0 /\ \A i \in 1 .. L : g[i] = g[i - 1] + TokensUsed(q[i])
  <2>1. 0 \in 0 .. L /\ \A i \in 1 .. L : i \in 0 .. L /\ i # 0
    BY <1>1
  <2> HIDE DEF L
  <2> QED
    BY <1>5, <2>1
<1>7. \A i \in 0 .. L : i \in {j \in 0 .. L : g[j] = f[j]}
  <2>1. 0 \in {j \in 0 .. L : g[j] = f[j]}
    BY <1>1, <1>2, <1>6
  <2>2. ASSUME NEW i \in 1 .. L, i - 1 \in {j \in 0 .. L : g[j] = f[j]}
        PROVE  i \in {j \in 0 .. L : g[j] = f[j]}
    BY <1>1, <1>3, <1>6, <2>2
  <2> HIDE DEF L, Def
  <2> QED
    BY <1>1, <2>1, <2>2, IntervalBySuccessor
<1>8. TokensOf(q) = f[L]
  BY <1>1, <1>5, <1>7
<1> QED
  BY <1>2, <1>3, <1>8 DEF Adds

\* Two functions that grow alike are alike.
LEMMA SumsAgree ==
  ASSUME NEW N \in Nat, NEW f, NEW g, f[0] = g[0],
         \A i \in 1 .. N : f[i - 1] = g[i - 1] => f[i] = g[i]
  PROVE  f[N] = g[N]
<1> DEFINE S == {i \in 0 .. N : f[i] = g[i]}
<1>1. 0 \in S /\ \A i \in 1 .. N : i - 1 \in S => i \in S
  OBVIOUS
<1>2. \A i \in 0 .. N : i \in S
  <2> HIDE DEF S
  <2> QED
    BY <1>1, IntervalBySuccessor
<1> QED
  BY <1>2

LEMMA TokensOfType ==
  ASSUME NEW q \in Seq(Rounds)
  PROVE  TokensOf(q) \in Nat
<1>1. PICK f : Adds(f, q) /\ TokensOf(q) = f[Len(q)]
  BY TokensAddedUp
<1>2. Len(q) \in 0 .. Len(q)
  BY LenProperties
<1> QED
  BY <1>1, <1>2 DEF Adds

LEMMA TokensOfEmpty == TokensOf(<<>>) = 0
<1>1. <<>> \in Seq(Rounds) /\ Len(<<>>) = 0
  BY EmptySeq
<1>2. PICK f : Adds(f, <<>>) /\ TokensOf(<<>>) = f[Len(<<>>)]
  BY <1>1, TokensAddedUp
<1> QED
  BY <1>1, <1>2 DEF Adds

(* One more round costs what its call used.                                *)
LEMMA TokensOfAppend ==
  ASSUME NEW q \in Seq(Rounds), NEW r \in Rounds
  PROVE  TokensOf(Append(q, r)) = TokensOf(q) + TokensUsed(r)
<1> DEFINE p == Append(q, r)
<1>1. /\ p \in Seq(Rounds) /\ Len(p) = Len(q) + 1 /\ Len(q) \in Nat
      /\ \A i \in 1 .. Len(q) : p[i] = q[i]
      /\ p[Len(q) + 1] = r
  BY AppendProperties, LenProperties
<1> HIDE DEF p
<1>2. PICK f : Adds(f, q) /\ TokensOf(q) = f[Len(q)]
  BY TokensAddedUp
<1>3. PICK g : Adds(g, p) /\ TokensOf(p) = g[Len(p)]
  BY <1>1, TokensAddedUp
<1>4. f[0] = g[0] /\ \A i \in 1 .. Len(q) : f[i - 1] = g[i - 1] => f[i] = g[i]
  <2>1. ASSUME NEW i \in 1 .. Len(q), f[i - 1] = g[i - 1] PROVE f[i] = g[i]
    <3>1. i \in 1 .. Len(p) /\ p[i] = q[i]
      BY <1>1
    <3> QED
      BY <1>2, <1>3, <2>1, <3>1 DEF Adds
  <2> QED
    BY <1>2, <1>3, <2>1 DEF Adds
<1>5. f[Len(q)] = g[Len(q)]
  BY <1>1, <1>4, SumsAgree
<1>6. g[Len(q) + 1] = g[Len(q)] + TokensUsed(r)
  <2>1. Len(q) + 1 \in 1 .. Len(p) /\ (Len(q) + 1) - 1 = Len(q)
    BY <1>1
  <2>2. g[Len(q) + 1] = g[(Len(q) + 1) - 1] + TokensUsed(p[Len(q) + 1])
    BY <1>3, <2>1 DEF Adds
  <2> QED
    BY <1>1, <2>1, <2>2
<1> QED
  BY <1>1, <1>2, <1>3, <1>5, <1>6 DEF p

\* What a campaign may have used: nothing, or less than its budget before the
\* last call.
WithinReach(tokens) == tokens = 0 \/ tokens < MaxTokens + DearestCall

\* What the durable round of number n uses.
Cost(d, n) == IF d[n] = NoRound THEN 0 ELSE TokensUsed([number |-> n, kind |-> d[n]])

\* What is durable in d is within reach; g adds it up.
AddsUp(g, d) ==
  /\ g \in [0 .. MaxRounds -> Nat]
  /\ g[0] = 0 /\ \A n \in 1 .. MaxRounds : g[n] = g[n - 1] + Cost(d, n)

Affordable(d) == \E g : AddsUp(g, d) /\ WithinReach(g[MaxRounds])

(* The tokens of the durable rounds are the costs of their numbers.        *)
LEMMA DurableCosts ==
  ASSUME durable \in [1 .. MaxRounds -> AllRoundKinds \cup {NoRound}]
  PROVE  AddsUp([n \in 0 .. MaxRounds |-> TokensOf(RoundsUpTo[n])], durable)
<1> DEFINE g == [n \in 0 .. MaxRounds |-> TokensOf(RoundsUpTo[n])]
<1>1. MaxRounds \in Nat
  BY RedTeamCampaignAssumption
<1>2. \A n \in 0 .. MaxRounds : RoundsUpTo[n] \in Seq(Rounds)
  BY RoundsUpToOrdered DEF OrderedRounds
<1>3. g \in [0 .. MaxRounds -> Nat]
  BY <1>2, TokensOfType
<1>4. g[0] = 0
  BY <1>1, RoundsUpToDefined, TokensOfEmpty
<1>5. ASSUME NEW n \in 1 .. MaxRounds PROVE g[n] = g[n - 1] + Cost(durable, n)
  <2> DEFINE r == [number |-> n, kind |-> durable[n]]
  <2>1. n \in 0 .. MaxRounds /\ n - 1 \in 0 .. MaxRounds
    BY <1>1
  <2>2. g[n] = TokensOf(RoundsUpTo[n]) /\ g[n - 1] = TokensOf(RoundsUpTo[n - 1])
    BY <2>1
  <2>3. RoundsUpTo[n - 1] \in Seq(Rounds) /\ g[n - 1] \in Nat
    BY <1>2, <1>3, <2>1
  <2> HIDE DEF g
  <2>4. RoundsUpTo[n] = IF durable[n] = NoRound THEN RoundsUpTo[n - 1]
                        ELSE Append(RoundsUpTo[n - 1], r)
    BY RoundsUpToDefined
  <2>5. CASE durable[n] = NoRound
    BY <2>2, <2>3, <2>4, <2>5 DEF Cost
  <2>6. CASE durable[n] # NoRound
    <3>1. r \in Rounds
      BY <2>6 DEF Rounds
    <3>2. TokensOf(Append(RoundsUpTo[n - 1], r)) = TokensOf(RoundsUpTo[n - 1]) + TokensUsed(r)
      BY <2>3, <3>1, TokensOfAppend
    <3> QED
      BY <2>2, <2>4, <2>6, <3>2 DEF Cost
  <2> QED
    BY <2>5, <2>6
<1> HIDE DEF g
<1>6. AddsUp(g, durable)
  BY <1>3, <1>4, <1>5 DEF AddsUp
<1> QED
  BY <1>6 DEF g

LEMMA DurableAffordable ==
  ASSUME durable \in [1 .. MaxRounds -> AllRoundKinds \cup {NoRound}]
  PROVE  Affordable(durable) <=> WithinReach(TokensOf(DurableRounds))
<1> DEFINE g == [n \in 0 .. MaxRounds |-> TokensOf(RoundsUpTo[n])]
<1>1. MaxRounds \in Nat /\ MaxRounds \in 0 .. MaxRounds
  BY RedTeamCampaignAssumption
<1>2. AddsUp(g, durable)
  BY DurableCosts
<1>3. g[MaxRounds] = TokensOf(DurableRounds)
  BY <1>1 DEF DurableRounds
<1> HIDE DEF g
<1>4. ASSUME NEW f, AddsUp(f, durable) PROVE f[MaxRounds] = g[MaxRounds]
  <2>1. f[0] = g[0] /\ \A n \in 1 .. MaxRounds : f[n - 1] = g[n - 1] => f[n] = g[n]
    BY <1>2, <1>4 DEF AddsUp
  <2> QED
    BY <1>1, <2>1, SumsAgree
<1> QED
  BY <1>2, <1>3, <1>4, Zenon DEF Affordable

(* The replay keeps a prefix of the rounds, and all of them if none but    *)
(* the last is a hit.                                                      *)
LEMMA ReplayedPrefix ==
  ASSUME NEW q \in Seq(Rounds)
  PROVE  /\ Replayed(q) \in Seq(Rounds) /\ Len(Replayed(q)) <= Len(q)
         /\ (\A i \in 1 .. Len(q) : q[i].kind = "hit" => i = Len(q)) => Replayed(q) = q
<1> DEFINE H == OfKind(q, {"hit"})
           Least(i) == \A j \in H : i <= j
           first == CHOOSE i \in H : Least(i)
<1>1. Len(q) \in Nat /\ DOMAIN q = 1 .. Len(q) /\ q \in [1 .. Len(q) -> Rounds]
  BY LenProperties
<1>2. CASE H = {}
  <2>1. Replayed(q) = q
    BY <1>2 DEF Replayed
  <2> QED
    BY <1>1, <2>1
<1>3. CASE H # {}
  <2>1. H \in SUBSET Nat /\ H \subseteq 1 .. Len(q)
    BY <1>1 DEF OfKind
  <2>2. \E i \in H : Least(i)
    <3> HIDE DEF H
    <3> QED
      BY <1>3, <2>1, LeastNatural
  <2>3. first \in H
    <3> HIDE DEF H, Least
    <3> QED
      BY <2>2
  <2>4. Replayed(q) = SubSeq(q, 1, first)
    BY <1>3 DEF Replayed
  <2> HIDE DEF first
  <2>5. first \in 1 .. Len(q)
    BY <2>1, <2>3
  <2>6. /\ SubSeq(q, 1, first) \in Seq(Rounds)
        /\ Len(SubSeq(q, 1, first)) = first
    <3>1. \A i \in 1 .. first : q[i] \in Rounds
      BY <1>1, <2>5
    <3>2. 1 \in Int /\ first \in Int /\ 1 <= first
      BY <2>5
    <3>3. first - 1 + 1 = first
      BY <2>5
    <3> QED
      BY <3>1, <3>2, <3>3, SubSeqProperties
  <2>7. ASSUME \A i \in 1 .. Len(q) : q[i].kind = "hit" => i = Len(q)
        PROVE  Replayed(q) = q
    <3>1. first = Len(q)
      BY <2>3, <2>5, <2>7 DEF OfKind
    <3> QED
      BY <2>4, <3>1, SubSeqFull
  <2>8. first <= Len(q)
    BY <1>1, <2>5
  <2> HIDE DEF Least
  <2> QED
    BY <2>4, <2>6, <2>7, <2>8, Zenon
<1> QED
  BY <1>2, <1>3

-----------------------------------------------------------------------------
(* The inductive invariant, in layers: each is proved from those above it.  *)

Campaigning == {"running", "executed", "upserting"}
Resulting == {"finished", "persisted", "finalizing"}

\* What an attempt looks like at each of its stages.
ShapeOf(p) ==
  /\ p \in Attempts
  /\ p.stage = "idle" => p = Idle
  /\ p.stage \in {"new", "loading"} => p.rounds = <<>> /\ p.kind = NoRound
  /\ Len(p.rounds) <= MaxRounds
  /\ p.stage \in {"executed", "upserting"} =>
       /\ p.kind # NoRound /\ Len(p.rounds) < MaxRounds /\ TokensOf(p.rounds) < MaxTokens
  /\ p.stage = "upserting" => p.kind # "error"
  /\ p.stage \in Resulting \cup {"marking", "returning"} => p.state # NoRound
  /\ p.stage \notin {"finalizing", "marking"} => p.base = NewRun /\ p.run = NewRun

Shape ==
  /\ TypeOK
  /\ \A s \in Slots : ShapeOf(proc[s])
  /\ \A n \in 1 .. MaxRounds : durable[n] # "error"

\* A run that has left "created" and "queued" never returns to them.
Started == {"running"} \cup TerminalStatuses

\* What the runs are that attempts and requests have loaded and changed.
LoadedOf(p) ==
  /\ p.stage = "finalizing" => p.base.status \in Started /\ p.run = Finalized(p, p.base)
  /\ p.stage = "marking" => p.base.status = "running" /\ p.run = Apply("fail", p.base)

RequestOf(r) ==
  /\ r.stage = "loaded" => /\ r.op \in Operations /\ CanApply(r.op, r.base)
                           /\ r.run = Apply(r.op, r.base)
  /\ r.stage = "undone" => CanApply("fail", r.base) /\ r.run = Apply("fail", r.base)
  /\ r.stage \notin {"loaded", "undone"} => r.base = NewRun /\ r.run = NewRun

Standing ==
  /\ \A s \in Slots : LoadedOf(proc[s])
  /\ \A q \in Requests : RequestOf(req[q])
  /\ \A s \in Slots : proc[s].stage # "idle" => wf.pc # "none"
  /\ wf.pc # "none" \/ (\E q \in Requests : req[q].op = "start" /\ req[q].stage = "committed")
       => row.status \in Started

\* Unless a start request reopened the run, a terminal status is not lost again,
\* and whoever has seen one acts on it.
Stands(p, run) ==
  /\ p.stage = "loading" /\ p.status \in TerminalStatuses => IsTerminal(run)
  /\ p.stage = "finalizing" /\ IsTerminal(p.base) => IsTerminal(run)
  /\ p.stage = "returning" => IsTerminal(run)
  /\ p.late => /\ IsTerminal(run)
               /\ p.stage = "loading" => p.status \in TerminalStatuses
               /\ p.stage \notin Campaigning

Settled ==
  ~reopened =>
    /\ \A s \in Slots : Stands(proc[s], row)
    /\ wf.pc \in {"completed", "failed"} => IsTerminal(row)

\* Attempts follow one another.
Unique ==
  /\ ~overlapped => \A s, t \in Slots :
       proc[s].stage # "idle" /\ proc[t].stage # "idle" => s = t
  /\ wf.pc = "running" => proc[cur].stage # "idle"

\* The counters of a run, which finalization raises once.
Uncounted(run) == run.done = 0 /\ run.failed = 0
Bounded(run) == run.failed <= run.done /\ run.done <= MaxRounds
Sound(run, r) == Bounded(run) /\ (Uncounted(run) \/ IsTerminal(r))

Counted ==
  ~overlapped /\ ~reopened =>
    /\ Sound(row, row)
    /\ \A q \in Requests : Sound(req[q].base, row) /\ Sound(req[q].run, row)
    /\ \A s \in Slots :
         /\ proc[s].stage \in {"finalizing", "marking"} => Sound(proc[s].base, row)
         /\ proc[s].stage = "finalizing" /\ proc[s].base.status = "running" =>
              /\ Uncounted(proc[s].base) /\ Uncounted(row)
              /\ \A q \in Requests : Uncounted(req[q].base) /\ Uncounted(req[q].run)

\* While the first attempt runs, what is durable is the campaign's rounds less
\* the failed ones, each at its own number, and nothing follows a hit.
FirstAttempt(p, d) ==
  /\ \A n \in 1 .. MaxRounds :
       d[n] # NoRound => n <= Len(p.rounds) /\ p.rounds[n].kind = d[n]
  /\ \A i \in 1 .. Len(p.rounds) :
       /\ p.rounds[i].number = i
       /\ p.rounds[i].kind = "hit" => i = Len(p.rounds) /\ p.stage \notin Campaigning

NothingAfterHit(d) ==
  \A n, m \in 1 .. MaxRounds : d[n] = "hit" /\ n < m => d[m] = NoRound

Holds(rounds, d) ==
  \A n \in 1 .. MaxRounds : d[n] # NoRound =>
    \E i \in 1 .. Len(rounds) : rounds[i] = [number |-> n, kind |-> d[n]]

\* A durable round ahead of the campaign has a gap before it that the campaign
\* has passed.
Ahead(p, d) ==
  \A n \in 1 .. MaxRounds : d[n] # NoRound /\ n > Len(p.rounds) =>
    \E m \in 1 .. Len(p.rounds) : d[m] = NoRound

Resumed ==
  ~overlapped /\ ~reopened =>
    /\ wf.pc = "none" => Present = {} /\ wf.attempt = 1
    /\ \A s \in Slots : proc[s].stage # "idle" =>
         /\ wf.attempt = 1 => FirstAttempt(proc[s], durable)
         /\ wf.attempt # 1 /\ proc[s].stage \in {"new", "loading"} =>
              NothingAfterHit(durable) /\ Affordable(durable)
         /\ WithinReach(TokensOf(proc[s].rounds))
         /\ proc[s].stage \in Campaigning \cup Resulting => Holds(proc[s].rounds, durable)
         /\ proc[s].stage \in Campaigning => Ahead(proc[s], durable)

\* Results are given when the campaign is over, and hold what is durable.
Over(p) == /\ p.stage \notin Campaigning
           /\ p.stage = "loading" => p.status \in TerminalStatuses

Kept(run, d) == run.results.given => Holds(run.results.rounds, d)

Given ==
  \/ row.results.given
  \/ \E q \in Requests : req[q].base.results.given \/ req[q].run.results.given
  \/ \E s \in Slots : proc[s].stage \in {"finalizing", "marking"} /\ proc[s].base.results.given

GivenHolds ==
  ~overlapped /\ ~reopened =>
    /\ Given => IsTerminal(row) /\ \A s \in Slots : Over(proc[s])
    /\ Kept(row, durable)
    /\ \A q \in Requests : Kept(req[q].base, durable) /\ Kept(req[q].run, durable)
    /\ \A s \in Slots :
         proc[s].stage \in {"finalizing", "marking"} => Kept(proc[s].base, durable)

-----------------------------------------------------------------------------
(* Type correctness.                                                       *)

\* The part of Shape that is about attempts and their workflow.
Attempting ==
  /\ wf \in [pc : {"none", "running", "error"} \cup CampaignEnds, attempt : 1 .. MaxAttempts]
  /\ cur \in Slots
  /\ proc \in [Slots -> Attempts]
  /\ \A s \in Slots : ShapeOf(proc[s])

\* The rest of it.
Recording ==
  /\ row \in AttackRuns
  /\ durable \in [1 .. MaxRounds -> AllRoundKinds \cup {NoRound}]
  /\ \A n \in 1 .. MaxRounds : durable[n] # "error"
  /\ req \in [Requests -> ApiRequests]
  /\ faults \in 0 .. MaxFaults
  /\ overlapped \in BOOLEAN /\ reopened \in BOOLEAN /\ unpersisted \in BOOLEAN

LEMMA ShapeParts == Shape <=> Attempting /\ Recording
BY DEF Shape, TypeOK, Attempting, Recording

LEMMA NewRunType == NewRun \in AttackRuns
<1>1. <<>> \in Seq(Rounds)
  BY EmptySeq
<1> QED
  BY <1>1 DEF NewRun, AttackRuns, AttackStatuses, TerminalStatuses, NoResults, Results

LEMMA IdleShape == ShapeOf(Idle) /\ ShapeOf(NewAttempt)
<1>1. <<>> \in Seq(Rounds) /\ Len(<<>>) = 0 /\ MaxRounds \in Nat
  BY EmptySeq, RedTeamCampaignAssumption
<1>2. Idle \in Attempts
  BY <1>1, NewRunType
     DEF Idle, Attempts, Stages, AttackStatuses, TerminalStatuses, CampaignEnds
<1>3. NewAttempt \in Attempts
  <2>1. IsTerminal(row) \in BOOLEAN
    BY DEF IsTerminal
  <2>2. "new" \in Stages
    BY DEF Stages
  <2> QED
    BY <1>2, <2>1, <2>2 DEF NewAttempt, Attempts
<1>4. ShapeOf(Idle)
  BY <1>1, <1>2 DEF ShapeOf, Idle, Resulting
<1>5. ShapeOf(NewAttempt)
  BY <1>1, <1>3 DEF ShapeOf, NewAttempt, Idle, Resulting
<1> QED
  BY <1>4, <1>5

LEMMA AppliedType ==
  ASSUME NEW op \in Operations, NEW run \in AttackRuns
  PROVE  Apply(op, run) \in AttackRuns
BY DEF Operations, AttackRuns, Apply, Target, AttackStatuses, TerminalStatuses

LEMMA WrittenType ==
  ASSUME NEW base \in AttackRuns, NEW run \in AttackRuns, NEW r \in AttackRuns,
         NEW w \in Written(base, run, r)
  PROVE  w \in AttackRuns
BY DEF Written, Changed, AttackRuns

LEMMA FinalizedType ==
  ASSUME NEW p \in Attempts, NEW run \in AttackRuns
  PROVE  Finalized(p, run) \in AttackRuns
<1>1. p.rounds \in Seq(Rounds) /\ Len(p.rounds) \in Nat
  BY LenProperties DEF Attempts
<1>2. Cardinality(OfKind(p.rounds, {"error"})) \in Nat
  BY <1>1, OfKindFinite
<1> DEFINE given == [given |-> TRUE, rounds |-> p.rounds]
           status == IF p.told THEN "cancelled" ELSE "completed"
<1>3. given \in Results /\ status \in AttackStatuses
  BY <1>1 DEF Results, AttackStatuses, TerminalStatuses
<1>4. /\ run.done + Len(p.rounds) \in Nat
      /\ run.failed + Cardinality(OfKind(p.rounds, {"error"})) \in Nat
  BY <1>1, <1>2 DEF AttackRuns
<1> HIDE DEF given, status
<1> DEFINE counted == [run EXCEPT !.done = @ + Len(p.rounds),
                                  !.failed = @ + Cardinality(OfKind(p.rounds, {"error"})),
                                  !.status = status]
<1>5. counted \in AttackRuns
  BY <1>3, <1>4 DEF AttackRuns
<1>6. Finalized(p, run) = [(IF run.status = "running" THEN counted ELSE run) EXCEPT
                             !.results = given]
  BY DEF Finalized, given, status
<1> HIDE DEF counted
<1>7. ASSUME NEW r \in AttackRuns PROVE [r EXCEPT !.results = given] \in AttackRuns
  BY <1>3 DEF AttackRuns
<1> QED
  BY <1>5, <1>6, <1>7

LEMMA LoopOverShape ==
  ASSUME NEW p, ShapeOf(p), p.stage \in Campaigning
  PROVE  ShapeOf(LoopOver(p))
BY DEF ShapeOf, LoopOver, Attempts, Stages, CampaignEnds, Campaigning, Resulting, NoRound

\* The round at hand, and the campaign's rounds once it is the last of them.
RoundAtHand(p) == [number |-> Len(p.rounds) + 1, kind |-> p.kind]
RoundsWith(p) == Append(p.rounds, RoundAtHand(p))

LEMMA RecordedRounds ==
  ASSUME NEW p, ShapeOf(p), p.stage \in {"executed", "upserting"}
  PROVE  /\ RoundAtHand(p) \in Rounds /\ RoundsWith(p) \in Seq(Rounds)
         /\ Len(p.rounds) \in Nat /\ Len(RoundsWith(p)) = Len(p.rounds) + 1
         /\ Len(p.rounds) + 1 \in 1 .. MaxRounds
         /\ \A i \in 1 .. Len(p.rounds) : RoundsWith(p)[i] = p.rounds[i]
         /\ RoundsWith(p)[Len(p.rounds) + 1] = RoundAtHand(p)
<1>1. p.rounds \in Seq(Rounds) /\ Len(p.rounds) \in Nat /\ MaxRounds \in Nat
  BY LenProperties, RedTeamCampaignAssumption DEF ShapeOf, Attempts
<1>2. RoundAtHand(p) \in Rounds
  BY <1>1 DEF ShapeOf, Attempts, Rounds, RoundAtHand
<1>3. Len(p.rounds) + 1 \in 1 .. MaxRounds
  BY <1>1 DEF ShapeOf
<1> QED
  BY <1>1, <1>2, <1>3, AppendProperties DEF RoundsWith

LEMMA RecordedIs ==
  ASSUME NEW p, ShapeOf(p), p.stage \in {"executed", "upserting"}
  PROVE  /\ Recorded(p) \in Attempts
         /\ Recorded(p).rounds = RoundsWith(p) /\ Recorded(p).kind = NoRound
         /\ Recorded(p).status = p.status /\ Recorded(p).told = p.told
         /\ Recorded(p).base = p.base /\ Recorded(p).run = p.run
         /\ Recorded(p).late = p.late
         /\ StopsEarly(RoundsWith(p)) =>
              Recorded(p).stage = "finished" /\ Recorded(p).state \in CampaignEnds
         /\ ~StopsEarly(RoundsWith(p)) =>
              Recorded(p).stage = "running" /\ Recorded(p).state = p.state
<1> DEFINE more == [p EXCEPT !.rounds = RoundsWith(p), !.kind = NoRound, !.free = FALSE]
<1>1. RoundsWith(p) \in Seq(Rounds)
  BY RecordedRounds
<1>2. p \in Attempts
  BY DEF ShapeOf
<1>3. more \in Attempts /\ more.rounds = RoundsWith(p) /\ more.kind = NoRound
      /\ more.status = p.status /\ more.told = p.told /\ more.base = p.base
      /\ more.run = p.run /\ more.late = p.late /\ more.state = p.state
  BY <1>1, <1>2 DEF Attempts
<1>4. Recorded(p) = IF StopsEarly(more.rounds) THEN LoopOver(more)
                    ELSE [more EXCEPT !.stage = "running"]
  BY <1>2 DEF Recorded, RoundsWith, RoundAtHand, Attempts
<1> HIDE DEF more
<1>5. CASE StopsEarly(RoundsWith(p))
  <2>1. Recorded(p) = LoopOver(more)
    BY <1>3, <1>4, <1>5
  <2> QED
    BY <1>3, <1>5, <2>1 DEF LoopOver, Attempts, Stages, CampaignEnds
<1>6. CASE ~StopsEarly(RoundsWith(p))
  <2>1. Recorded(p) = [more EXCEPT !.stage = "running"]
    BY <1>3, <1>4, <1>6
  <2> QED
    BY <1>3, <1>6, <2>1 DEF Attempts, Stages
<1> QED
  BY <1>5, <1>6

LEMMA RecordedShape ==
  ASSUME NEW p, ShapeOf(p), p.stage \in {"executed", "upserting"}
  PROVE  ShapeOf(Recorded(p))
<1>1. Len(Recorded(p).rounds) <= MaxRounds
  <2>1. MaxRounds \in Nat
    BY RedTeamCampaignAssumption
  <2>2. Len(Recorded(p).rounds) \in 1 .. MaxRounds
    BY RecordedRounds, RecordedIs
  <2> QED
    BY <2>1, <2>2
<1>2. p.base = NewRun /\ p.run = NewRun
  BY DEF ShapeOf
<1>3. "none" \notin CampaignEnds
  BY DEF CampaignEnds
<1> QED
  BY <1>1, <1>2, <1>3, RecordedIs DEF ShapeOf, Resulting, NoRound

\* Ways in which an attempt goes on or ends.
LEMMA BecomesAttempting ==
  ASSUME Shape, NEW s \in Slots, NEW p, ShapeOf(p), Becomes(s, p), UNCHANGED <<wf, cur>>
  PROVE  Attempting'
BY ShapeParts DEF Attempting, Becomes, ShapeOf

LEMMA NextAttemptAttempting ==
  ASSUME Shape, NEW n \in Slots, NextAttempt(proc, n)
  PROVE  Attempting'
<1>1. MaxAttempts \in Nat \ {0}
  BY RedTeamCampaignAssumption
<1>2. wf' \in [pc : {"none", "running", "error"} \cup CampaignEnds, attempt : 1 .. MaxAttempts]
  BY <1>1, ShapeParts DEF Attempting, NextAttempt
<1>3. PICK p \in {Idle, NewAttempt} : proc' = [proc EXCEPT ![n] = p]
  BY DEF NextAttempt
<1>4. ShapeOf(p)
  BY <1>3, IdleShape
<1>5. cur' \in Slots
  BY DEF NextAttempt
<1> QED
  BY <1>2, <1>3, <1>4, <1>5, ShapeParts DEF Attempting, ShapeOf

LEMMA RaiseAttempting ==
  ASSUME Shape, NEW s \in Slots, Raise(s)
  PROVE  Attempting'
<1>1. CASE Awaited(s)
  BY <1>1, NextAttemptAttempting DEF Raise
<1>2. CASE ~Awaited(s)
  BY <1>2, IdleShape, BecomesAttempting DEF Raise, Becomes
<1> QED
  BY <1>1, <1>2

LEMMA ReturnAttempting ==
  ASSUME Shape, NEW s \in Slots, NEW status \in CampaignEnds, Return(s, status)
  PROVE  Attempting'
<1>1. wf' \in [pc : {"none", "running", "error"} \cup CampaignEnds, attempt : 1 .. MaxAttempts]
  BY ShapeParts DEF Attempting, Return
<1> QED
  BY <1>1, IdleShape, ShapeParts DEF Attempting, ShapeOf, Return

LEMMA FaultCounted ==
  ASSUME faults \in 0 .. MaxFaults, NEW kind, Fault(kind)
  PROVE  faults' \in 0 .. MaxFaults
BY RedTeamCampaignAssumption DEF Fault

LEMMA AttemptStepShape ==
  ASSUME Shape, NEW s \in Slots, AttemptStep(s)
  PROVE  Shape'
<1> DEFINE p == proc[s]
<1>1. p \in Attempts /\ ShapeOf(p) /\ Attempting /\ Recording
  BY ShapeParts DEF Attempting
<1>2. MaxRounds \in Nat
  BY RedTeamCampaignAssumption
<1> SUFFICES Attempting' /\ Recording'
  BY ShapeParts, PTL
<1> USE DEF Active
<1>a. CASE LoadStatus(s)
  <2> DEFINE x == [p EXCEPT !.stage = "loading", !.status = row.status]
  <2>1. ShapeOf(x)
    BY <1>a, <1>1 DEF LoadStatus, ShapeOf, Attempts, Stages, Recording, AttackRuns, Resulting
  <2>2. Attempting'
    <3> HIDE DEF x
    <3>1. Becomes(s, x) /\ UNCHANGED <<wf, cur>>
      BY <1>a DEF LoadStatus, x
    <3> QED
      BY <2>1, <3>1, BecomesAttempting
  <2> QED
    BY <1>a, <1>1, <2>2 DEF LoadStatus, Recording
<1>b. CASE LoadRounds(s)
  <2> DEFINE q == Replayed(DurableRounds)
  <2>1. q \in Seq(Rounds) /\ Len(q) <= MaxRounds
    <3>1. DurableRounds \in Seq(Rounds) /\ Len(DurableRounds) <= MaxRounds
      BY <1>1, DurableRoundsOrdered DEF Recording
    <3>2. q \in Seq(Rounds) /\ Len(q) <= Len(DurableRounds)
      BY <3>1, ReplayedPrefix
    <3> QED
      BY <1>2, <3>1, <3>2, LenProperties
  <2> HIDE DEF q
  <2> DEFINE r == [p EXCEPT !.rounds = q]
  <2>2. ASSUME p.status \notin TerminalStatuses
             /\ Becomes(s, [r EXCEPT !.stage = "running"]) /\ UNCHANGED <<wf, cur>>
        PROVE  Attempting'
    <3>1. ShapeOf([r EXCEPT !.stage = "running"])
      BY <1>1, <1>b, <2>1 DEF LoadRounds, ShapeOf, Attempts, Stages, Resulting
    <3> QED
      BY <2>2, <3>1, BecomesAttempting
  <2>3. ASSUME p.status \in TerminalStatuses /\ UNCHANGED <<wf, cur>>
             /\ Becomes(s, [r EXCEPT !.stage = "finished", !.state = p.status])
        PROVE  Attempting'
    <3>1. ShapeOf([r EXCEPT !.stage = "finished", !.state = p.status])
      BY <1>1, <1>b, <2>1, <2>3 DEF LoadRounds, ShapeOf, Attempts, Stages, Resulting, CampaignEnds,
         TerminalStatuses, NoRound
    <3> QED
      BY <2>3, <3>1, BecomesAttempting
  <2>4. ASSUME p.status \in TerminalStatuses /\ Return(s, p.status)
        PROVE  Attempting'
    BY <2>4, ReturnAttempting DEF TerminalStatuses, CampaignEnds
  <2>5. Attempting'
    BY <1>b, <2>2, <2>3, <2>4 DEF LoadRounds, q
  <2> QED
    BY <1>b, <1>1, <2>5 DEF LoadRounds, Recording
<1>c. CASE FindCheckpoint(s)
  <2> DEFINE x == [p EXCEPT !.stage = "upserting",
                            !.free = durable[NextNumber(s)] = NoRound]
  <2>1. ShapeOf(x)
    <3>1. (durable[NextNumber(s)] = NoRound) \in BOOLEAN
      OBVIOUS
    <3> QED
      BY <1>c, <1>1, <3>1 DEF FindCheckpoint, ShapeOf, Attempts, Stages, Resulting
  <2>2. Attempting'
    <3> HIDE DEF x
    <3>1. Becomes(s, x) /\ UNCHANGED <<wf, cur>>
      BY <1>c DEF FindCheckpoint, x
    <3> QED
      BY <2>1, <3>1, BecomesAttempting
  <2> QED
    BY <1>c, <1>1, <2>2 DEF FindCheckpoint, Recording
<1>d. CASE AbandonRound(s)
  <2> DEFINE x == [p EXCEPT !.stage = "finished", !.state = "cancelled", !.kind = NoRound]
  <2>1. ShapeOf(x)
    BY <1>d, <1>1 DEF AbandonRound, ShapeOf, Attempts, Stages, Resulting, CampaignEnds, NoRound
  <2>2. Attempting'
    <3> HIDE DEF x
    <3>1. Becomes(s, x) /\ UNCHANGED <<wf, cur>>
      BY <1>d DEF AbandonRound, x
    <3> QED
      BY <2>1, <3>1, BecomesAttempting
  <2> QED
    BY <1>d, <1>1, <2>2 DEF AbandonRound, Recording
<1>e. CASE \E kind \in RoundKinds : CallTarget(s, kind)
  <2>1. PICK kind \in RoundKinds : CallTarget(s, kind)
    BY <1>e
  <2> DEFINE x == [p EXCEPT !.stage = "executed", !.kind = kind]
  <2>2. kind \in AllRoundKinds /\ kind # NoRound
    BY RedTeamCampaignAssumption DEF AllRoundKinds, NoRound
  <2>3. ShapeOf(x)
    BY <2>1, <2>2, <1>1 DEF CallTarget, WithinLimits, ShapeOf, Attempts, Stages, Resulting
  <2>4. Attempting'
    <3> HIDE DEF x
    <3>1. Becomes(s, x) /\ UNCHANGED <<wf, cur>>
      BY <2>1 DEF CallTarget, x
    <3> QED
      BY <2>3, <3>1, BecomesAttempting
  <2> QED
    BY <2>1, <1>1, <2>4 DEF CallTarget, Recording
<1>f. CASE RecordFailedRound(s)
  <2>1. Attempting'
    BY <1>f, <1>1, RecordedShape, BecomesAttempting DEF RecordFailedRound
  <2> QED
    BY <1>f, <1>1, <2>1 DEF RecordFailedRound, Recording
<1>g. CASE WriteCheckpoint(s)
  <2>1. /\ p.stage = "upserting"
        /\ UNCHANGED <<row, req, faults, overlapped, reopened, unpersisted>>
        /\ \/ Raise(s) /\ UNCHANGED durable
           \/ /\ durable' = [durable EXCEPT ![NextNumber(s)] = p.kind]
              /\ Becomes(s, Recorded(p)) /\ UNCHANGED <<wf, cur>>
    BY <1>g, Zenon DEF WriteCheckpoint
  <2>2. CASE Raise(s) /\ UNCHANGED durable
    <3>1. Attempting'
      BY <2>2, RaiseAttempting
    <3> QED
      BY <2>1, <2>2, <1>1, <3>1 DEF Recording
  <2>3. CASE /\ durable' = [durable EXCEPT ![NextNumber(s)] = p.kind]
             /\ Becomes(s, Recorded(p)) /\ UNCHANGED <<wf, cur>>
    <3>1. Attempting'
      BY <2>1, <2>3, <1>1, RecordedShape, BecomesAttempting
    <3>2. p.kind \in AllRoundKinds /\ p.kind # "error"
      BY <2>1, <1>1 DEF ShapeOf, Attempts
    <3>3. /\ durable' \in [1 .. MaxRounds -> AllRoundKinds \cup {NoRound}]
          /\ \A n \in 1 .. MaxRounds : durable'[n] # "error"
      BY <1>1, <2>3, <3>2 DEF Recording
    <3> QED
      BY <2>1, <1>1, <3>1, <3>3 DEF Recording
  <2> QED
    BY <2>1, <2>2, <2>3
<1>h. CASE EndLoop(s)
  <2>1. Attempting'
    BY <1>h, <1>1, LoopOverShape, BecomesAttempting DEF EndLoop, Campaigning
  <2> QED
    BY <1>h, <1>1, <2>1 DEF EndLoop, Recording
<1>i. CASE PersistMetrics(s)
  <2> DEFINE x == [p EXCEPT !.stage = "persisted"]
  <2>1. ShapeOf(x)
    BY <1>i, <1>1 DEF PersistMetrics, ShapeOf, Attempts, Stages, Resulting
  <2>2. Attempting'
    <3> HIDE DEF x
    <3>1. Becomes(s, x) /\ UNCHANGED <<wf, cur>>
      BY <1>i DEF PersistMetrics, x
    <3> QED
      BY <2>1, <3>1, BecomesAttempting
  <2> QED
    BY <1>i, <1>1, <2>2 DEF PersistMetrics, Recording
<1>j. CASE FinalizeLoad(s)
  <2> DEFINE x == [p EXCEPT !.stage = "finalizing", !.base = row, !.run = Finalized(p, row)]
  <2>1. Finalized(p, row) \in AttackRuns
    BY <1>1, FinalizedType DEF Recording
  <2>2. ShapeOf(x)
    BY <1>j, <1>1, <2>1 DEF FinalizeLoad, ShapeOf, Attempts, Stages, Resulting, Recording
  <2>3. Attempting'
    <3> HIDE DEF x
    <3>1. Becomes(s, x) /\ UNCHANGED <<wf, cur>>
      BY <1>j DEF FinalizeLoad, x
    <3> QED
      BY <2>2, <3>1, BecomesAttempting
  <2> QED
    BY <1>j, <1>1, <2>3 DEF FinalizeLoad, Recording
<1>k. CASE FinalizeStore(s) \/ FailStore(s)
  <2> DEFINE x == [p EXCEPT !.stage = "returning", !.base = NewRun, !.run = NewRun]
  <2>1. ShapeOf(x)
    BY <1>k, <1>1, NewRunType
       DEF FinalizeStore, FailStore, ShapeOf, Attempts, Stages, Resulting, NoRound
  <2>2. Attempting'
    <3> HIDE DEF x
    <3>1. Becomes(s, x) /\ UNCHANGED <<wf, cur>>
      BY <1>k DEF FinalizeStore, FailStore, x
    <3> QED
      BY <2>1, <3>1, BecomesAttempting
  <2>3. row' \in AttackRuns
    <3>1. row' \in Written(p.base, p.run, row)
      BY <1>k DEF FinalizeStore, FailStore
    <3>2. p.base \in AttackRuns /\ p.run \in AttackRuns
      BY <1>1 DEF Attempts
    <3> QED
      BY <1>1, <3>1, <3>2, WrittenType DEF Recording
  <2> QED
    BY <1>k, <1>1, <2>2, <2>3 DEF FinalizeStore, FailStore, Recording
<1>l. CASE FailLoad(s)
  <2> DEFINE x == [p EXCEPT !.stage = "marking", !.state = "failed", !.base = row,
                            !.run = Apply("fail", row)]
             y == [p EXCEPT !.stage = "returning", !.state = "failed"]
  <2>1. Apply("fail", row) \in AttackRuns
    BY <1>1, AppliedType DEF Recording, Operations
  <2>2. ShapeOf(x)
    BY <1>l, <1>1, <2>1
       DEF FailLoad, ShapeOf, Attempts, Stages, Resulting, Recording, CampaignEnds, NoRound
  <2>3. ShapeOf(y)
    BY <1>l, <1>1 DEF FailLoad, ShapeOf, Attempts, Stages, Resulting, CampaignEnds, NoRound
  <2>4. Attempting'
    <3> HIDE DEF x, y
    <3>1. (Becomes(s, x) \/ Becomes(s, y)) /\ UNCHANGED <<wf, cur>>
      BY <1>l DEF FailLoad, x, y
    <3> QED
      BY <2>2, <2>3, <3>1, BecomesAttempting
  <2> QED
    BY <1>l, <1>1, <2>4 DEF FailLoad, Recording
<1>m. CASE ReturnResult(s)
  <2>1. p.state \in CampaignEnds
    BY <1>m, <1>1 DEF ReturnResult, ShapeOf, Attempts, Resulting
  <2>2. Attempting'
    BY <1>m, <2>1, ReturnAttempting DEF ReturnResult
  <2> QED
    BY <1>m, <1>1, <2>2 DEF ReturnResult, Recording
<1> QED
  BY <1>a, <1>b, <1>c, <1>d, <1>e, <1>f, <1>g, <1>h, <1>i, <1>j, <1>k, <1>l, <1>m
     DEF AttemptStep

LEMMA AttemptFaultShape ==
  ASSUME Shape, NEW s \in Slots, AttemptFault(s)
  PROVE  Shape'
<1> DEFINE p == proc[s]
<1>1. p \in Attempts /\ ShapeOf(p) /\ Attempting /\ Recording
  BY ShapeParts DEF Attempting
<1>2. \A kind : Fault(kind) => faults' \in 0 .. MaxFaults
  BY <1>1, FaultCounted DEF Recording
<1> SUFFICES Attempting' /\ Recording'
  BY ShapeParts, PTL
<1> USE DEF Active
<1>a. CASE SetupFails(s)
  <2> DEFINE x == [p EXCEPT !.stage = "failing"]
  <2>1. ShapeOf(x)
    BY <1>a, <1>1 DEF SetupFails, ShapeOf, Attempts, Stages, Resulting
  <2>2. Attempting'
    <3> HIDE DEF x
    <3>1. Becomes(s, x) /\ UNCHANGED <<wf, cur>>
      BY <1>a DEF SetupFails, x
    <3> QED
      BY <2>1, <3>1, BecomesAttempting
  <2> QED
    BY <1>a, <1>1, <1>2, <2>2 DEF SetupFails, Recording
<1>b. CASE CampaignFails(s)
  <2> DEFINE x == [p EXCEPT !.stage = "finished", !.state = "failed", !.kind = NoRound]
  <2>1. ShapeOf(x)
    BY <1>b, <1>1 DEF CampaignFails, ShapeOf, Attempts, Stages, Resulting, CampaignEnds, NoRound
  <2>2. Attempting'
    <3> HIDE DEF x
    <3>1. Becomes(s, x) /\ UNCHANGED <<wf, cur>>
      BY <1>b DEF CampaignFails, x
    <3> QED
      BY <2>1, <3>1, BecomesAttempting
  <2> QED
    BY <1>b, <1>1, <1>2, <2>2 DEF CampaignFails, Recording
<1>c. CASE DatabaseError(s)
  <2> DEFINE x == [p EXCEPT !.stage = "failing", !.base = NewRun, !.run = NewRun]
  <2>1. ASSUME Raise(s)
        PROVE  Attempting'
    BY <2>1, RaiseAttempting
  <2>2. ASSUME /\ p.stage \in {"persisted", "finalizing"}
             /\ Becomes(s, x) /\ UNCHANGED <<wf, cur>>
        PROVE  Attempting'
    <3>1. ShapeOf(x)
      BY <2>2, <1>1, NewRunType DEF ShapeOf, Attempts, Stages, Resulting
    <3> QED
      BY <2>2, <3>1, BecomesAttempting
  <2>3. Attempting'
    BY <1>c, <2>1, <2>2 DEF DatabaseError
  <2> QED
    BY <1>c, <1>1, <1>2, <2>3 DEF DatabaseError, Recording
<1>d. CASE Crash(s)
  <2>1. Attempting'
    BY <1>d, RaiseAttempting DEF Crash
  <2> QED
    BY <1>d, <1>1, <1>2, <2>1 DEF Crash, Recording
<1>e. CASE Stall(s)
  <2>1. Attempting'
    BY <1>e, NextAttemptAttempting DEF Stall
  <2> QED
    BY <1>e, <1>1, <1>2, <2>1 DEF Stall, Recording
<1>f. CASE TellCancelled(s)
  <2> DEFINE x == [p EXCEPT !.told = TRUE]
  <2>1. ASSUME Becomes(s, Idle)
        PROVE  Attempting'
    BY <1>f, <2>1, IdleShape, BecomesAttempting DEF TellCancelled
  <2>2. ASSUME /\ p.stage \in {"running", "executed", "upserting", "finished"}
             /\ Becomes(s, x)
        PROVE  Attempting'
    <3>1. ShapeOf(x)
      BY <2>2, <1>1 DEF ShapeOf, Attempts, Resulting
    <3> HIDE DEF x
    <3>2. UNCHANGED <<wf, cur>>
      BY <1>f DEF TellCancelled
    <3> QED
      BY <2>2, <3>1, <3>2, BecomesAttempting
  <2>3. Attempting'
    BY <1>f, <2>1, <2>2 DEF TellCancelled
  <2> QED
    BY <1>f, <1>1, <2>3 DEF TellCancelled, Recording
<1> QED
  BY <1>a, <1>b, <1>c, <1>d, <1>e, <1>f DEF AttemptFault

LEMMA EndType ==
  ASSUME req \in [Requests -> ApiRequests], NEW q \in Requests,
         NEW stage \in {"committed", "undoing", "done", "rejected", "aborted"},
         End(q, stage) \/ Proceed(q, stage)
  PROVE  req' \in [Requests -> ApiRequests]
BY NewRunType DEF End, Proceed, ApiRequests

LEMMA WorkflowStartsAttempting ==
  ASSUME Shape, WorkflowStarts
  PROVE  Attempting' /\ overlapped' \in BOOLEAN /\ reopened' \in BOOLEAN
<1>1. 1 \in 1 .. MaxAttempts
  BY RedTeamCampaignAssumption
<1>2. wf' \in [pc : {"none", "running", "error"} \cup CampaignEnds, attempt : 1 .. MaxAttempts]
  BY <1>1 DEF WorkflowStarts
<1>3. PICK n \in Slots : cur' = n /\ proc' = [proc EXCEPT ![n] = NewAttempt]
  BY DEF WorkflowStarts
<1>4. Attempting'
  BY <1>2, <1>3, IdleShape, ShapeParts DEF Attempting, ShapeOf
<1>5. overlapped' \in BOOLEAN
  BY ShapeParts DEF WorkflowStarts, Recording
<1>6. reopened' \in BOOLEAN
  BY ShapeParts DEF WorkflowStarts, Recording
<1> QED
  BY <1>4, <1>5, <1>6

LEMMA RequestStepShape ==
  ASSUME Shape, NEW q \in Requests, RequestStep(q) \/ AbortRequest(q)
  PROVE  Shape'
<1> DEFINE r == req[q]
<1>1. r \in ApiRequests /\ Attempting /\ Recording
  BY ShapeParts DEF Recording
<1>2. \A kind : Fault(kind) => faults' \in 0 .. MaxFaults
  BY <1>1, FaultCounted DEF Recording
<1>3. UNCHANGED <<wf, cur, proc>> => Attempting'
  BY <1>1 DEF Attempting
<1>4. req \in [Requests -> ApiRequests]
  BY <1>1 DEF Recording
<1> SUFFICES Attempting' /\ Recording'
  BY ShapeParts, PTL
<1>a. CASE \E op \in Operations : LoadRequest(q, op)
  <2>1. PICK op \in Operations : LoadRequest(q, op)
    BY <1>a
  <2>2. Apply(op, row) \in AttackRuns
    BY <1>1, AppliedType DEF Recording
  <2>3. req' \in [Requests -> ApiRequests]
    <3>1. CASE End(q, "rejected")
      BY <3>1, <1>4, EndType
    <3>2. CASE req' = [req EXCEPT ![q] = [op |-> op, stage |-> "loaded", base |-> row,
                                          run |-> Apply(op, row)]]
      BY <3>2, <1>1, <2>2 DEF Recording, ApiRequests
    <3> QED
      BY <2>1, <3>1, <3>2 DEF LoadRequest
  <2> QED
    BY <1>1, <1>3, <2>1, <2>3 DEF LoadRequest, Recording
<1>b. CASE CommitRequest(q)
  <2>1. req' \in [Requests -> ApiRequests]
    BY <1>b, <1>4, EndType DEF CommitRequest
  <2>2. row' \in AttackRuns
    <3>1. r.base \in AttackRuns /\ r.run \in AttackRuns
      BY <1>1 DEF ApiRequests
    <3>2. row' = row \/ row' \in Written(r.base, r.run, row)
      BY <1>b DEF CommitRequest
    <3> QED
      BY <1>1, <3>1, <3>2, WrittenType DEF Recording
  <2>3. reopened' \in BOOLEAN
    BY <1>b, <1>1 DEF CommitRequest, Recording
  <2> QED
    BY <1>b, <1>1, <1>3, <2>1, <2>2, <2>3 DEF CommitRequest, Recording
<1>c. CASE StartWorkflow(q)
  <2>1. req' \in [Requests -> ApiRequests]
    BY <1>c, <1>4, EndType DEF StartWorkflow
  <2>2. /\ WorkflowStarts \/ UNCHANGED <<wf, proc, cur, overlapped, reopened>>
        /\ UNCHANGED <<row, durable, unpersisted>>
        /\ faults' = faults \/ Fault("schedule")
    BY <1>c DEF StartWorkflow
  <2>3. Attempting' /\ overlapped' \in BOOLEAN /\ reopened' \in BOOLEAN
    BY <1>1, <1>3, <2>2, WorkflowStartsAttempting DEF Recording
  <2>4. faults' \in 0 .. MaxFaults
    BY <1>1, <1>2, <2>2 DEF Recording
  <2> QED
    BY <1>1, <2>1, <2>2, <2>3, <2>4 DEF Recording
<1>d. CASE UndoLoad(q)
  <2>1. req' \in [Requests -> ApiRequests]
    <3>1. CASE End(q, "done")
      BY <3>1, <1>4, EndType
    <3>2. CASE req' = [req EXCEPT ![q].stage = "undone", ![q].base = row,
                                  ![q].run = Apply("fail", row)]
      <4>1. Apply("fail", row) \in AttackRuns
        BY <1>1, AppliedType DEF Recording, Operations
      <4> QED
        BY <3>2, <1>1, <4>1 DEF Recording, ApiRequests
    <3> QED
      BY <1>d, <3>1, <3>2 DEF UndoLoad
  <2> QED
    BY <1>d, <1>1, <1>3, <2>1 DEF UndoLoad, Recording
<1>e. CASE UndoCommit(q)
  <2>1. req' \in [Requests -> ApiRequests]
    BY <1>e, <1>4, EndType DEF UndoCommit
  <2>2. row' \in AttackRuns
    <3>1. r.base \in AttackRuns /\ r.run \in AttackRuns
      BY <1>1 DEF ApiRequests
    <3>2. row' \in Written(r.base, r.run, row)
      BY <1>e DEF UndoCommit
    <3> QED
      BY <1>1, <3>1, <3>2, WrittenType DEF Recording
  <2> QED
    BY <1>e, <1>1, <1>3, <2>1, <2>2 DEF UndoCommit, Recording
<1>f. CASE SignalCancel(q)
  <2>1. req' \in [Requests -> ApiRequests]
    BY <1>f, <1>4, EndType DEF SignalCancel
  <2>2. Attempting'
    BY <1>f, <1>1 DEF SignalCancel, Attempting, CampaignEnds
  <2>3. faults' \in 0 .. MaxFaults
    BY <1>f, <1>1, <1>2 DEF SignalCancel, Recording
  <2> QED
    BY <1>f, <1>1, <2>1, <2>2, <2>3 DEF SignalCancel, Recording
<1>g. CASE AbortRequest(q)
  <2>1. req' \in [Requests -> ApiRequests]
    BY <1>g, <1>4, EndType DEF AbortRequest
  <2> QED
    BY <1>g, <1>1, <1>2, <1>3, <2>1 DEF AbortRequest, Recording
<1> QED
  BY <1>a, <1>b, <1>c, <1>d, <1>e, <1>f, <1>g DEF RequestStep

LEMMA ShapeInit == Init => Shape
<1> SUFFICES ASSUME Init PROVE Shape
  OBVIOUS
<1>1. 1 \in 1 .. MaxAttempts /\ 0 \in 0 .. MaxFaults /\ MaxRounds \in Nat
  BY RedTeamCampaignAssumption
<1>2. Attempting
  BY <1>1, IdleShape DEF Init, Attempting, ShapeOf
<1>3. Recording
  BY <1>1, NewRunType DEF Init, Recording, ApiRequests, NoRound
<1> QED
  BY <1>2, <1>3, ShapeParts

LEMMA ShapeStep == Shape /\ [Next]_vars => Shape'
<1> SUFFICES ASSUME Shape, [Next]_vars PROVE Shape'
  OBVIOUS
<1>1. CASE \E s \in Slots : AttemptStep(s) \/ AttemptFault(s)
  BY <1>1, AttemptStepShape, AttemptFaultShape
<1>2. CASE \E q \in Requests : RequestStep(q) \/ AbortRequest(q)
  BY <1>2, RequestStepShape
<1>3. CASE UNCHANGED vars
  <2>1. Attempting' /\ Recording'
    BY <1>3, ShapeParts DEF vars, Attempting, Recording
  <2> QED
    BY <2>1, ShapeParts, PTL
<1> QED
  BY <1>1, <1>2, <1>3 DEF Next

(* Every variable keeps its type, and every attempt the shape of its stage. *)
THEOREM ShapeInvariant == Spec => []Shape
BY ShapeInit, ShapeStep, PTL DEF Spec

-----------------------------------------------------------------------------
(* The steps in outline: what the layers below Shape need to know of them.  *)

Keeps(p, x) == x.rounds = p.rounds /\ x.late = p.late

\* What one step makes of the attempt p, other than ending it.
Moves(p, x) ==
  \/ p.stage = "new" /\ x.stage = "loading" /\ x.status = row.status /\ Keeps(p, x)
  \/ p.stage = "loading" /\ x.stage = "failing" /\ Keeps(p, x)
  \/ /\ p.stage = "loading" /\ x.late = p.late /\ x.rounds = Replayed(DurableRounds)
     /\ x.stage = IF p.status \in TerminalStatuses THEN "finished" ELSE "running"
  \/ p.stage = "running" /\ x.stage = "executed" /\ Keeps(p, x)
  \/ p.stage = "executed" /\ p.kind = "error" /\ x = Recorded(p)
  \/ p.stage = "executed" /\ x.stage = "upserting" /\ Keeps(p, x)
  \/ p.stage = "upserting" /\ x = Recorded(p)
  \/ p.stage \in {"running", "executed"} /\ x.stage = "finished" /\ Keeps(p, x)
  \/ p.stage \in Campaigning \cup {"finished"} /\ x.stage = p.stage /\ Keeps(p, x)
  \/ p.stage = "finished" /\ x.stage = "persisted" /\ Keeps(p, x)
  \/ /\ p.stage = "persisted" /\ x.stage = "finalizing" /\ Keeps(p, x)
     /\ x.base = row /\ x.run = Finalized(x, row)
  \/ p.stage \in {"finalizing", "marking"} /\ x.stage = "returning" /\ Keeps(p, x)
  \/ p.stage \in {"persisted", "finalizing"} /\ x.stage = "failing" /\ Keeps(p, x)
  \/ /\ p.stage = "failing" /\ x.stage = "marking" /\ Keeps(p, x)
     /\ row.status = "running" /\ x.base = row /\ x.run = Apply("fail", row)
  \/ p.stage = "failing" /\ x.stage = "returning" /\ row.status # "running" /\ Keeps(p, x)

Storing(p, x) == p.stage \in {"finalizing", "marking"} /\ x.stage = "returning"
Checkpointing(p, x) == p.stage = "upserting" /\ x.stage # "upserting"

Moving(s) ==
  \E x \in Attempts :
    /\ proc[s].stage # "idle" /\ Moves(proc[s], x) /\ proc' = [proc EXCEPT ![s] = x]
    /\ row' \in IF Storing(proc[s], x) THEN Written(proc[s].base, proc[s].run, row) ELSE {row}
    /\ durable' = IF Checkpointing(proc[s], x)
                  THEN [durable EXCEPT ![Len(proc[s].rounds) + 1] = proc[s].kind]
                  ELSE durable
    /\ UNCHANGED <<wf, cur, req, overlapped, reopened>>

\* The attempt ends; if the workflow waits for it, then that ends too.
Leaving(s) ==
  /\ proc[s].stage # "idle" /\ proc' = [proc EXCEPT ![s] = Idle]
  /\ \/ ~Awaited(s) /\ wf' = wf
     \/ /\ Awaited(s)
        /\ \/ wf' = [wf EXCEPT !.pc = "error"]
           \/ proc[s].stage = "returning" /\ wf' = [wf EXCEPT !.pc = proc[s].state]
           \/ /\ proc[s].stage = "loading" /\ proc[s].status \in TerminalStatuses
              /\ wf' = [wf EXCEPT !.pc = proc[s].status]
  /\ cur' \in {cur, s} /\ (~Awaited(s) => cur' = cur)
  /\ UNCHANGED <<row, durable, req, overlapped, reopened>>

Retrying(s) ==
  /\ proc[s].stage # "idle" /\ Awaited(s) /\ wf.attempt < MaxAttempts
  /\ wf' = [wf EXCEPT !.attempt = @ + 1]
  /\ proc' = [proc EXCEPT ![s] = NewAttempt]
  /\ UNCHANGED <<cur, row, durable, req, overlapped, reopened>>

Stalling(s) ==
  \E n \in Slots \ {s} :
    /\ Awaited(s) /\ NextAttempt(proc, n) /\ overlapped'
    /\ UNCHANGED <<row, durable, req, reopened>>

LEMMA MovingIs ==
  ASSUME Shape, NEW s \in Slots, NEW x, ShapeOf(x), proc[s].stage # "idle",
         Moves(proc[s], x), Becomes(s, x), ~Storing(proc[s], x), ~Checkpointing(proc[s], x),
         UNCHANGED <<row, durable, wf, cur, req, overlapped, reopened>>
  PROVE  Moving(s)
BY DEF Moving, Becomes, ShapeOf

LEMMA RaiseIs ==
  ASSUME Shape, NEW s \in Slots, Raise(s), proc[s].stage # "idle",
         UNCHANGED <<row, durable, req, overlapped, reopened>>
  PROVE  Leaving(s) \/ Retrying(s)
<1>1. CASE Awaited(s)
  BY <1>1 DEF Raise, NextAttempt, Leaving, Retrying, Awaited
<1>2. CASE ~Awaited(s)
  BY <1>2 DEF Raise, Leaving
<1> QED
  BY <1>1, <1>2

LEMMA AttemptStepIs ==
  ASSUME Shape, NEW s \in Slots, AttemptStep(s)
  PROVE  Moving(s) \/ Leaving(s) \/ Retrying(s)
<1> DEFINE p == proc[s]
<1>1. p \in Attempts /\ ShapeOf(p) /\ Attempting /\ Recording
  BY ShapeParts DEF Attempting
<1>2. Shape'
  BY AttemptStepShape
<1>3. \A x : Becomes(s, x) => ShapeOf(x)
  <2> SUFFICES ASSUME NEW x, Becomes(s, x) PROVE ShapeOf(x)
    OBVIOUS
  <2>1. proc'[s] = x
    BY <1>1 DEF Becomes, Attempting
  <2>2. ShapeOf(proc'[s])
    BY <1>2, ShapeParts DEF Shape
  <2> QED
    BY <2>1, <2>2
<1> USE DEF Active
<1>a. CASE LoadStatus(s)
  <2> DEFINE x == [p EXCEPT !.stage = "loading", !.status = row.status]
  <2>1. Moves(p, x) /\ ~Storing(p, x) /\ ~Checkpointing(p, x)
    BY <1>a, <1>1 DEF LoadStatus, Moves, Keeps, Attempts, Storing, Checkpointing
  <2>2. Becomes(s, x) /\ p.stage # "idle"
        /\ UNCHANGED <<row, durable, wf, cur, req, overlapped, reopened>>
    BY <1>a DEF LoadStatus
  <2> HIDE DEF x
  <2> QED
    BY <1>3, <2>1, <2>2, MovingIs
<1>b. CASE LoadRounds(s)
  <2> DEFINE q == Replayed(DurableRounds)
             r == [p EXCEPT !.rounds = q]
             x == [r EXCEPT !.stage = "running"]
             y == [r EXCEPT !.stage = "finished", !.state = p.status]
  <2>1. CASE p.status \notin TerminalStatuses /\ Becomes(s, x) /\ UNCHANGED <<wf, cur>>
    <3>1. Moves(p, x) /\ ~Storing(p, x) /\ ~Checkpointing(p, x)
      BY <1>b, <2>1, <1>1 DEF LoadRounds, Moves, Attempts, Storing, Checkpointing
    <3>2. p.stage # "idle" /\ UNCHANGED <<row, durable, wf, cur, req, overlapped, reopened>>
      BY <1>b, <2>1 DEF LoadRounds
    <3> HIDE DEF x
    <3> QED
      BY <1>3, <2>1, <3>1, <3>2, MovingIs
  <2>2. CASE p.status \in TerminalStatuses /\ Becomes(s, y) /\ UNCHANGED <<wf, cur>>
    <3>1. Moves(p, y) /\ ~Storing(p, y) /\ ~Checkpointing(p, y)
      BY <1>b, <2>2, <1>1 DEF LoadRounds, Moves, Attempts, Storing, Checkpointing
    <3>2. p.stage # "idle" /\ UNCHANGED <<row, durable, wf, cur, req, overlapped, reopened>>
      BY <1>b, <2>2 DEF LoadRounds
    <3> HIDE DEF y
    <3> QED
      BY <1>3, <2>2, <3>1, <3>2, MovingIs
  <2>3. CASE p.status \in TerminalStatuses /\ Return(s, p.status)
    BY <1>b, <2>3 DEF LoadRounds, Return, Leaving
  <2> QED
    BY <1>b, <2>1, <2>2, <2>3 DEF LoadRounds
<1>c. CASE FindCheckpoint(s)
  <2> DEFINE x == [p EXCEPT !.stage = "upserting",
                            !.free = durable[NextNumber(s)] = NoRound]
  <2>1. Moves(p, x) /\ ~Storing(p, x) /\ ~Checkpointing(p, x)
    BY <1>c, <1>1 DEF FindCheckpoint, Moves, Keeps, Attempts, Storing, Checkpointing
  <2>2. Becomes(s, x) /\ p.stage # "idle"
        /\ UNCHANGED <<row, durable, wf, cur, req, overlapped, reopened>>
    BY <1>c DEF FindCheckpoint
  <2> HIDE DEF x
  <2> QED
    BY <1>3, <2>1, <2>2, MovingIs
<1>d. CASE AbandonRound(s)
  <2> DEFINE x == [p EXCEPT !.stage = "finished", !.state = "cancelled", !.kind = NoRound]
  <2>1. Moves(p, x) /\ ~Storing(p, x) /\ ~Checkpointing(p, x)
    BY <1>d, <1>1 DEF AbandonRound, Moves, Keeps, Attempts, Storing, Checkpointing
  <2>2. Becomes(s, x) /\ p.stage # "idle"
        /\ UNCHANGED <<row, durable, wf, cur, req, overlapped, reopened>>
    BY <1>d DEF AbandonRound
  <2> HIDE DEF x
  <2> QED
    BY <1>3, <2>1, <2>2, MovingIs
<1>e. CASE \E kind \in RoundKinds : CallTarget(s, kind)
  <2>1. PICK kind \in RoundKinds : CallTarget(s, kind)
    BY <1>e
  <2> DEFINE x == [p EXCEPT !.stage = "executed", !.kind = kind]
  <2>2. Moves(p, x) /\ ~Storing(p, x) /\ ~Checkpointing(p, x)
    BY <2>1, <1>1 DEF CallTarget, Moves, Keeps, Attempts, Storing, Checkpointing
  <2>3. Becomes(s, x) /\ p.stage # "idle"
        /\ UNCHANGED <<row, durable, wf, cur, req, overlapped, reopened>>
    BY <2>1 DEF CallTarget
  <2> HIDE DEF x
  <2> QED
    BY <1>3, <2>2, <2>3, MovingIs
<1>f. CASE RecordFailedRound(s)
  <2>1. Moves(p, Recorded(p)) /\ ~Storing(p, Recorded(p)) /\ ~Checkpointing(p, Recorded(p))
    BY <1>f, <1>1 DEF RecordFailedRound, Moves, Storing, Checkpointing
  <2>2. Becomes(s, Recorded(p)) /\ p.stage # "idle"
        /\ UNCHANGED <<row, durable, wf, cur, req, overlapped, reopened>>
    BY <1>f DEF RecordFailedRound
  <2> QED
    BY <1>3, <2>1, <2>2, MovingIs
<1>g. CASE WriteCheckpoint(s)
  <2>1. /\ p.stage = "upserting"
        /\ UNCHANGED <<row, req, overlapped, reopened>>
        /\ \/ Raise(s) /\ UNCHANGED durable
           \/ /\ durable' = [durable EXCEPT ![NextNumber(s)] = p.kind]
              /\ Becomes(s, Recorded(p)) /\ UNCHANGED <<wf, cur>>
    BY <1>g, Zenon DEF WriteCheckpoint
  <2>2. CASE Raise(s) /\ UNCHANGED durable
    BY <2>1, <2>2, RaiseIs
  <2>3. CASE /\ durable' = [durable EXCEPT ![NextNumber(s)] = p.kind]
             /\ Becomes(s, Recorded(p)) /\ UNCHANGED <<wf, cur>>
    <3>1. Recorded(p) \in Attempts /\ Recorded(p).stage # "upserting"
      BY <1>1, <2>1, RecordedIs
    <3>2. Moves(p, Recorded(p)) /\ ~Storing(p, Recorded(p)) /\ Checkpointing(p, Recorded(p))
      BY <2>1, <3>1 DEF Moves, Storing, Checkpointing
    <3> QED
      BY <2>1, <2>3, <3>1, <3>2 DEF Moving, Becomes, NextNumber
  <2> QED
    BY <2>1, <2>2, <2>3
<1>h. CASE EndLoop(s)
  <2>1. Moves(p, LoopOver(p)) /\ ~Storing(p, LoopOver(p)) /\ ~Checkpointing(p, LoopOver(p))
    BY <1>h, <1>1 DEF EndLoop, LoopOver, Moves, Keeps, Attempts, Storing, Checkpointing
  <2>2. Becomes(s, LoopOver(p)) /\ p.stage # "idle"
        /\ UNCHANGED <<row, durable, wf, cur, req, overlapped, reopened>>
    BY <1>h DEF EndLoop
  <2> QED
    BY <1>3, <2>1, <2>2, MovingIs
<1>i. CASE PersistMetrics(s)
  <2> DEFINE x == [p EXCEPT !.stage = "persisted"]
  <2>1. Moves(p, x) /\ ~Storing(p, x) /\ ~Checkpointing(p, x)
    BY <1>i, <1>1 DEF PersistMetrics, Moves, Keeps, Attempts, Storing, Checkpointing
  <2>2. Becomes(s, x) /\ p.stage # "idle"
        /\ UNCHANGED <<row, durable, wf, cur, req, overlapped, reopened>>
    BY <1>i DEF PersistMetrics
  <2> HIDE DEF x
  <2> QED
    BY <1>3, <2>1, <2>2, MovingIs
<1>j. CASE FinalizeLoad(s)
  <2> DEFINE x == [p EXCEPT !.stage = "finalizing", !.base = row, !.run = Finalized(p, row)]
  <2>1. x.told = p.told /\ x.rounds = p.rounds /\ x.late = p.late /\ x.stage = "finalizing"
        /\ x.base = row /\ x.run = Finalized(p, row)
    BY <1>1 DEF Attempts
  <2>2. Becomes(s, x) /\ p.stage = "persisted"
        /\ UNCHANGED <<row, durable, wf, cur, req, overlapped, reopened>>
    BY <1>j DEF FinalizeLoad
  <2> HIDE DEF x
  <2>3. Finalized(x, row) = Finalized(p, row)
    BY <2>1 DEF Finalized
  <2>4. Moves(p, x) /\ ~Storing(p, x) /\ ~Checkpointing(p, x)
    BY <2>1, <2>2, <2>3 DEF Moves, Keeps, Storing, Checkpointing
  <2> QED
    BY <1>3, <2>2, <2>4, MovingIs
<1>k. CASE FinalizeStore(s) \/ FailStore(s)
  <2> DEFINE x == [p EXCEPT !.stage = "returning", !.base = NewRun, !.run = NewRun]
  <2>1. /\ Becomes(s, x) /\ p.stage \in {"finalizing", "marking"}
        /\ row' \in Written(p.base, p.run, row)
        /\ UNCHANGED <<durable, wf, cur, req, overlapped, reopened>>
    BY <1>k DEF FinalizeStore, FailStore
  <2>2. Moves(p, x) /\ Storing(p, x) /\ ~Checkpointing(p, x)
    BY <2>1, <1>1 DEF Moves, Keeps, Attempts, Storing, Checkpointing
  <2>3. x \in Attempts
    <3> HIDE DEF x
    <3> QED
      BY <1>3, <2>1 DEF ShapeOf
  <2> HIDE DEF x
  <2> QED
    BY <2>1, <2>2, <2>3 DEF Moving, Becomes
<1>l. CASE FailLoad(s)
  <2> DEFINE x == [p EXCEPT !.stage = "marking", !.state = "failed", !.base = row,
                            !.run = Apply("fail", row)]
             y == [p EXCEPT !.stage = "returning", !.state = "failed"]
  <2>1. p.stage = "failing" /\ UNCHANGED <<row, durable, wf, cur, req, overlapped, reopened>>
    BY <1>l DEF FailLoad
  <2>2. CASE row.status = "running" /\ Becomes(s, x)
    <3>1. Moves(p, x) /\ ~Storing(p, x) /\ ~Checkpointing(p, x)
      BY <2>1, <2>2, <1>1 DEF Moves, Keeps, Attempts, Storing, Checkpointing
    <3> HIDE DEF x
    <3> QED
      BY <1>3, <2>1, <2>2, <3>1, MovingIs
  <2>3. CASE row.status # "running" /\ Becomes(s, y)
    <3>1. Moves(p, y) /\ ~Storing(p, y) /\ ~Checkpointing(p, y)
      BY <2>1, <2>3, <1>1 DEF Moves, Keeps, Attempts, Storing, Checkpointing
    <3> HIDE DEF y
    <3> QED
      BY <1>3, <2>1, <2>3, <3>1, MovingIs
  <2> QED
    BY <1>l, <2>2, <2>3 DEF FailLoad
<1>m. CASE ReturnResult(s)
  BY <1>m DEF ReturnResult, Return, Leaving
<1> QED
  BY <1>a, <1>b, <1>c, <1>d, <1>e, <1>f, <1>g, <1>h, <1>i, <1>j, <1>k, <1>l, <1>m
     DEF AttemptStep

LEMMA AttemptFaultIs ==
  ASSUME Shape, NEW s \in Slots, AttemptFault(s)
  PROVE  Moving(s) \/ Leaving(s) \/ Retrying(s) \/ Stalling(s)
<1> DEFINE p == proc[s]
<1>1. p \in Attempts /\ ShapeOf(p) /\ Attempting /\ Recording
  BY ShapeParts DEF Attempting
<1>2. Shape'
  BY AttemptFaultShape
<1>3. \A x : Becomes(s, x) => ShapeOf(x)
  <2> SUFFICES ASSUME NEW x, Becomes(s, x) PROVE ShapeOf(x)
    OBVIOUS
  <2>1. proc'[s] = x
    BY <1>1 DEF Becomes, Attempting
  <2>2. ShapeOf(proc'[s])
    BY <1>2, ShapeParts DEF Shape
  <2> QED
    BY <2>1, <2>2
<1> USE DEF Active
<1>a. CASE SetupFails(s)
  <2> DEFINE x == [p EXCEPT !.stage = "failing"]
  <2>1. Moves(p, x) /\ ~Storing(p, x) /\ ~Checkpointing(p, x)
    BY <1>a, <1>1 DEF SetupFails, Moves, Keeps, Attempts, Storing, Checkpointing
  <2>2. Becomes(s, x) /\ p.stage # "idle"
        /\ UNCHANGED <<row, durable, wf, cur, req, overlapped, reopened>>
    BY <1>a DEF SetupFails
  <2> HIDE DEF x
  <2> QED
    BY <1>3, <2>1, <2>2, MovingIs
<1>b. CASE CampaignFails(s)
  <2> DEFINE x == [p EXCEPT !.stage = "finished", !.state = "failed", !.kind = NoRound]
  <2>1. Moves(p, x) /\ ~Storing(p, x) /\ ~Checkpointing(p, x)
    BY <1>b, <1>1 DEF CampaignFails, Moves, Keeps, Attempts, Storing, Checkpointing
  <2>2. Becomes(s, x) /\ p.stage # "idle"
        /\ UNCHANGED <<row, durable, wf, cur, req, overlapped, reopened>>
    BY <1>b DEF CampaignFails
  <2> HIDE DEF x
  <2> QED
    BY <1>3, <2>1, <2>2, MovingIs
<1>c. CASE DatabaseError(s)
  <2> DEFINE x == [p EXCEPT !.stage = "failing", !.base = NewRun, !.run = NewRun]
  <2>1. UNCHANGED <<row, durable, req, overlapped, reopened>>
    BY <1>c DEF DatabaseError
  <2>2. CASE Raise(s) /\ p.stage # "idle"
    BY <2>1, <2>2, RaiseIs
  <2>3. CASE /\ p.stage \in {"persisted", "finalizing"}
             /\ Becomes(s, x) /\ UNCHANGED <<wf, cur>>
    <3>1. Moves(p, x) /\ ~Storing(p, x) /\ ~Checkpointing(p, x)
      BY <2>3, <1>1 DEF Moves, Keeps, Attempts, Storing, Checkpointing
    <3> HIDE DEF x
    <3> QED
      BY <1>3, <2>1, <2>3, <3>1, MovingIs
  <2> QED
    BY <1>c, <2>2, <2>3 DEF DatabaseError
<1>d. CASE Crash(s)
  BY <1>d, RaiseIs DEF Crash
<1>e. CASE Stall(s)
  BY <1>e DEF Stall, Stalling
<1>f. CASE TellCancelled(s)
  <2> DEFINE x == [p EXCEPT !.told = TRUE]
  <2>1. p.stage # "idle" /\ wf.pc = "cancelled"
        /\ UNCHANGED <<row, durable, wf, cur, req, overlapped, reopened>>
    BY <1>f DEF TellCancelled
  <2>2. CASE Becomes(s, Idle)
    BY <2>1, <2>2 DEF Becomes, Leaving, Awaited
  <2>3. CASE /\ p.stage \in {"running", "executed", "upserting", "finished"}
             /\ Becomes(s, x)
    <3>1. Moves(p, x) /\ ~Storing(p, x) /\ ~Checkpointing(p, x)
      BY <2>3, <1>1 DEF Moves, Keeps, Attempts, Storing, Checkpointing, Campaigning
    <3> HIDE DEF x
    <3> QED
      BY <1>3, <2>1, <2>3, <3>1, MovingIs
  <2> QED
    BY <1>f, <2>2, <2>3 DEF TellCancelled
<1> QED
  BY <1>a, <1>b, <1>c, <1>d, <1>e, <1>f DEF AttemptFault

\* A request without a run at hand, and one that has yet to start the workflow.
Cleared(r) == r.base = NewRun /\ r.run = NewRun /\ r.stage \notin {"loaded", "undone"}
ToStart(r) == r.op = "start" /\ r.stage = "committed"

Loading(q) ==
  \E r \in ApiRequests :
    /\ req' = [req EXCEPT ![q] = r] /\ ~ToStart(r)
    /\ r.base = row
    /\ \/ /\ r.stage = "loaded" /\ r.op \in Operations /\ CanApply(r.op, row)
          /\ r.run = Apply(r.op, row)
       \/ r.stage = "undone" /\ CanApply("fail", row) /\ r.run = Apply("fail", row)
    /\ UNCHANGED <<row, durable, wf, proc, cur, overlapped, reopened>>

Committing(q) ==
  \E r \in ApiRequests :
    /\ req[q].stage \in {"loaded", "undone"}
    /\ req' = [req EXCEPT ![q] = r] /\ Cleared(r)
    /\ ToStart(r) => req[q].op = "start" /\ req[q].stage = "loaded"
    /\ \/ row' = row /\ req[q].run = req[q].base
       \/ /\ req[q].run # req[q].base \/ req[q].stage = "undone"
          /\ row' \in Written(req[q].base, req[q].run, row)
    /\ reopened' = (reopened \/ (req[q].stage = "loaded" /\ req[q].op = "start" /\ IsTerminal(row)))
    /\ UNCHANGED <<durable, wf, proc, cur, overlapped>>

Starting(q) ==
  \E r \in ApiRequests :
    /\ ToStart(req[q]) /\ wf.pc # "running" /\ WorkflowStarts
    /\ req' = [req EXCEPT ![q] = r] /\ Cleared(r) /\ ~ToStart(r)
    /\ UNCHANGED <<row, durable>>

Clearing(q) ==
  \E r \in ApiRequests :
    /\ req' = [req EXCEPT ![q] = r] /\ Cleared(r) /\ ~ToStart(r)
    /\ wf' = wf \/ (wf.pc = "running" /\ wf' = [wf EXCEPT !.pc = "cancelled"])
    /\ UNCHANGED <<row, durable, proc, cur, overlapped, reopened>>

LEMMA EndIs ==
  ASSUME req \in [Requests -> ApiRequests], NEW q \in Requests,
         NEW stage \in {"committed", "undoing", "done", "rejected", "aborted"}
  PROVE  /\ End(q, stage) =>
              \E r \in ApiRequests : req' = [req EXCEPT ![q] = r] /\ Cleared(r) /\ ~ToStart(r)
         /\ Proceed(q, stage) =>
              \E r \in ApiRequests : /\ req' = [req EXCEPT ![q] = r] /\ Cleared(r)
                                     /\ ToStart(r) => req[q].op = "start" /\ stage = "committed"
<1>1. ASSUME End(q, stage)
      PROVE  \E r \in ApiRequests : req' = [req EXCEPT ![q] = r] /\ Cleared(r) /\ ~ToStart(r)
  <2> DEFINE r == [op |-> "none", stage |-> stage, base |-> NewRun, run |-> NewRun]
  <2>1. r \in ApiRequests /\ Cleared(r) /\ ~ToStart(r)
    BY NewRunType DEF ApiRequests, Cleared, ToStart
  <2> QED
    BY <1>1, <2>1 DEF End
<1>2. ASSUME Proceed(q, stage)
      PROVE  \E r \in ApiRequests : /\ req' = [req EXCEPT ![q] = r] /\ Cleared(r)
                                    /\ ToStart(r) => req[q].op = "start" /\ stage = "committed"
  <2> DEFINE r == [op |-> req[q].op, stage |-> stage, base |-> NewRun, run |-> NewRun]
  <2>1. r \in ApiRequests /\ Cleared(r)
        /\ (ToStart(r) => req[q].op = "start" /\ stage = "committed")
    BY NewRunType DEF ApiRequests, Cleared, ToStart
  <2> QED
    BY <1>2, <2>1 DEF Proceed
<1> QED
  BY <1>1, <1>2

LEMMA RequestStepIs ==
  ASSUME Shape, NEW q \in Requests, RequestStep(q) \/ AbortRequest(q)
  PROVE  Loading(q) \/ Committing(q) \/ Starting(q) \/ Clearing(q)
<1>1. req[q] \in ApiRequests /\ req \in [Requests -> ApiRequests] /\ row \in AttackRuns
  BY ShapeParts DEF Recording
<1>2. ASSUME NEW stage \in {"undoing", "done", "rejected", "aborted"},
             End(q, stage) \/ Proceed(q, stage)
      PROVE  \E r \in ApiRequests : req' = [req EXCEPT ![q] = r] /\ Cleared(r) /\ ~ToStart(r)
  BY <1>1, <1>2, EndIs
<1>a. CASE \E op \in Operations : LoadRequest(q, op)
  <2>1. PICK op \in Operations : LoadRequest(q, op)
    BY <1>a
  <2>2. CASE End(q, "rejected")
    BY <1>2, <2>1, <2>2 DEF LoadRequest, Clearing
  <2>3. CASE CanApply(op, row)
             /\ req' = [req EXCEPT ![q] = [op |-> op, stage |-> "loaded", base |-> row,
                                           run |-> Apply(op, row)]]
    <3> DEFINE r == [op |-> op, stage |-> "loaded", base |-> row, run |-> Apply(op, row)]
    <3>1. r \in ApiRequests
      BY <1>1, AppliedType DEF ApiRequests
    <3>2. UNCHANGED <<row, durable, wf, proc, cur, overlapped, reopened>>
      BY <2>1 DEF LoadRequest
    <3> QED
      BY <2>3, <3>1, <3>2 DEF Loading, ToStart
  <2> QED
    BY <2>1, <2>2, <2>3 DEF LoadRequest
<1>b. CASE CommitRequest(q)
  <2>1. \E r \in ApiRequests : /\ req' = [req EXCEPT ![q] = r] /\ Cleared(r)
                               /\ ToStart(r) => req[q].op = "start"
    BY <1>1, <1>b, EndIs DEF CommitRequest
  <2>2. /\ req[q].stage = "loaded"
        /\ reopened' = (reopened \/ (req[q].op = "start" /\ IsTerminal(row)))
        /\ UNCHANGED <<durable, wf, proc, cur, overlapped>>
    BY <1>b DEF CommitRequest
  <2>3. \/ row' = row /\ req[q].run = req[q].base
        \/ req[q].run # req[q].base /\ row' \in Written(req[q].base, req[q].run, row)
    BY <1>b DEF CommitRequest
  <2> QED
    BY <2>1, <2>2, <2>3 DEF Committing
<1>c. CASE StartWorkflow(q)
  <2>1. \E r \in ApiRequests : req' = [req EXCEPT ![q] = r] /\ Cleared(r) /\ ~ToStart(r)
    BY <1>2, <1>c DEF StartWorkflow
  <2>2. /\ ToStart(req[q]) /\ UNCHANGED <<row, durable>>
        /\ \/ wf.pc # "running" /\ WorkflowStarts
           \/ UNCHANGED <<wf, proc, cur, overlapped, reopened>>
    BY <1>c DEF StartWorkflow, ToStart
  <2>3. CASE wf.pc # "running" /\ WorkflowStarts
    BY <2>1, <2>2, <2>3 DEF Starting
  <2>4. CASE UNCHANGED <<wf, proc, cur, overlapped, reopened>>
    BY <2>1, <2>2, <2>4 DEF Clearing
  <2> QED
    BY <2>2, <2>3, <2>4
<1>d. CASE UndoLoad(q)
  <2>1. CASE End(q, "done")
    BY <1>2, <1>d, <2>1 DEF UndoLoad, Clearing
  <2>2. CASE CanApply("fail", row)
             /\ req' = [req EXCEPT ![q].stage = "undone", ![q].base = row,
                                   ![q].run = Apply("fail", row)]
    <3> DEFINE r == [req[q] EXCEPT !.stage = "undone", !.base = row, !.run = Apply("fail", row)]
    <3>1. Apply("fail", row) \in AttackRuns
      BY <1>1, AppliedType DEF Operations
    <3>2. r \in ApiRequests /\ r.stage = "undone" /\ r.base = row /\ r.run = Apply("fail", row)
      BY <1>1, <3>1 DEF ApiRequests
    <3>3. req' = [req EXCEPT ![q] = r]
      BY <1>1, <2>2
    <3>4. UNCHANGED <<row, durable, wf, proc, cur, overlapped, reopened>>
      BY <1>d DEF UndoLoad
    <3> HIDE DEF r
    <3> QED
      BY <2>2, <3>2, <3>3, <3>4 DEF Loading, ToStart
  <2> QED
    BY <1>d, <2>1, <2>2 DEF UndoLoad
<1>e. CASE UndoCommit(q)
  <2>1. \E r \in ApiRequests : req' = [req EXCEPT ![q] = r] /\ Cleared(r) /\ ~ToStart(r)
    BY <1>2, <1>e DEF UndoCommit
  <2>2. /\ req[q].stage = "undone" /\ row' \in Written(req[q].base, req[q].run, row)
        /\ UNCHANGED <<durable, wf, proc, cur, overlapped, reopened>>
    BY <1>e DEF UndoCommit
  <2>3. reopened' = (reopened \/ (req[q].stage = "loaded" /\ req[q].op = "start"
                                  /\ IsTerminal(row)))
    BY <2>2, ShapeParts DEF Recording
  <2> QED
    BY <2>1, <2>2, <2>3 DEF Committing
<1>f. CASE SignalCancel(q)
  <2>1. \E r \in ApiRequests : req' = [req EXCEPT ![q] = r] /\ Cleared(r) /\ ~ToStart(r)
    BY <1>2, <1>f DEF SignalCancel
  <2>2. /\ wf' = wf \/ (wf.pc = "running" /\ wf' = [wf EXCEPT !.pc = "cancelled"])
        /\ UNCHANGED <<row, durable, proc, cur, overlapped, reopened>>
    BY <1>f DEF SignalCancel
  <2> QED
    BY <2>1, <2>2 DEF Clearing
<1>g. CASE AbortRequest(q)
  BY <1>2, <1>g DEF AbortRequest, Clearing
<1> QED
  BY <1>a, <1>b, <1>c, <1>d, <1>e, <1>f, <1>g DEF RequestStep

\* What a layer has to hold against.
LEMMA NextIs ==
  ASSUME Shape, [Next]_vars
  PROVE  \/ \E s \in Slots : Moving(s) \/ Leaving(s) \/ Retrying(s) \/ Stalling(s)
         \/ \E q \in Requests : Loading(q) \/ Committing(q) \/ Starting(q) \/ Clearing(q)
         \/ UNCHANGED vars
BY AttemptStepIs, AttemptFaultIs, RequestStepIs DEF Next

-----------------------------------------------------------------------------
(* What has been loaded and changed, and the standing of the run.          *)

\* A column of the stored row.
LEMMA WrittenFields ==
  ASSUME NEW base \in AttackRuns, NEW run \in AttackRuns, NEW r \in AttackRuns,
         NEW w \in Written(base, run, r)
  PROVE  /\ w.status = IF run.status # base.status \/ w = run THEN run.status ELSE r.status
         /\ \/ w.done = run.done /\ w.failed = run.failed /\ w.results = run.results
            \/ /\ w.done = IF run.done # base.done THEN run.done ELSE r.done
               /\ w.failed = IF run.failed # base.failed THEN run.failed ELSE r.failed
               /\ w.results = IF run.results # base.results THEN run.results ELSE r.results
BY DEF Written, Changed, AttackRuns

LEMMA AppliedFields ==
  ASSUME NEW op \in Operations, NEW run \in AttackRuns
  PROVE  /\ Apply(op, run).status = Target(op) /\ Apply(op, run).done = run.done
         /\ Apply(op, run).failed = run.failed /\ Apply(op, run).results = run.results
         /\ Target(op) \in Started
         /\ op # "start" => Target(op) \in TerminalStatuses
         /\ CanApply(op, run) /\ Apply(op, run) # run => Target(op) # run.status
<1>1. /\ Apply(op, run).status = Target(op) /\ Apply(op, run).done = run.done
      /\ Apply(op, run).failed = run.failed /\ Apply(op, run).results = run.results
  BY DEF Apply, AttackRuns
<1>2. Target(op) \in Started /\ (op # "start" => Target(op) \in TerminalStatuses)
  BY DEF Operations, Target, Started, TerminalStatuses
<1>3. ASSUME Target(op) = run.status PROVE Apply(op, run) = run
  BY <1>3 DEF Apply, AttackRuns
<1> QED
  BY <1>1, <1>2, <1>3

LEMMA FinalizedFields ==
  ASSUME NEW p \in Attempts, NEW run \in AttackRuns
  PROVE  LET f == Finalized(p, run)
         IN  /\ run.status = "running" =>
                  /\ f.status \in TerminalStatuses
                  /\ f.done = run.done + Len(p.rounds)
                  /\ f.failed = run.failed + Cardinality(OfKind(p.rounds, {"error"}))
             /\ run.status # "running" =>
                  f.status = run.status /\ f.done = run.done /\ f.failed = run.failed
             /\ f.results = [given |-> TRUE, rounds |-> p.rounds]
BY DEF Finalized, AttackRuns, TerminalStatuses

\* A store of a request leaves a run that has been started.
LEMMA CommittedStatus ==
  ASSUME Shape, Standing, NEW q \in Requests, req[q].stage \in {"loaded", "undone"},
         row' \in Written(req[q].base, req[q].run, row),
         req[q].run # req[q].base \/ req[q].stage = "undone"
  PROVE  /\ row'.status \in Started
         /\ ~(req[q].stage = "loaded" /\ req[q].op = "start") => IsTerminal(row')
<1> DEFINE r == req[q]
           op == IF r.stage = "loaded" THEN r.op ELSE "fail"
<1>1. op \in Operations /\ CanApply(op, r.base) /\ r.run = Apply(op, r.base)
  BY DEF Standing, RequestOf, Operations
<1>2. r.base \in AttackRuns /\ r.run \in AttackRuns /\ row \in AttackRuns
  BY ShapeParts DEF Recording, ApiRequests
<1>3. op = "start" => r.stage = "loaded" /\ r.op = "start"
  OBVIOUS
<1>6. r.run # r.base
  <2>1. CASE r.stage = "undone"
    <3>1. CanApply("fail", r.base) /\ r.run = Apply("fail", r.base)
      BY <2>1 DEF Standing, RequestOf
    <3>2. r.run.status = "failed"
      BY <1>2, <3>1, AppliedFields DEF Operations, Target
    <3> QED
      BY <3>1, <3>2 DEF CanApply, IsTerminal, TerminalStatuses
  <2> QED
    BY <2>1
<1> HIDE DEF op
<1>4. r.run.status = Target(op) /\ Target(op) # r.base.status /\ Target(op) \in Started
      /\ (op # "start" => Target(op) \in TerminalStatuses)
  BY <1>1, <1>2, <1>6, AppliedFields
<1>5. row'.status = r.run.status
  BY <1>2, <1>4, WrittenFields
<1> QED
  BY <1>3, <1>4, <1>5 DEF IsTerminal

LEMMA StandingInit == Init => Standing
BY DEF Init, Standing, LoadedOf, RequestOf, Idle

LEMMA AttemptStanding ==
  ASSUME Shape, Shape', Standing, NEW s \in Slots,
         Moving(s) \/ Leaving(s) \/ Retrying(s) \/ Stalling(s)
  PROVE  Standing'
<1>1. Attempting /\ Recording /\ row' \in AttackRuns
  BY ShapeParts DEF Shape, TypeOK
<1>2. wf.pc # "none" /\ row.status \in Started
  BY DEF Standing, Moving, Leaving, Retrying, Stalling, Awaited
<1>3. LoadedOf(Idle) /\ LoadedOf(NewAttempt)
  BY DEF LoadedOf, Idle, NewAttempt
<1>4. req' = req
  BY DEF Moving, Leaving, Retrying, Stalling
<1>5. wf'.pc # "none"
  <2>1. CASE Moving(s)
    BY <1>2, <2>1 DEF Moving
  <2>2. CASE Leaving(s)
    BY <1>1, <1>2, <2>2
       DEF Leaving, Attempting, ShapeOf, Attempts, Resulting, TerminalStatuses, CampaignEnds, NoRound
  <2>3. CASE Retrying(s)
    BY <1>1, <1>2, <2>3 DEF Retrying, Attempting
  <2>4. CASE Stalling(s)
    BY <1>1, <1>2, <2>4 DEF Stalling, NextAttempt, Attempting
  <2> QED
    BY <2>1, <2>2, <2>3, <2>4
<1>6. row'.status \in Started /\ \A t \in Slots : LoadedOf(proc'[t])
  <2>1. CASE Moving(s)
    <3>1. PICK x \in Attempts :
            /\ proc[s].stage # "idle" /\ Moves(proc[s], x) /\ proc' = [proc EXCEPT ![s] = x]
            /\ row' \in IF Storing(proc[s], x)
                        THEN Written(proc[s].base, proc[s].run, row) ELSE {row}
      BY <2>1 DEF Moving
    <3>2. proc[s] \in Attempts /\ LoadedOf(proc[s])
      BY <1>1 DEF Attempting, Standing
    <3>3. row'.status \in Started
      <4>1. CASE Storing(proc[s], x)
        <5>1. row' \in Written(proc[s].base, proc[s].run, row)
          BY <3>1, <4>1
        <5>2. proc[s].base \in AttackRuns /\ proc[s].run \in AttackRuns /\ row \in AttackRuns
          BY <1>1, <3>2 DEF Attempts, Recording
        <5>3. proc[s].run.status \in Started
          <6>1. CASE proc[s].stage = "finalizing"
            <7>1. /\ proc[s].base.status \in Started
                  /\ proc[s].run = Finalized(proc[s], proc[s].base)
              BY <3>2, <6>1 DEF LoadedOf
            <7>2. \/ Finalized(proc[s], proc[s].base).status \in TerminalStatuses
                  \/ Finalized(proc[s], proc[s].base).status = proc[s].base.status
              BY <3>2, <5>2, FinalizedFields
            <7> QED
              BY <7>1, <7>2 DEF Started
          <6>2. CASE proc[s].stage = "marking"
            BY <3>2, <5>2, <6>2, AppliedFields DEF LoadedOf, Operations
          <6> QED
            BY <4>1, <6>1, <6>2 DEF Storing
        <5> QED
          BY <1>2, <5>1, <5>2, <5>3, WrittenFields
      <4>2. CASE ~Storing(proc[s], x)
        BY <1>2, <3>1, <4>2
      <4> QED
        BY <4>1, <4>2
    <3>4. LoadedOf(x)
      <4>1. CASE x.stage = "finalizing"
        <5>1. x.base = row /\ x.run = Finalized(x, row)
          BY <3>1, <4>1, <1>1, RecordedIs DEF Moves, Campaigning, Attempting
        <5> QED
          BY <1>2, <4>1, <5>1 DEF LoadedOf
      <4>2. CASE x.stage = "marking"
        <5>1. row.status = "running" /\ x.base = row /\ x.run = Apply("fail", row)
          BY <3>1, <4>2, <1>1, RecordedIs DEF Moves, Campaigning, Attempting
        <5> QED
          BY <1>2, <4>2, <5>1 DEF LoadedOf
      <4>3. CASE x.stage \notin {"finalizing", "marking"}
        BY <4>3 DEF LoadedOf
      <4> QED
        BY <4>1, <4>2, <4>3
    <3>5. \A t \in Slots : proc'[t] = IF t = s THEN x ELSE proc[t]
      BY <1>1, <3>1 DEF Attempting
    <3> QED
      BY <3>3, <3>4, <3>5 DEF Standing
  <2>2. CASE Leaving(s) \/ Retrying(s) \/ Stalling(s)
    <3>1. row' = row
      BY <2>2 DEF Leaving, Retrying, Stalling
    <3>2. \A t \in Slots : proc'[t] \in {proc[t], Idle, NewAttempt}
      BY <1>1, <2>2 DEF Leaving, Retrying, Stalling, NextAttempt, Attempting
    <3> QED
      BY <1>2, <1>3, <3>1, <3>2 DEF Standing
  <2> QED
    BY <2>1, <2>2
<1> QED
  BY <1>4, <1>5, <1>6 DEF Standing

LEMMA RequestStanding ==
  ASSUME Shape, Shape', Standing, NEW q \in Requests,
         Loading(q) \/ Committing(q) \/ Starting(q) \/ Clearing(q)
  PROVE  Standing'
<1>1. /\ proc \in [Slots -> Attempts] /\ req \in [Requests -> ApiRequests]
      /\ \A s \in Slots : ShapeOf(proc[s])
      /\ wf \in [pc : {"none", "running", "error"} \cup CampaignEnds, attempt : 1 .. MaxAttempts]
  BY ShapeParts DEF Attempting, Recording
<1>2. LoadedOf(NewAttempt)
  BY DEF LoadedOf, Idle, NewAttempt
<1>3. \A r : Cleared(r) => RequestOf(r)
  BY DEF Cleared, RequestOf
<1>a. CASE Loading(q)
  <2>1. PICK r \in ApiRequests :
          /\ req' = [req EXCEPT ![q] = r] /\ ~ToStart(r)
          /\ r.base = row
          /\ \/ /\ r.stage = "loaded" /\ r.op \in Operations /\ CanApply(r.op, row)
                /\ r.run = Apply(r.op, row)
             \/ r.stage = "undone" /\ CanApply("fail", row) /\ r.run = Apply("fail", row)
          /\ UNCHANGED <<row, durable, wf, proc, cur, overlapped, reopened>>
    BY <1>a DEF Loading
  <2>2. RequestOf(r)
    BY <2>1 DEF RequestOf
  <2>3. \A u \in Requests : req'[u] = IF u = q THEN r ELSE req[u]
    BY <1>1, <2>1
  <2> QED
    BY <2>1, <2>2, <2>3 DEF Standing, ToStart
<1>b. CASE Committing(q)
  <2>1. PICK r \in ApiRequests :
          /\ req[q].stage \in {"loaded", "undone"}
          /\ req' = [req EXCEPT ![q] = r] /\ Cleared(r)
          /\ ToStart(r) => req[q].op = "start" /\ req[q].stage = "loaded"
          /\ \/ row' = row /\ req[q].run = req[q].base
             \/ /\ req[q].run # req[q].base \/ req[q].stage = "undone"
                /\ row' \in Written(req[q].base, req[q].run, row)
          /\ UNCHANGED <<durable, wf, proc, cur, overlapped>>
    BY <1>b DEF Committing
  <2>2. \A u \in Requests : req'[u] = IF u = q THEN r ELSE req[u]
    BY <1>1, <2>1
  <2>3. \A u \in Requests : RequestOf(req'[u])
    BY <1>3, <2>1, <2>2 DEF Standing
  <2>4. CASE /\ req[q].run # req[q].base \/ req[q].stage = "undone"
             /\ row' \in Written(req[q].base, req[q].run, row)
    <3>1. row'.status \in Started
      BY <2>1, <2>4, CommittedStatus
    <3> QED
      BY <2>1, <2>3, <3>1 DEF Standing
  <2>5. CASE row' = row /\ req[q].run = req[q].base
    <3>1. ToStart(r) => FALSE
      <4>1. ASSUME ToStart(r) PROVE FALSE
        <5>1. CanApply("start", req[q].base) /\ req[q].run = Apply("start", req[q].base)
          BY <2>1, <4>1 DEF Standing, RequestOf
        <5>2. req[q].base \in AttackRuns
          BY ShapeParts DEF Recording, ApiRequests
        <5>3. req[q].run.status = "running"
          BY <5>1, <5>2, AppliedFields DEF Operations, Target
        <5> QED
          BY <2>5, <5>1, <5>3 DEF CanApply
      <4> QED
        BY <4>1
    <3> QED
      BY <2>1, <2>2, <2>3, <2>5, <3>1 DEF Standing, ToStart
  <2> QED
    BY <2>1, <2>4, <2>5
<1>c. CASE Starting(q)
  <2>1. PICK r \in ApiRequests :
          /\ ToStart(req[q]) /\ wf.pc # "running" /\ WorkflowStarts
          /\ req' = [req EXCEPT ![q] = r] /\ Cleared(r) /\ ~ToStart(r)
          /\ UNCHANGED <<row, durable>>
    BY <1>c DEF Starting
  <2>2. \A u \in Requests : req'[u] = IF u = q THEN r ELSE req[u]
    BY <1>1, <2>1
  <2>3. \A u \in Requests : RequestOf(req'[u])
    BY <1>3, <2>1, <2>2 DEF Standing
  <2>4. row.status \in Started
    BY <2>1 DEF Standing, ToStart
  <2>5. wf'.pc = "running" /\ \A t \in Slots : proc'[t] \in {proc[t], NewAttempt}
    BY <1>1, <2>1 DEF WorkflowStarts
  <2> QED
    BY <1>2, <2>1, <2>3, <2>4, <2>5 DEF Standing
<1>d. CASE Clearing(q)
  <2>1. PICK r \in ApiRequests :
          /\ req' = [req EXCEPT ![q] = r] /\ Cleared(r) /\ ~ToStart(r)
          /\ wf' = wf \/ (wf.pc = "running" /\ wf' = [wf EXCEPT !.pc = "cancelled"])
          /\ UNCHANGED <<row, durable, proc, cur, overlapped, reopened>>
    BY <1>d DEF Clearing
  <2>2. \A u \in Requests : req'[u] = IF u = q THEN r ELSE req[u]
    BY <1>1, <2>1
  <2>3. \A u \in Requests : RequestOf(req'[u])
    BY <1>3, <2>1, <2>2 DEF Standing
  <2>4. wf.pc # "none" <=> wf'.pc # "none"
    BY <1>1, <2>1
  <2> QED
    BY <2>1, <2>2, <2>3, <2>4 DEF Standing, ToStart
<1> QED
  BY <1>a, <1>b, <1>c, <1>d

LEMMA StandingStep == Shape /\ Shape' /\ Standing /\ [Next]_vars => Standing'
<1> SUFFICES ASSUME Shape, Shape', Standing, [Next]_vars PROVE Standing'
  OBVIOUS
<1>1. CASE UNCHANGED vars
  BY <1>1 DEF vars, Standing
<1> QED
  BY <1>1, NextIs, AttemptStanding, RequestStanding

-----------------------------------------------------------------------------
(* A terminal run stays terminal, and attempts follow one another.         *)

\* Whatever an attempt stores is terminal.
LEMMA StoredTerminal ==
  ASSUME Shape, Standing, Settled, ~reopened, NEW s \in Slots,
         proc[s].stage \in {"finalizing", "marking"},
         row' \in Written(proc[s].base, proc[s].run, row)
  PROVE  IsTerminal(row')
<1> DEFINE p == proc[s]
<1>1. p \in Attempts /\ p.base \in AttackRuns /\ p.run \in AttackRuns /\ row \in AttackRuns
  BY ShapeParts DEF Attempting, Recording, Attempts
<1>2. LoadedOf(p) /\ Stands(p, row)
  BY DEF Standing, Settled
<1> HIDE DEF p
<1>3. row'.status = IF p.run.status # p.base.status \/ row' = p.run
                    THEN p.run.status ELSE row.status
  BY <1>1, WrittenFields DEF p
<1>4. CASE p.stage = "marking"
  <2>1. p.base.status = "running" /\ p.run.status = "failed"
    BY <1>1, <1>2, <1>4, AppliedFields DEF LoadedOf, Operations, Target
  <2> QED
    BY <1>3, <2>1 DEF IsTerminal, TerminalStatuses
<1>5. CASE p.stage = "finalizing"
  <2>1. p.base.status \in Started /\ p.run = Finalized(p, p.base)
    BY <1>2, <1>5 DEF LoadedOf
  <2>2. /\ p.base.status = "running" => p.run.status \in TerminalStatuses
        /\ p.base.status # "running" => p.run.status = p.base.status
    <3>1. /\ p.base.status = "running" =>
               Finalized(p, p.base).status \in TerminalStatuses
          /\ p.base.status # "running" =>
               Finalized(p, p.base).status = p.base.status
      BY <1>1, FinalizedFields
    <3> QED
      BY <2>1, <3>1
  <2>3. CASE p.base.status = "running"
    BY <1>3, <2>2, <2>3 DEF IsTerminal, TerminalStatuses
  <2>4. CASE p.base.status # "running"
    <3>1. IsTerminal(p.base) /\ IsTerminal(p.run)
      BY <2>1, <2>2, <2>4 DEF Started, IsTerminal
    <3>2. IsTerminal(row)
      BY <1>2, <1>5, <3>1 DEF Stands
    <3> QED
      BY <1>3, <3>1, <3>2 DEF IsTerminal
  <2> QED
    BY <2>3, <2>4
<1> QED
  BY <1>4, <1>5 DEF p

LEMMA TerminalStays ==
  ASSUME Shape, Standing, Settled, [Next]_vars, ~reopened', IsTerminal(row)
  PROVE  IsTerminal(row') /\ ~reopened
<1>1. CASE \E s \in Slots : Moving(s) \/ Leaving(s) \/ Retrying(s) \/ Stalling(s)
  <2>1. PICK s \in Slots : Moving(s) \/ Leaving(s) \/ Retrying(s) \/ Stalling(s)
    BY <1>1
  <2>2. ~reopened
    BY <2>1 DEF Moving, Leaving, Retrying, Stalling
  <2>3. CASE row' \in Written(proc[s].base, proc[s].run, row)
             /\ proc[s].stage \in {"finalizing", "marking"}
    BY <2>2, <2>3, StoredTerminal
  <2>4. CASE row' = row
    BY <2>2, <2>4
  <2> QED
    BY <2>1, <2>3, <2>4 DEF Moving, Leaving, Retrying, Stalling, Storing
<1>2. CASE \E q \in Requests : Loading(q) \/ Committing(q) \/ Starting(q) \/ Clearing(q)
  <2>1. PICK q \in Requests : Loading(q) \/ Committing(q) \/ Starting(q) \/ Clearing(q)
    BY <1>2
  <2>2. ~reopened
    BY <2>1 DEF Loading, Committing, Starting, Clearing, WorkflowStarts
  <2>3. CASE Committing(q)
    <3>1. ~(req[q].stage = "loaded" /\ req[q].op = "start")
      BY <2>3 DEF Committing
    <3>2. CASE row' = row
      BY <2>2, <3>2
    <3>3. CASE row' # row
      <4>1. /\ req[q].stage \in {"loaded", "undone"}
            /\ req[q].run # req[q].base \/ req[q].stage = "undone"
            /\ row' \in Written(req[q].base, req[q].run, row)
        BY <2>3, <3>3 DEF Committing
      <4> QED
        BY <2>2, <3>1, <4>1, CommittedStatus
    <3> QED
      BY <3>2, <3>3
  <2>4. CASE Loading(q) \/ Starting(q) \/ Clearing(q)
    BY <2>2, <2>4 DEF Loading, Starting, Clearing
  <2> QED
    BY <2>1, <2>3, <2>4
<1>3. CASE UNCHANGED vars
  BY <1>3 DEF vars
<1> QED
  BY <1>1, <1>2, <1>3, NextIs

LEMMA SettledInit == Init => Settled
BY DEF Init, Settled, Stands, Idle

\* The attempt that moves.
LEMMA MovingStands ==
  ASSUME Shape, Standing, Settled, ~reopened, NEW s \in Slots, NEW x \in Attempts,
         Moves(proc[s], x), IsTerminal(row) => IsTerminal(row'),
         Storing(proc[s], x) => IsTerminal(row'), ~Storing(proc[s], x) => row' = row,
         proc[s].stage # "idle"
  PROVE  Stands(x, row')
<1> DEFINE p == proc[s]
<1>1. p \in Attempts /\ ShapeOf(p) /\ Stands(p, row)
  BY ShapeParts DEF Attempting, Settled
<1>2. row.status \in Started
  BY DEF Standing
<1>3. p.stage \in {"executed", "upserting"} /\ x = Recorded(p) =>
        x.late = p.late /\ x.stage \in {"finished", "running"}
  BY <1>1, RecordedIs
<1> HIDE DEF p
<1>4. x.late = p.late
  BY <1>3 DEF Moves, Keeps, p
<1>5. ASSUME x.stage = "loading", x.status \in TerminalStatuses PROVE IsTerminal(row')
  BY <1>1, <1>3, <1>5 DEF Moves, Stands, Storing, Campaigning, IsTerminal, p
<1>6. ASSUME x.stage = "finalizing", IsTerminal(x.base) PROVE IsTerminal(row')
  BY <1>1, <1>3, <1>6 DEF Moves, Stands, Storing, Campaigning, p
<1>7. ASSUME x.stage = "returning" PROVE IsTerminal(row')
  <2>1. CASE Storing(p, x)
    BY <2>1 DEF p
  <2>2. CASE ~Storing(p, x)
    <3>1. row.status # "running" /\ row' = row
      BY <1>3, <1>7, <2>2 DEF Moves, Storing, Campaigning, p
    <3> QED
      BY <1>2, <3>1 DEF Started, IsTerminal
  <2> QED
    BY <2>1, <2>2
<1>8. ASSUME x.late
      PROVE  /\ IsTerminal(row')
             /\ x.stage = "loading" => x.status \in TerminalStatuses
             /\ x.stage \notin Campaigning
  <2>1. /\ IsTerminal(row) /\ p.stage \notin Campaigning
        /\ p.stage = "loading" => p.status \in TerminalStatuses
    BY <1>1, <1>4, <1>8 DEF Stands
  <2>2. x.stage = "loading" => x.status \in TerminalStatuses
    BY <1>3, <2>1 DEF Moves, Campaigning, IsTerminal, p
  <2>3. x.stage \notin Campaigning
    BY <1>3, <2>1 DEF Moves, Campaigning, p
  <2> QED
    BY <2>1, <2>2, <2>3
<1> QED
  BY <1>5, <1>6, <1>7, <1>8 DEF Stands

LEMMA StandsStays ==
  ASSUME NEW p, Stands(p, row), IsTerminal(row) => IsTerminal(row')
  PROVE  Stands(p, row')
BY DEF Stands

LEMMA NewStands == Stands(Idle, row) /\ Stands(NewAttempt, row)
<1>1. Idle.late = FALSE /\ Idle.stage = "idle"
  BY DEF Idle
<1>2. NewAttempt.late = IsTerminal(row) /\ NewAttempt.stage = "new"
  BY DEF NewAttempt, Idle
<1> QED
  BY <1>1, <1>2 DEF Stands, Campaigning

LEMMA SettledStep ==
  ASSUME Shape, Standing, Settled, [Next]_vars
  PROVE  Settled'
<1> SUFFICES ASSUME ~reopened'
             PROVE  /\ \A t \in Slots : Stands(proc'[t], row')
                    /\ wf'.pc \in {"completed", "failed"} => IsTerminal(row')
  BY DEF Settled
<1>1. IsTerminal(row) => IsTerminal(row')
  BY TerminalStays
<1>2. Attempting
  BY ShapeParts
<1>3. CASE \E s \in Slots : Moving(s) \/ Leaving(s) \/ Retrying(s) \/ Stalling(s)
  <2>1. PICK s \in Slots : Moving(s) \/ Leaving(s) \/ Retrying(s) \/ Stalling(s)
    BY <1>3
  <2>2. ~reopened /\ \A t \in Slots : Stands(proc[t], row)
    BY <2>1 DEF Moving, Leaving, Retrying, Stalling, Settled
  <2>3. CASE Moving(s)
    <3>1. PICK x \in Attempts :
            /\ proc[s].stage # "idle" /\ Moves(proc[s], x) /\ proc' = [proc EXCEPT ![s] = x]
            /\ row' \in IF Storing(proc[s], x)
                        THEN Written(proc[s].base, proc[s].run, row) ELSE {row}
            /\ wf' = wf
      BY <2>3 DEF Moving
    <3>2. Storing(proc[s], x) => IsTerminal(row')
      BY <2>2, <3>1, StoredTerminal DEF Storing
    <3>3. Stands(x, row')
      BY <1>1, <2>2, <3>1, <3>2, MovingStands
    <3>4. \A t \in Slots : proc'[t] = IF t = s THEN x ELSE proc[t]
      BY <1>2, <3>1 DEF Attempting
    <3>5. \A t \in Slots : Stands(proc[t], row')
      BY <1>1, <2>2, StandsStays
    <3>6. wf'.pc \in {"completed", "failed"} => IsTerminal(row')
      BY <1>1, <2>2, <3>1 DEF Settled
    <3> QED
      BY <3>3, <3>4, <3>5, <3>6
  <2>4. CASE Leaving(s) \/ Retrying(s) \/ Stalling(s)
    <3>1. row' = row
      BY <2>4 DEF Leaving, Retrying, Stalling
    <3>2. \A t \in Slots : proc'[t] \in {proc[t], Idle, NewAttempt}
      BY <1>2, <2>4 DEF Leaving, Retrying, Stalling, NextAttempt, Attempting
    <3>3. \A t \in Slots : Stands(proc'[t], row)
      BY <2>2, <3>2, NewStands
    <3>4. ASSUME wf'.pc \in {"completed", "failed"} PROVE IsTerminal(row)
      <4>1. CASE wf'.pc = wf.pc
        BY <2>2, <3>4, <4>1 DEF Settled
      <4>2. CASE wf'.pc # wf.pc
        <5>1. Leaving(s) /\ wf'.pc # "error"
          BY <1>2, <2>4, <3>4, <4>2 DEF Retrying, Stalling, NextAttempt, Attempting
        <5>2. \/ proc[s].stage = "returning"
              \/ proc[s].stage = "loading" /\ proc[s].status \in TerminalStatuses
          BY <1>2, <4>2, <5>1 DEF Leaving, Attempting
        <5> QED
          BY <2>2, <5>2 DEF Stands
      <4> QED
        BY <4>1, <4>2
    <3> QED
      BY <3>1, <3>3, <3>4
  <2> QED
    BY <2>1, <2>3, <2>4
<1>4. CASE \E q \in Requests : Loading(q) \/ Committing(q) \/ Starting(q) \/ Clearing(q)
  <2>1. PICK q \in Requests : Loading(q) \/ Committing(q) \/ Starting(q) \/ Clearing(q)
    BY <1>4
  <2>2. ~reopened /\ \A t \in Slots : Stands(proc[t], row)
    <3>1. ~reopened
      BY <2>1 DEF Loading, Committing, Starting, Clearing, WorkflowStarts
    <3> QED
      BY <3>1 DEF Settled
  <2>3. \A t \in Slots : proc'[t] \in {proc[t], NewAttempt}
    BY <1>2, <2>1 DEF Loading, Committing, Starting, Clearing, WorkflowStarts, Attempting
  <2>4. \A t \in Slots : Stands(proc'[t], row)
    BY <2>2, <2>3, NewStands
  <2>5. \A t \in Slots : Stands(proc'[t], row')
    BY <1>1, <2>4, StandsStays
  <2>6. wf'.pc \in {"completed", "failed"} => wf.pc = wf'.pc
    BY <1>2, <2>1 DEF Loading, Committing, Starting, Clearing, WorkflowStarts, Attempting
  <2> QED
    BY <1>1, <2>2, <2>5, <2>6 DEF Settled
<1>5. CASE UNCHANGED vars
  BY <1>5 DEF vars, Settled
<1> QED
  BY <1>3, <1>4, <1>5, NextIs

LEMMA UniqueInit == Init => Unique
BY DEF Init, Unique, Idle

LEMMA UniqueStep ==
  ASSUME Shape, Unique, [Next]_vars
  PROVE  Unique'
<1>1. /\ Attempting /\ Idle.stage = "idle" /\ NewAttempt.stage = "new"
      /\ \A s \in Slots : ShapeOf(proc[s])
  BY ShapeParts DEF Idle, NewAttempt, Attempting
<1>2. CASE \E s \in Slots : Moving(s) \/ Leaving(s) \/ Retrying(s) \/ Stalling(s)
  <2>1. PICK s \in Slots : Moving(s) \/ Leaving(s) \/ Retrying(s) \/ Stalling(s)
    BY <1>2
  <2>2. CASE Moving(s)
    <3>1. PICK x \in Attempts :
            /\ proc[s].stage # "idle" /\ Moves(proc[s], x) /\ proc' = [proc EXCEPT ![s] = x]
            /\ UNCHANGED <<wf, cur, overlapped>>
      BY <2>2 DEF Moving
    <3>2. x.stage # "idle"
      BY <1>1, <3>1, RecordedIs DEF Moves, Campaigning
    <3>3. \A t \in Slots : proc'[t] = IF t = s THEN x ELSE proc[t]
      BY <1>1, <3>1 DEF Attempting
    <3> QED
      BY <1>1, <3>1, <3>2, <3>3 DEF Unique, Attempting
  <2>3. CASE Leaving(s)
    <3>1. \A t \in Slots : proc'[t] = IF t = s THEN Idle ELSE proc[t]
      BY <1>1, <2>3 DEF Leaving, Attempting
    <3>2. overlapped' = overlapped
      BY <2>3 DEF Leaving
    <3>3. wf'.pc = "running" => cur' = cur /\ cur # s /\ wf.pc = "running"
      BY <1>1, <2>3
         DEF Leaving, Awaited, Attempting, ShapeOf, Attempts, CampaignEnds, TerminalStatuses,
             Resulting, NoRound
    <3> QED
      BY <1>1, <3>1, <3>2, <3>3 DEF Unique, Attempting
  <2>4. CASE Retrying(s)
    <3>1. \A t \in Slots : proc'[t] = IF t = s THEN NewAttempt ELSE proc[t]
      BY <1>1, <2>4 DEF Retrying, Attempting
    <3> QED
      BY <1>1, <2>4, <3>1 DEF Unique, Retrying, Awaited
  <2>5. CASE Stalling(s)
    <3>1. PICK n \in Slots \ {s} : NextAttempt(proc, n)
      BY <2>5 DEF Stalling
    <3>2. overlapped'
      BY <2>5 DEF Stalling
    <3>3. wf'.pc = "running" => proc'[cur'] = NewAttempt
      BY <1>1, <3>1 DEF NextAttempt, Attempting
    <3> QED
      BY <1>1, <3>2, <3>3 DEF Unique
  <2> QED
    BY <2>1, <2>2, <2>3, <2>4, <2>5
<1>3. CASE \E q \in Requests : Loading(q) \/ Committing(q) \/ Starting(q) \/ Clearing(q)
  <2>1. PICK q \in Requests : Loading(q) \/ Committing(q) \/ Starting(q) \/ Clearing(q)
    BY <1>3
  <2>2. CASE Loading(q) \/ Committing(q) \/ Clearing(q)
    <3>1. UNCHANGED <<proc, cur, overlapped>> /\ (wf'.pc = "running" => wf.pc = "running")
      BY <1>1, <2>2 DEF Loading, Committing, Clearing, Attempting
    <3> QED
      BY <3>1 DEF Unique
  <2>3. CASE Starting(q)
    <3>1. PICK n \in Slots : cur' = n /\ proc' = [proc EXCEPT ![n] = NewAttempt]
      BY <2>3 DEF Starting, WorkflowStarts
    <3>2. \A t \in Slots : proc'[t] = IF t = n THEN NewAttempt ELSE proc[t]
      BY <1>1, <3>1 DEF Attempting
    <3>3. ~overlapped' => \A t \in Slots : proc[t].stage = "idle"
      BY <2>3 DEF Starting, WorkflowStarts
    <3> QED
      BY <1>1, <3>1, <3>2, <3>3 DEF Unique
  <2> QED
    BY <2>1, <2>2, <2>3
<1>4. CASE UNCHANGED vars
  BY <1>4 DEF vars, Unique
<1> QED
  BY <1>2, <1>3, <1>4, NextIs

-----------------------------------------------------------------------------
(* Steps that keep to one attempt of one workflow.                         *)

\* The history of a run whose attempts never overlapped and that was started once.
Plain == ~overlapped /\ ~reopened

LEMMA PlainBefore ==
  ASSUME Shape, [Next]_vars, Plain'
  PROVE  Plain
<1>1. CASE \E s \in Slots : Moving(s) \/ Leaving(s) \/ Retrying(s) \/ Stalling(s)
  <2>1. PICK s \in Slots : Moving(s) \/ Leaving(s) \/ Retrying(s) \/ Stalling(s)
    BY <1>1
  <2>2. reopened' = reopened /\ (overlapped' \/ overlapped' = overlapped)
    BY <2>1 DEF Moving, Leaving, Retrying, Stalling
  <2> QED
    BY <2>2 DEF Plain
<1>2. CASE \E q \in Requests : Loading(q) \/ Committing(q) \/ Starting(q) \/ Clearing(q)
  <2>1. PICK q \in Requests : Loading(q) \/ Committing(q) \/ Starting(q) \/ Clearing(q)
    BY <1>2
  <2>2. (reopened => reopened') /\ (overlapped => overlapped')
    <3>1. CASE Loading(q) \/ Clearing(q)
      BY <3>1 DEF Loading, Clearing
    <3>2. CASE Committing(q)
      <4>1. reopened' = (reopened \/ (req[q].stage = "loaded" /\ req[q].op = "start"
                                      /\ IsTerminal(row)))
            /\ overlapped' = overlapped
        BY <3>2 DEF Committing
      <4> QED
        BY <4>1
    <3>3. CASE Starting(q)
      <4>1. /\ overlapped' = (overlapped \/ \E s \in Slots : proc[s].stage # "idle")
            /\ reopened' = (reopened \/ wf.pc # "none")
        BY <3>3, Zenon DEF Starting, WorkflowStarts
      <4> QED
        BY <4>1
    <3> QED
      BY <2>1, <3>1, <3>2, <3>3
  <2> QED
    BY <2>2 DEF Plain
<1>3. CASE UNCHANGED vars
  BY <1>3 DEF vars, Plain
<1> QED
  BY <1>1, <1>2, <1>3, NextIs

\* A step of an attempt, in such a history: the other slots are idle.
LEMMA AloneMoves ==
  ASSUME Shape, Unique, Plain, NEW s \in Slots, Moving(s)
  PROVE  \E x \in Attempts :
           /\ proc[s].stage # "idle" /\ Moves(proc[s], x)
           /\ \A t \in Slots : proc'[t] = IF t = s THEN x ELSE Idle
           /\ row' \in IF Storing(proc[s], x)
                       THEN Written(proc[s].base, proc[s].run, row) ELSE {row}
           /\ durable' = IF Checkpointing(proc[s], x)
                         THEN [durable EXCEPT ![Len(proc[s].rounds) + 1] = proc[s].kind]
                         ELSE durable
           /\ wf' = wf /\ req' = req
<1>1. PICK x \in Attempts :
        /\ proc[s].stage # "idle" /\ Moves(proc[s], x) /\ proc' = [proc EXCEPT ![s] = x]
        /\ row' \in IF Storing(proc[s], x)
                    THEN Written(proc[s].base, proc[s].run, row) ELSE {row}
        /\ durable' = IF Checkpointing(proc[s], x)
                      THEN [durable EXCEPT ![Len(proc[s].rounds) + 1] = proc[s].kind]
                      ELSE durable
        /\ wf' = wf /\ req' = req
  BY DEF Moving
<1>2. proc \in [Slots -> Attempts] /\ \A t \in Slots : ShapeOf(proc[t])
  BY ShapeParts DEF Attempting
<1>3. \A t \in Slots \ {s} : proc[t] = Idle
  BY <1>1, <1>2 DEF Unique, Plain, ShapeOf
<1>4. \A t \in Slots : proc'[t] = IF t = s THEN x ELSE Idle
  BY <1>1, <1>2, <1>3
<1> QED
  BY <1>1, <1>4

LEMMA AloneEnds ==
  ASSUME Shape, NEW s \in Slots, Leaving(s) \/ Retrying(s) \/ Stalling(s)
  PROVE  /\ \A t \in Slots : proc'[t] \in {proc[t], Idle, NewAttempt}
         /\ row' = row /\ durable' = durable /\ req' = req
<1>1. proc \in [Slots -> Attempts]
  BY ShapeParts DEF Attempting
<1> QED
  BY <1>1 DEF Leaving, Retrying, Stalling, NextAttempt

-----------------------------------------------------------------------------
(* The counters.                                                           *)

LEMMA NewRunFields ==
  /\ NewRun.done = 0 /\ NewRun.failed = 0 /\ ~NewRun.results.given
  /\ Uncounted(NewRun) /\ Bounded(NewRun)
BY RedTeamCampaignAssumption DEF NewRun, NoResults, Uncounted, Bounded

LEMMA CountedInit == Init => Counted
BY NewRunFields DEF Init, Counted, Sound, Idle

LEMMA SoundStays ==
  ASSUME NEW run, Sound(run, row), IsTerminal(row) => IsTerminal(row')
  PROVE  Sound(run, row')
BY DEF Sound

\* The counters an attempt stores, when nothing else has counted.
LEMMA StoredSound ==
  ASSUME Shape, Standing, Settled, Counted, Plain, NEW s \in Slots,
         proc[s].stage \in {"finalizing", "marking"},
         row' \in Written(proc[s].base, proc[s].run, row)
  PROVE  Sound(row', row')
<1> DEFINE p == proc[s]
<1>1. /\ p \in Attempts /\ p.base \in AttackRuns /\ p.run \in AttackRuns
      /\ row \in AttackRuns /\ ShapeOf(p) /\ LoadedOf(p) /\ p.rounds \in Seq(Rounds)
  BY ShapeParts DEF Attempting, Recording, Attempts, Standing
<1>2. IsTerminal(row')
  BY StoredTerminal DEF Plain
<1>3. Bounded(row) /\ Bounded(p.base)
  BY DEF Counted, Plain, Sound
<1>4. \/ row'.done = p.run.done /\ row'.failed = p.run.failed
      \/ /\ row'.done = IF p.run.done # p.base.done THEN p.run.done ELSE row.done
         /\ row'.failed = IF p.run.failed # p.base.failed THEN p.run.failed ELSE row.failed
  BY <1>1, WrittenFields
<1>5. CASE p.stage = "finalizing" /\ p.base.status = "running"
  <2>1. p.run = Finalized(p, p.base)
    BY <1>1, <1>5 DEF LoadedOf
  <2>2. /\ Finalized(p, p.base).done = p.base.done + Len(p.rounds)
        /\ Finalized(p, p.base).failed =
             p.base.failed + Cardinality(OfKind(p.rounds, {"error"}))
    BY <1>1, <1>5, FinalizedFields
  <2>3. Uncounted(p.base) /\ Uncounted(row)
    BY <1>5 DEF Counted, Plain
  <2>4. /\ Len(p.rounds) \in Nat /\ Len(p.rounds) <= MaxRounds
        /\ Cardinality(OfKind(p.rounds, {"error"})) \in Nat
        /\ Cardinality(OfKind(p.rounds, {"error"})) <= Len(p.rounds)
    BY <1>1, OfKindFinite, LenProperties DEF ShapeOf
  <2>5. p.run.done = Len(p.rounds) /\ p.run.failed = Cardinality(OfKind(p.rounds, {"error"}))
    BY <2>1, <2>2, <2>3, <2>4 DEF Uncounted
  <2>6. row'.done = p.run.done /\ row'.failed = p.run.failed
    BY <1>4, <2>3, <2>5 DEF Uncounted
  <2> QED
    BY <1>2, <2>4, <2>5, <2>6 DEF Sound, Bounded
<1>6. CASE ~(p.stage = "finalizing" /\ p.base.status = "running")
  <2>1. p.run.done = p.base.done /\ p.run.failed = p.base.failed
    <3>1. CASE p.stage = "marking"
      BY <1>1, <3>1, AppliedFields DEF LoadedOf, Operations
    <3>2. CASE p.stage = "finalizing"
      <4>1. p.run = Finalized(p, p.base) /\ p.base.status # "running"
        BY <1>1, <1>6, <3>2 DEF LoadedOf
      <4>2. /\ Finalized(p, p.base).done = p.base.done
            /\ Finalized(p, p.base).failed = p.base.failed
        BY <1>1, <4>1, FinalizedFields
      <4> QED
        BY <4>1, <4>2
    <3> QED
      BY <3>1, <3>2
  <2>2. \/ row'.done = p.base.done /\ row'.failed = p.base.failed
        \/ row'.done = row.done /\ row'.failed = row.failed
    BY <1>4, <2>1
  <2> QED
    BY <1>2, <1>3, <2>2 DEF Sound, Bounded
<1> QED
  BY <1>5, <1>6

\* The run a request changed has the counters it loaded.
LEMMA RequestCounters ==
  ASSUME Shape, Standing, NEW q \in Requests
  PROVE  /\ req[q].run.done = req[q].base.done /\ req[q].run.failed = req[q].base.failed
         /\ req[q].run.results = req[q].base.results
<1>1. req[q].base \in AttackRuns /\ RequestOf(req[q])
  BY ShapeParts DEF Recording, ApiRequests, Standing
<1>2. CASE req[q].stage = "loaded"
  BY <1>1, <1>2, AppliedFields DEF RequestOf
<1>3. CASE req[q].stage = "undone"
  BY <1>1, <1>3, AppliedFields DEF RequestOf, Operations
<1>4. CASE req[q].stage \notin {"loaded", "undone"}
  BY <1>1, <1>4 DEF RequestOf
<1> QED
  BY <1>2, <1>3, <1>4

\* What a request commits has the counters and results of the run or of the row.
LEMMA CommittedFields ==
  ASSUME Shape, Standing, NEW q \in Requests, Committing(q)
  PROVE  \/ /\ row'.done = req[q].run.done /\ row'.failed = req[q].run.failed
            /\ row'.results = req[q].run.results
         \/ row'.done = row.done /\ row'.failed = row.failed /\ row'.results = row.results
<1>1. req[q].base \in AttackRuns /\ req[q].run \in AttackRuns /\ row \in AttackRuns
  BY ShapeParts DEF Recording, ApiRequests
<1>2. /\ req[q].run.done = req[q].base.done /\ req[q].run.failed = req[q].base.failed
      /\ req[q].run.results = req[q].base.results
  BY RequestCounters
<1>3. row' = row \/ row' \in Written(req[q].base, req[q].run, row)
  BY DEF Committing
<1> QED
  BY <1>1, <1>2, <1>3, WrittenFields

LEMMA CountedStep ==
  ASSUME Shape, Standing, Settled, Unique, Counted, [Next]_vars
  PROVE  Counted'
<1> SUFFICES ASSUME Plain'
             PROVE  /\ Sound(row', row')
                    /\ \A q \in Requests : Sound(req'[q].base, row') /\ Sound(req'[q].run, row')
                    /\ \A s \in Slots :
                         /\ proc'[s].stage \in {"finalizing", "marking"} =>
                              Sound(proc'[s].base, row')
                         /\ proc'[s].stage = "finalizing" /\ proc'[s].base.status = "running" =>
                              /\ Uncounted(proc'[s].base) /\ Uncounted(row')
                              /\ \A q \in Requests :
                                   Uncounted(req'[q].base) /\ Uncounted(req'[q].run)
  BY DEF Counted, Plain
<1>1. Plain
  BY PlainBefore
<1>2. IsTerminal(row) => IsTerminal(row')
  BY TerminalStays DEF Plain
<1>3. /\ Sound(row, row)
      /\ \A q \in Requests : Sound(req[q].base, row) /\ Sound(req[q].run, row)
      /\ \A s \in Slots :
           /\ proc[s].stage \in {"finalizing", "marking"} => Sound(proc[s].base, row)
           /\ proc[s].stage = "finalizing" /\ proc[s].base.status = "running" =>
                /\ Uncounted(proc[s].base) /\ Uncounted(row)
                /\ \A q \in Requests : Uncounted(req[q].base) /\ Uncounted(req[q].run)
  BY <1>1 DEF Counted, Plain
<1>4. /\ Sound(row, row')
      /\ \A q \in Requests : Sound(req[q].base, row') /\ Sound(req[q].run, row')
      /\ \A s \in Slots :
           proc[s].stage \in {"finalizing", "marking"} => Sound(proc[s].base, row')
  BY <1>2, <1>3, SoundStays
<1>5. /\ Idle.stage = "idle" /\ NewAttempt.stage = "new"
      /\ proc \in [Slots -> Attempts] /\ req \in [Requests -> ApiRequests]
      /\ \A s \in Slots : ShapeOf(proc[s])
  BY ShapeParts DEF Idle, NewAttempt, Attempting, Recording
<1>6. CASE \E s \in Slots : Moving(s) \/ Leaving(s) \/ Retrying(s) \/ Stalling(s)
  <2>1. PICK s \in Slots : Moving(s) \/ Leaving(s) \/ Retrying(s) \/ Stalling(s)
    BY <1>6
  <2>2. CASE Moving(s)
    <3>1. PICK x \in Attempts :
            /\ proc[s].stage # "idle" /\ Moves(proc[s], x)
            /\ \A t \in Slots : proc'[t] = IF t = s THEN x ELSE Idle
            /\ row' \in IF Storing(proc[s], x)
                        THEN Written(proc[s].base, proc[s].run, row) ELSE {row}
            /\ req' = req
      BY <1>1, <2>2, AloneMoves
    <3>2. CASE Storing(proc[s], x)
      <4>1. Sound(row', row')
        BY <1>1, <3>1, <3>2, StoredSound DEF Storing
      <4>2. x.stage = "returning"
        BY <3>2 DEF Storing
      <4> QED
        BY <1>4, <1>5, <3>1, <4>1, <4>2
    <3>3. CASE ~Storing(proc[s], x)
      <4>1. row' = row
        BY <3>1, <3>3
      <4>2. x.stage \in {"finalizing", "marking"} => x.base = row
        BY <1>5, <3>1, RecordedIs DEF Moves, Campaigning
      <4>3. row.status = "running" => ~IsTerminal(row)
        BY DEF IsTerminal, TerminalStatuses
      <4>4. row.status = "running" =>
              Uncounted(row) /\ \A q \in Requests : Uncounted(req[q].base) /\ Uncounted(req[q].run)
        BY <1>3, <4>3 DEF Sound
      <4> QED
        BY <1>3, <1>5, <3>1, <4>1, <4>2, <4>4
    <3> QED
      BY <3>2, <3>3
  <2>3. CASE Leaving(s) \/ Retrying(s) \/ Stalling(s)
    <3>1. /\ \A t \in Slots : proc'[t] \in {proc[t], Idle, NewAttempt}
          /\ row' = row /\ req' = req
      BY <2>3, AloneEnds
    <3> QED
      BY <1>3, <1>5, <3>1
  <2> QED
    BY <2>1, <2>2, <2>3
<1>7. CASE \E q \in Requests : Loading(q) \/ Committing(q) \/ Starting(q) \/ Clearing(q)
  <2>1. PICK q \in Requests : Loading(q) \/ Committing(q) \/ Starting(q) \/ Clearing(q)
    BY <1>7
  <2>2. \A t \in Slots : proc'[t] \in {proc[t], NewAttempt}
    BY <1>5, <2>1 DEF Loading, Committing, Starting, Clearing, WorkflowStarts
  <2>3. CASE Loading(q)
    <3>1. PICK r \in ApiRequests :
            /\ req' = [req EXCEPT ![q] = r]
            /\ r.base = row
            /\ \/ r.op \in Operations /\ r.run = Apply(r.op, row)
               \/ r.run = Apply("fail", row)
      BY <2>3 DEF Loading
    <3>2. r.run.done = row.done /\ r.run.failed = row.failed
      <4>1. row \in AttackRuns
        BY ShapeParts DEF Recording
      <4> QED
        BY <3>1, <4>1, AppliedFields DEF Operations
    <3>3. \A u \in Requests : req'[u] = IF u = q THEN r ELSE req[u]
      BY <1>5, <3>1
    <3>4. row' = row /\ proc' = proc
      BY <2>3 DEF Loading
    <3>5. Sound(r.run, row) /\ (Uncounted(row) => Uncounted(r.run))
      BY <1>3, <3>2 DEF Sound, Bounded, Uncounted
    <3> QED
      BY <1>3, <3>1, <3>3, <3>4, <3>5
  <2>4. CASE Committing(q)
    <3>1. PICK r \in ApiRequests : req' = [req EXCEPT ![q] = r] /\ Cleared(r)
      BY <2>4 DEF Committing
    <3>2. \A u \in Requests : req'[u] = IF u = q THEN r ELSE req[u]
      BY <1>5, <3>1
    <3>3. Sound(r.base, row') /\ Sound(r.run, row') /\ Uncounted(r.base) /\ Uncounted(r.run)
      BY <3>1, NewRunFields DEF Cleared, Sound
    <3>4. \/ row'.done = req[q].run.done /\ row'.failed = req[q].run.failed
          \/ row'.done = row.done /\ row'.failed = row.failed
      BY <2>4, CommittedFields
    <3>5. Sound(row', row') /\ (Uncounted(row) /\ Uncounted(req[q].run) => Uncounted(row'))
      BY <1>4, <3>4 DEF Sound, Bounded, Uncounted
    <3>6. proc' = proc
      BY <2>4 DEF Committing
    <3> QED
      BY <1>3, <1>4, <3>2, <3>3, <3>5, <3>6
  <2>5. CASE Starting(q) \/ Clearing(q)
    <3>1. PICK r \in ApiRequests : req' = [req EXCEPT ![q] = r] /\ Cleared(r)
      BY <2>5 DEF Starting, Clearing
    <3>2. \A u \in Requests : req'[u] = IF u = q THEN r ELSE req[u]
      BY <1>5, <3>1
    <3>3. Sound(r.base, row') /\ Sound(r.run, row') /\ Uncounted(r.base) /\ Uncounted(r.run)
      BY <3>1, NewRunFields DEF Cleared, Sound
    <3>4. row' = row
      BY <2>5 DEF Starting, Clearing
    <3> QED
      BY <1>3, <1>5, <2>2, <3>2, <3>3, <3>4
  <2> QED
    BY <2>1, <2>3, <2>4, <2>5
<1>8. CASE UNCHANGED vars
  BY <1>3, <1>8 DEF vars
<1> QED
  BY <1>6, <1>7, <1>8, NextIs

-----------------------------------------------------------------------------
(* What an attempt resumes from.                                           *)

LEMMA PresentCounted ==
  /\ Present \subseteq 1 .. MaxRounds /\ IsFiniteSet(Present)
  /\ Cardinality(Present) \in Nat /\ Cardinality(Present) <= MaxRounds
<1>1. MaxRounds \in Nat /\ MaxRounds \in 0 .. MaxRounds
  BY RedTeamCampaignAssumption
<1>2. PresentTo(MaxRounds) = Present
  BY DEF PresentTo, Present
<1> QED
  BY <1>1, <1>2, PresentFinite

\* If nothing is durable after a hit, all durable rounds are replayed; one that
\* is ahead of them in number has a gap before it.
LEMMA ReplayIsComplete ==
  ASSUME durable \in [1 .. MaxRounds -> AllRoundKinds \cup {NoRound}],
         NothingAfterHit(durable)
  PROVE  LET q == Replayed(DurableRounds)
         IN  /\ q \in Seq(Rounds) /\ Len(q) = Cardinality(Present)
             /\ Holds(q, durable) /\ TokensOf(q) = TokensOf(DurableRounds)
             /\ \A n \in 1 .. MaxRounds : durable[n] # NoRound /\ n > Len(q) =>
                  \E m \in 1 .. Len(q) : durable[m] = NoRound
<1> DEFINE q == DurableRounds
<1>1. /\ q \in Seq(Rounds) /\ Len(q) = Cardinality(Present) /\ Len(q) <= MaxRounds
      /\ \A i \in 1 .. Len(q) :
           q[i].number \in Present
           /\ q[i] = [number |-> q[i].number, kind |-> durable[q[i].number]]
      /\ \A i, j \in 1 .. Len(q) : i < j => q[i].number < q[j].number
      /\ \A m \in Present : \E i \in 1 .. Len(q) : q[i].number = m
  BY DurableRoundsOrdered
<1>2. Len(q) \in Nat /\ MaxRounds \in Nat
  BY <1>1, LenProperties, RedTeamCampaignAssumption
<1> HIDE DEF q
<1>3. ASSUME NEW i \in 1 .. Len(q), q[i].kind = "hit" PROVE i = Len(q)
  <2> SUFFICES ASSUME i # Len(q) PROVE FALSE
    OBVIOUS
  <2>1. Len(q) \in 1 .. Len(q) /\ i < Len(q)
    BY <1>2
  <2>2. q[i].number < q[Len(q)].number
    BY <1>1, <2>1
  <2>3. /\ q[i].number \in Present /\ durable[q[i].number] = "hit"
        /\ q[Len(q)].number \in Present
    BY <1>1, <1>3, <2>1
  <2> QED
    BY <2>2, <2>3 DEF NothingAfterHit, Present
<1>4. Replayed(q) = q
  BY <1>1, <1>3, ReplayedPrefix
<1>5. Holds(q, durable)
  <2> SUFFICES ASSUME NEW n \in 1 .. MaxRounds, durable[n] # NoRound
               PROVE  \E i \in 1 .. Len(q) : q[i] = [number |-> n, kind |-> durable[n]]
    BY DEF Holds
  <2>1. n \in Present
    BY DEF Present
  <2>2. PICK i \in 1 .. Len(q) : q[i].number = n
    BY <1>1, <2>1
  <2> QED
    BY <1>1, <2>2
<1>6. TokensOf(Replayed(q)) = TokensOf(q)
  BY <1>4
<1>7. ASSUME NEW n \in 1 .. MaxRounds, durable[n] # NoRound, n > Len(q),
             \A m \in 1 .. Len(q) : durable[m] # NoRound
      PROVE  FALSE
  <2>1. 1 .. Len(q) \subseteq Present \ {n} /\ n \in Present
    <3>1. ASSUME NEW m \in 1 .. Len(q) PROVE m \in 1 .. MaxRounds /\ m # n
      BY <1>1, <1>2, <1>7
    <3> QED
      BY <1>7, <3>1 DEF Present
  <2>2. IsFiniteSet(Present \ {n}) /\ Cardinality(Present \ {n}) = Cardinality(Present) - 1
    BY <2>1, PresentCounted, FS_RemoveElement
  <2>3. Cardinality(1 .. Len(q)) = Len(q)
    <3>1. Len(q) \in Int /\ 1 \in Int /\ (1 > Len(q) => Len(q) = 0) /\ Len(q) - 1 + 1 = Len(q)
      BY <1>2
    <3> QED
      BY <3>1, FS_Interval
  <2>4. Cardinality(1 .. Len(q)) <= Cardinality(Present \ {n})
    BY <2>1, <2>2, FS_Subset
  <2> QED
    BY <1>1, <1>2, <2>2, <2>3, <2>4
<1> QED
  BY <1>1, <1>4, <1>5, <1>6, <1>7 DEF q

\* What the first attempt leaves behind.
LEMMA FirstLeaves ==
  ASSUME NEW p, p.rounds \in Seq(Rounds), FirstAttempt(p, durable),
         durable \in [1 .. MaxRounds -> AllRoundKinds \cup {NoRound}],
         \A n \in 1 .. MaxRounds : durable[n] # "error"
  PROVE  NothingAfterHit(durable) /\ TokensOf(DurableRounds) <= TokensOf(p.rounds)
<1>1. Len(p.rounds) \in Nat /\ DOMAIN p.rounds = 1 .. Len(p.rounds) /\ MaxRounds \in Nat
  BY LenProperties, RedTeamCampaignAssumption
<1>2. NothingAfterHit(durable)
  <2> SUFFICES ASSUME NEW n \in 1 .. MaxRounds, NEW m \in 1 .. MaxRounds,
                      durable[n] = "hit", n < m, durable[m] # NoRound
               PROVE  FALSE
    BY DEF NothingAfterHit
  <2>1. n <= Len(p.rounds) /\ p.rounds[n].kind = "hit" /\ m <= Len(p.rounds)
    BY DEF FirstAttempt, NoRound
  <2>2. n \in 1 .. Len(p.rounds)
    BY <1>1, <2>1
  <2> QED
    BY <1>1, <2>1, <2>2 DEF FirstAttempt
<1>3. PICK f : Adds(f, p.rounds) /\ TokensOf(p.rounds) = f[Len(p.rounds)]
  BY TokensAddedUp
<1>f. /\ f[0] = 0 /\ \A i \in 0 .. Len(p.rounds) : f[i] \in Nat
      /\ \A i \in 1 .. Len(p.rounds) : f[i] = f[i - 1] + TokensUsed(p.rounds[i])
  BY <1>3 DEF Adds
<1> DEFINE L == Len(p.rounds)
           g == [n \in 0 .. MaxRounds |-> TokensOf(RoundsUpTo[n])]
           S == {n \in 0 .. MaxRounds : g[n] <= (IF n <= L THEN f[n] ELSE f[L])}
<1>4. AddsUp(g, durable) /\ g[MaxRounds] = TokensOf(DurableRounds)
  BY <1>1, DurableCosts DEF DurableRounds
<1> HIDE DEF g
<1>g. /\ g[0] = 0 /\ \A n \in 0 .. MaxRounds : g[n] \in Nat
      /\ \A n \in 1 .. MaxRounds : g[n] = g[n - 1] + Cost(durable, n)
  BY <1>4 DEF AddsUp
<1>5. 0 \in S
  BY <1>1, <1>f, <1>g
<1>6. ASSUME NEW n \in 1 .. MaxRounds, n - 1 \in S PROVE n \in S
  <2>1. /\ n \in 0 .. MaxRounds /\ n - 1 \in 0 .. MaxRounds /\ n - 1 \in Nat /\ L \in 0 .. L
        /\ g[n] = g[n - 1] + Cost(durable, n) /\ g[n - 1] \in Nat
    BY <1>1, <1>g
  <2>2. CASE n <= L
    <3>1. n \in 1 .. L /\ p.rounds[n] \in Rounds /\ n - 1 \in 0 .. L
      BY <1>1, <2>2
    <3>2. f[n] = f[n - 1] + TokensUsed(p.rounds[n]) /\ TokensUsed(p.rounds[n]) \in Nat
      BY <1>f, <3>1, TokensUsedType
    <3>3. Cost(durable, n) \in {0, TokensUsed(p.rounds[n])}
      <4>1. CASE durable[n] = NoRound
        BY <4>1 DEF Cost
      <4>2. CASE durable[n] # NoRound
        <5>1. p.rounds[n].kind = durable[n] /\ p.rounds[n].number = n
          BY <3>1, <4>2 DEF FirstAttempt
        <5> QED
          BY <4>2, <5>1 DEF Cost, TokensUsed
      <4> QED
        BY <4>1, <4>2
    <3>4. g[n - 1] <= f[n - 1] /\ f[n - 1] \in Nat
      BY <1>f, <1>6, <2>1, <2>2, <3>1
    <3>5. g[n] <= f[n]
      BY <2>1, <3>2, <3>3, <3>4
    <3> QED
      BY <2>1, <2>2, <3>5
  <2>3. CASE n > L
    <3>1. durable[n] = NoRound
      BY <1>1, <2>3 DEF FirstAttempt
    <3>2. g[n] = g[n - 1]
      BY <2>1, <3>1 DEF Cost
    <3>3. g[n - 1] <= f[L]
      <4>1. n - 1 <= L => n - 1 = L
        BY <1>1, <2>1, <2>3
      <4> QED
        BY <1>6, <4>1
    <3>4. ~ n <= L
      BY <1>1, <2>1, <2>3
    <3> QED
      BY <2>1, <3>2, <3>3, <3>4
  <2> QED
    BY <1>1, <2>2, <2>3
<1>7. \A n \in 0 .. MaxRounds : n \in S
  <2> HIDE DEF S
  <2> QED
    BY <1>1, <1>5, <1>6, IntervalBySuccessor
<1>8. g[MaxRounds] <= f[L]
  <2>1. \A i \in 1 .. L : f[i - 1] <= f[i]
    <3> SUFFICES ASSUME NEW i \in 1 .. L PROVE f[i - 1] <= f[i]
      OBVIOUS
    <3>1. p.rounds[i] \in Rounds /\ i - 1 \in 0 .. L
      BY <1>1
    <3>2. /\ f[i] = f[i - 1] + TokensUsed(p.rounds[i]) /\ f[i - 1] \in Nat
          /\ TokensUsed(p.rounds[i]) \in Nat
      BY <1>f, <3>1, TokensUsedType
    <3> QED
      BY <3>2
  <2>2. CASE MaxRounds > L
    <3>1. ~ MaxRounds <= L /\ MaxRounds \in 0 .. MaxRounds
      BY <1>1, <2>2
    <3> QED
      BY <1>7, <3>1
  <2>3. CASE MaxRounds <= L
    <3> DEFINE T == {k \in 0 .. L : MaxRounds <= k => f[MaxRounds] <= f[k]}
    <3>1. 0 \in T
      BY <1>1, <1>f, <2>3
    <3>2. \A k \in 1 .. L : k - 1 \in T => k \in T
      <4> SUFFICES ASSUME NEW k \in 1 .. L, k - 1 \in T PROVE k \in T
        OBVIOUS
      <4>1. f[k - 1] \in Nat /\ f[k] \in Nat /\ f[MaxRounds] \in Nat /\ f[k - 1] <= f[k]
        <5>1. k - 1 \in 0 .. L /\ k \in 0 .. L /\ MaxRounds \in 0 .. L
          BY <1>1, <2>3
        <5> HIDE DEF L
        <5> QED
          BY <1>f, <2>1, <5>1 DEF L
      <4>2. MaxRounds <= k => MaxRounds = k \/ MaxRounds <= k - 1
        BY <1>1
      <4> QED
        BY <4>1, <4>2
    <3>3. L \in T
      <4>1. \A k \in 0 .. L : k \in T
        <5> HIDE DEF T
        <5> QED
          BY <1>1, <3>1, <3>2, IntervalBySuccessor
      <4> QED
        BY <1>1, <4>1
    <3>4. g[MaxRounds] <= f[MaxRounds] /\ f[MaxRounds] <= f[L]
      BY <1>1, <1>7, <2>3, <3>3
    <3>5. g[MaxRounds] \in Nat /\ f[MaxRounds] \in Nat /\ f[L] \in Nat
      <4>1. MaxRounds \in 0 .. MaxRounds /\ MaxRounds \in 0 .. L /\ L \in 0 .. L
        BY <1>1, <2>3
      <4> QED
        BY <1>f, <1>g, <4>1
    <3> QED
      BY <3>4, <3>5
  <2> QED
    BY <1>1, <2>2, <2>3
<1> QED
  BY <1>2, <1>3, <1>4, <1>8

LEMMA NothingAffordable ==
  ASSUME durable \in [1 .. MaxRounds -> AllRoundKinds \cup {NoRound}], Present = {}
  PROVE  Affordable(durable)
<1>1. DurableRounds \in Seq(Rounds) /\ Len(DurableRounds) = 0
  BY DurableRoundsOrdered, FS_EmptySet
<1>2. DurableRounds = <<>>
  BY <1>1, EmptySeq
<1> QED
  BY <1>2, DurableAffordable, TokensOfEmpty DEF WithinReach

LEMMA LessAffordable ==
  ASSUME durable \in [1 .. MaxRounds -> AllRoundKinds \cup {NoRound}],
         NEW q \in Seq(Rounds), WithinReach(TokensOf(q)),
         TokensOf(DurableRounds) <= TokensOf(q)
  PROVE  Affordable(durable)
<1>1. TokensOf(q) \in Nat /\ TokensOf(DurableRounds) \in Nat
  BY TokensOfType, DurableRoundsOrdered
<1>2. WithinReach(TokensOf(DurableRounds))
  BY <1>1, RedTeamCampaignAssumption DEF WithinReach
<1> QED
  BY <1>2, DurableAffordable

\* What Resumed says of one attempt: d is what is durable, first whether it is
\* the first attempt.
ResumedOf(p, d, first) ==
  /\ first => FirstAttempt(p, d)
  /\ WithinReach(TokensOf(p.rounds))
  /\ p.stage \in Campaigning \cup Resulting => Holds(p.rounds, d)
  /\ p.stage \in Campaigning => Ahead(p, d)

\* A move that neither replays nor records.
LEMMA KeepsResumed ==
  ASSUME NEW p, NEW x, NEW d, NEW first, ResumedOf(p, d, first), x.rounds = p.rounds,
         x.stage \in Campaigning => p.stage \in Campaigning,
         x.stage \in Resulting => p.stage \in Campaigning \cup Resulting
  PROVE  ResumedOf(x, d, first)
BY DEF ResumedOf, FirstAttempt, Ahead

\* Recording a round keeps to what has been recorded.
LEMMA RecordsResumed ==
  ASSUME NEW p, ShapeOf(p), p.stage \in {"executed", "upserting"},
         NEW d \in [1 .. MaxRounds -> AllRoundKinds \cup {NoRound}],
         NEW e, NEW first, ResumedOf(p, d, first),
         \/ p.kind = "error" /\ e = d
         \/ p.kind # "error" /\ e = [d EXCEPT ![Len(p.rounds) + 1] = p.kind]
  PROVE  ResumedOf(Recorded(p), e, first)
<1> DEFINE x == Recorded(p)
           L == Len(p.rounds)
<1>1. /\ RoundAtHand(p) \in Rounds /\ RoundsWith(p) \in Seq(Rounds)
      /\ L \in Nat /\ L + 1 \in 1 .. MaxRounds /\ Len(x.rounds) = L + 1
      /\ \A i \in 1 .. L : x.rounds[i] = p.rounds[i]
      /\ x.rounds[L + 1] = [number |-> L + 1, kind |-> p.kind]
      /\ x.stage \in {"running", "finished"}
      /\ x.stage = "running" => ~StopsEarly(x.rounds)
  BY RecordedRounds, RecordedIs DEF RoundAtHand
<1>2. WithinReach(TokensOf(x.rounds))
  <2>1. x.rounds = Append(p.rounds, RoundAtHand(p)) /\ RoundAtHand(p).kind = p.kind
    BY RecordedIs DEF RoundsWith, RoundAtHand
  <2>2. p.rounds \in Seq(Rounds) /\ TokensOf(p.rounds) < MaxTokens
    BY DEF ShapeOf, Attempts
  <2>3. TokensOf(x.rounds) = TokensOf(p.rounds) + TokensUsed(RoundAtHand(p))
    BY <1>1, <2>1, <2>2, TokensOfAppend
  <2>4. /\ TokensOf(p.rounds) \in Nat /\ TokensUsed(RoundAtHand(p)) \in 0 .. DearestCall
        /\ MaxTokens \in Nat /\ DearestCall \in Nat
    BY <1>1, <2>2, TokensOfType, TokensUsedType, RedTeamCampaignAssumption
  <2> QED
    BY <2>2, <2>3, <2>4 DEF WithinReach
<1>3. p.kind # NoRound /\ p.stage \in Campaigning /\ MaxRounds \in Nat
  BY RedTeamCampaignAssumption DEF ShapeOf, Campaigning
<1>4. \A n \in 1 .. MaxRounds : e[n] = d[n] \/ (n = L + 1 /\ e[n] = p.kind)
  BY <1>1
<1>5. x.stage = "running" => x.rounds[L + 1].kind # "hit"
  BY <1>1 DEF StopsEarly
<1> HIDE DEF x
<1>6. ASSUME first PROVE FirstAttempt(x, e)
  <2>1. FirstAttempt(p, d)
    BY <1>6 DEF ResumedOf
  <2>2. ASSUME NEW n \in 1 .. MaxRounds, e[n] # NoRound
        PROVE  n <= Len(x.rounds) /\ x.rounds[n].kind = e[n]
    <3>1. CASE e[n] = d[n]
      <4>1. n <= L /\ p.rounds[n].kind = d[n]
        BY <2>1, <2>2, <3>1 DEF FirstAttempt
      <4>2. n \in 1 .. L
        BY <1>1, <4>1
      <4> QED
        BY <1>1, <3>1, <4>1, <4>2
    <3>2. CASE n = L + 1 /\ e[n] = p.kind
      BY <1>1, <3>2
    <3> QED
      BY <1>4, <3>1, <3>2
  <2>3. ASSUME NEW i \in 1 .. Len(x.rounds)
        PROVE  /\ x.rounds[i].number = i
               /\ x.rounds[i].kind = "hit" => i = Len(x.rounds) /\ x.stage \notin Campaigning
    <3>1. CASE i = L + 1
      BY <1>1, <1>5, <3>1 DEF Campaigning
    <3>2. CASE i # L + 1
      <4>1. i \in 1 .. L
        BY <1>1, <3>2
      <4> QED
        BY <1>1, <1>3, <2>1, <4>1 DEF FirstAttempt
    <3> QED
      BY <3>1, <3>2
  <2> QED
    BY <2>2, <2>3 DEF FirstAttempt
<1>7. Holds(x.rounds, e)
  <2>1. Holds(p.rounds, d)
    BY <1>3 DEF ResumedOf
  <2> SUFFICES ASSUME NEW n \in 1 .. MaxRounds, e[n] # NoRound
               PROVE  \E i \in 1 .. Len(x.rounds) : x.rounds[i] = [number |-> n, kind |-> e[n]]
    BY DEF Holds
  <2>2. CASE e[n] = d[n]
    <3>1. PICK i \in 1 .. L : p.rounds[i] = [number |-> n, kind |-> d[n]]
      BY <2>1, <2>2 DEF Holds
    <3>2. i \in 1 .. Len(x.rounds) /\ x.rounds[i] = [number |-> n, kind |-> e[n]]
      BY <1>1, <2>2, <3>1
    <3> QED
      BY <3>2
  <2>3. CASE n = L + 1 /\ e[n] = p.kind
    <3>1. L + 1 \in 1 .. Len(x.rounds) /\ x.rounds[L + 1] = [number |-> n, kind |-> e[n]]
      BY <1>1, <2>3
    <3> QED
      BY <3>1
  <2> QED
    BY <1>4, <2>2, <2>3
<1>8. Ahead(x, e)
  <2>1. Ahead(p, d)
    BY <1>3 DEF ResumedOf
  <2> SUFFICES ASSUME NEW n \in 1 .. MaxRounds, e[n] # NoRound, n > Len(x.rounds)
               PROVE  \E m \in 1 .. Len(x.rounds) : e[m] = NoRound
    BY DEF Ahead
  <2>2. d[n] # NoRound /\ n > L
    BY <1>1, <1>4
  <2>3. PICK m \in 1 .. L : d[m] = NoRound
    BY <2>1, <2>2 DEF Ahead
  <2>4. m \in 1 .. Len(x.rounds) /\ m \in 1 .. MaxRounds /\ m # L + 1
    BY <1>1, <1>3, <2>3
  <2>5. e[m] = NoRound
    BY <1>1, <2>3, <2>4
  <2> QED
    BY <2>4, <2>5
<1> QED
  BY <1>2, <1>6, <1>7, <1>8 DEF ResumedOf, x

\* The move that loads the rounds.
LEMMA ReplayResumed ==
  ASSUME durable \in [1 .. MaxRounds -> AllRoundKinds \cup {NoRound}],
         NothingAfterHit(durable), Affordable(durable),
         NEW x, x.rounds = Replayed(DurableRounds), NEW first, first => Present = {}
  PROVE  ResumedOf(x, durable, first)
<1>1. /\ x.rounds \in Seq(Rounds) /\ Len(x.rounds) = Cardinality(Present)
      /\ Holds(x.rounds, durable) /\ TokensOf(x.rounds) = TokensOf(DurableRounds)
      /\ \A n \in 1 .. MaxRounds : durable[n] # NoRound /\ n > Len(x.rounds) =>
           \E m \in 1 .. Len(x.rounds) : durable[m] = NoRound
  BY ReplayIsComplete
<1>2. WithinReach(TokensOf(x.rounds))
  BY <1>1, DurableAffordable
<1>3. ASSUME first PROVE FirstAttempt(x, durable)
  <2>1. Present = {} /\ Len(x.rounds) = 0
    BY <1>1, <1>3, FS_EmptySet
  <2>2. \A i \in 1 .. 0 : FALSE
    OBVIOUS
  <2> QED
    BY <2>1, <2>2 DEF FirstAttempt, Present
<1> QED
  BY <1>1, <1>2, <1>3 DEF ResumedOf, Ahead

\* Attempts that have not loaded the rounds yet.
ToLoad(p, attempt) ==
  p.stage \in {"new", "loading"} /\ attempt # 1 =>
    NothingAfterHit(durable) /\ Affordable(durable)

LEMMA ResumedParts ==
  Resumed <=>
    (Plain =>
       /\ wf.pc = "none" => Present = {} /\ wf.attempt = 1
       /\ \A s \in Slots : proc[s].stage # "idle" =>
            ResumedOf(proc[s], durable, wf.attempt = 1) /\ ToLoad(proc[s], wf.attempt))
BY DEF Resumed, Plain, ResumedOf, ToLoad

LEMMA ResumedInit == Init => Resumed
<1> SUFFICES ASSUME Init PROVE Resumed
  OBVIOUS
<1>1. Present = {}
  BY DEF Init, Present
<1> QED
  BY <1>1 DEF Init, Resumed, Idle

\* The move of the one attempt.
LEMMA MovingResumed ==
  ASSUME Shape, Standing, Unique, Resumed, Plain, Plain', NEW s \in Slots, Moving(s)
  PROVE  Resumed'
<1>1. PICK x \in Attempts :
        /\ proc[s].stage # "idle" /\ Moves(proc[s], x)
        /\ \A t \in Slots : proc'[t] = IF t = s THEN x ELSE Idle
        /\ durable' = IF Checkpointing(proc[s], x)
                      THEN [durable EXCEPT ![Len(proc[s].rounds) + 1] = proc[s].kind]
                      ELSE durable
        /\ wf' = wf
  BY AloneMoves
<1> DEFINE p == proc[s]
           first == wf.attempt = 1
<1>2. /\ ShapeOf(p) /\ p \in Attempts /\ p.rounds \in Seq(Rounds) /\ wf.pc # "none"
      /\ durable \in [1 .. MaxRounds -> AllRoundKinds \cup {NoRound}]
      /\ \A n \in 1 .. MaxRounds : durable[n] # "error"
  BY <1>1, ShapeParts DEF Attempting, Recording, Standing, Attempts
<1>3. ResumedOf(p, durable, first) /\ ToLoad(p, wf.attempt)
  BY <1>1, ResumedParts
<1>4. first /\ p.stage \in {"new", "loading"} => Present = {}
  <2> SUFFICES ASSUME first, p.stage \in {"new", "loading"} PROVE Present = {}
    OBVIOUS
  <2>1. FirstAttempt(p, durable) /\ Len(p.rounds) = 0
    BY <1>2, <1>3, EmptySeq DEF ResumedOf, ShapeOf
  <2> QED
    BY <2>1 DEF FirstAttempt, Present
<1>5. p.stage \in {"executed", "upserting"} /\ x = Recorded(p) =>
        x.stage \in {"running", "finished"} /\ x.rounds = RoundsWith(p)
  BY <1>2, RecordedIs
<1>6. ResumedOf(x, durable', first)
  <2>1. CASE p.stage = "loading" /\ x.rounds = Replayed(DurableRounds)
    <3>1. NothingAfterHit(durable) /\ Affordable(durable)
      <4>1. CASE first
        <5>1. Present = {}
          BY <1>4, <2>1, <4>1
        <5>2. NothingAfterHit(durable)
          BY <5>1 DEF NothingAfterHit, Present, NoRound
        <5>3. Affordable(durable)
          BY <1>2, <5>1, NothingAffordable
        <5> QED
          BY <5>2, <5>3
      <4>2. CASE ~first
        BY <1>3, <2>1, <4>2 DEF ToLoad
      <4> QED
        BY <4>1, <4>2
    <3>2. durable' = durable
      BY <1>1, <2>1 DEF Checkpointing
    <3>3. first => Present = {}
      BY <1>4, <2>1
    <3> HIDE DEF first
    <3>4. ResumedOf(x, durable, first)
      BY <1>2, <2>1, <3>1, <3>3, ReplayResumed
    <3> QED
      BY <3>2, <3>4
  <2>2. CASE p.stage \in {"executed", "upserting"} /\ x = Recorded(p)
    <3>1. \/ p.kind = "error" /\ durable' = durable
          \/ p.kind # "error" /\ durable' = [durable EXCEPT ![Len(p.rounds) + 1] = p.kind]
      <4>1. CASE p.stage = "executed"
        <5>1. durable' = durable
          BY <1>1, <4>1 DEF Checkpointing
        <5>2. x.rounds # p.rounds
          BY <1>2, <1>5, <2>2, RecordedRounds
        <5>3. p.kind = "error"
          BY <1>1, <1>5, <2>2, <4>1, <5>2 DEF Moves, Campaigning, Keeps
        <5> QED
          BY <5>1, <5>3
      <4>2. CASE p.stage = "upserting"
        BY <1>1, <1>2, <1>5, <2>2, <4>2 DEF Checkpointing, ShapeOf
      <4> QED
        BY <2>2, <4>1, <4>2
    <3> HIDE DEF first
    <3>2. ResumedOf(Recorded(p), durable', first)
      BY <1>2, <1>3, <2>2, <3>1, RecordsResumed
    <3> QED
      BY <2>2, <3>2
  <2>3. CASE ~(p.stage = "loading" /\ x.rounds = Replayed(DurableRounds))
             /\ ~(p.stage \in {"executed", "upserting"} /\ x = Recorded(p))
    <3>1. /\ x.rounds = p.rounds
          /\ x.stage \in Campaigning => p.stage \in Campaigning
          /\ x.stage \in Resulting => p.stage \in Campaigning \cup Resulting
          /\ ~Checkpointing(p, x)
      BY <1>1, <2>3 DEF Moves, Keeps, Campaigning, Resulting, Checkpointing
    <3>2. durable' = durable
      BY <1>1, <3>1
    <3> HIDE DEF first
    <3>3. ResumedOf(x, durable, first)
      BY <1>3, <3>1, KeepsResumed
    <3> QED
      BY <3>2, <3>3
  <2> QED
    BY <2>1, <2>2, <2>3
<1>7. ASSUME x.stage \in {"new", "loading"}, ~first
      PROVE  durable' = durable /\ NothingAfterHit(durable) /\ Affordable(durable)
  <2>1. p.stage = "new"
    BY <1>1, <1>5, <1>7 DEF Moves, Campaigning
  <2> QED
    BY <1>1, <1>3, <1>7, <2>1 DEF ToLoad, Checkpointing
<1>8. x.stage \in {"new", "loading"} /\ ~first =>
        NothingAfterHit(durable)' /\ Affordable(durable)'
  BY <1>7 DEF NothingAfterHit, Affordable, AddsUp, Cost
<1>9. Idle.stage = "idle"
  BY DEF Idle
<1>10. \A t \in Slots : proc'[t].stage # "idle" => proc'[t] = x
  BY <1>1, <1>9
<1>11. wf'.pc # "none" /\ wf'.attempt = wf.attempt
  BY <1>1, <1>2
<1> QED
  BY <1>6, <1>8, <1>10, <1>11 DEF Resumed, ResumedOf

\* An attempt that starts.  There is no third one.
LEMMA NewResumed ==
  ASSUME Shape
  PROVE  /\ NewAttempt.stage = "new" /\ NewAttempt.rounds = <<>>
         /\ \A first : (first => Present = {}) => ResumedOf(NewAttempt, durable, first)
<1>1. NewAttempt.stage = "new" /\ NewAttempt.rounds = <<>>
  BY DEF NewAttempt, Idle
<1>2. Len(<<>>) = 0 /\ TokensOf(<<>>) = 0 /\ \A i \in 1 .. 0 : FALSE
  BY EmptySeq, TokensOfEmpty
<1>3. Present = {} => FirstAttempt(NewAttempt, durable)
  BY <1>1, <1>2 DEF FirstAttempt, Present
<1> QED
  BY <1>1, <1>2, <1>3 DEF ResumedOf, Campaigning, Resulting, WithinReach

LEMMA ResumedStep ==
  ASSUME MaxAttempts <= 2, Shape, Standing, Unique, Resumed, [Next]_vars
  PROVE  Resumed'
<1> SUFFICES ASSUME Plain' PROVE Resumed'
  BY DEF Resumed, Plain
<1>1. Plain
  BY PlainBefore
<1>2. /\ \A s \in Slots : ShapeOf(proc[s]) /\ proc \in [Slots -> Attempts]
      /\ durable \in [1 .. MaxRounds -> AllRoundKinds \cup {NoRound}]
      /\ \A n \in 1 .. MaxRounds : durable[n] # "error"
      /\ wf \in [pc : {"none", "running", "error"} \cup CampaignEnds, attempt : 1 .. MaxAttempts]
      /\ Idle.stage = "idle"
  BY ShapeParts DEF Attempting, Recording, Idle
<1>3. /\ wf.pc = "none" => Present = {} /\ wf.attempt = 1
      /\ \A s \in Slots : proc[s].stage # "idle" =>
           ResumedOf(proc[s], durable, wf.attempt = 1) /\ ToLoad(proc[s], wf.attempt)
  BY <1>1, ResumedParts
<1>4. ASSUME durable' = durable, wf'.pc # "none" \/ wf' = wf,
             \A s \in Slots : proc'[s].stage # "idle" =>
               ResumedOf(proc'[s], durable, wf'.attempt = 1) /\ ToLoad(proc'[s], wf'.attempt)
      PROVE  Resumed'
  <2>1. /\ Present' = Present /\ NothingAfterHit(durable)' = NothingAfterHit(durable)
        /\ Affordable(durable) => Affordable(durable)'
    BY <1>4 DEF Present, NothingAfterHit, Affordable, AddsUp, Cost
  <2>2. wf'.pc = "none" => Present' = {} /\ wf'.attempt = 1
    BY <1>3, <1>4, <2>1
  <2>3. ASSUME NEW s \in Slots, proc'[s].stage # "idle"
        PROVE  /\ ResumedOf(proc'[s], durable', wf'.attempt = 1)
               /\ wf'.attempt # 1 /\ proc'[s].stage \in {"new", "loading"} =>
                    NothingAfterHit(durable)' /\ Affordable(durable)'
    BY <1>4, <2>1, <2>3 DEF ToLoad
  <2> QED
    BY <2>2, <2>3 DEF Resumed, ResumedOf
<1>5. CASE \E s \in Slots : Moving(s) \/ Leaving(s) \/ Retrying(s) \/ Stalling(s)
  <2>1. PICK s \in Slots : Moving(s) \/ Leaving(s) \/ Retrying(s) \/ Stalling(s)
    BY <1>5
  <2>2. CASE Moving(s)
    BY <1>1, <2>2, MovingResumed
  <2>3. CASE Leaving(s)
    <3>1. \A t \in Slots : proc'[t] \in {proc[t], Idle}
      BY <1>2, <2>3 DEF Leaving
    <3>2. wf'.attempt = wf.attempt /\ (wf'.pc # "none" \/ wf' = wf) /\ durable' = durable
      BY <1>2, <2>3
         DEF Leaving, ShapeOf, Attempts, Resulting, TerminalStatuses, CampaignEnds, NoRound
    <3> QED
      BY <1>2, <1>3, <1>4, <3>1, <3>2
  <2>4. CASE Retrying(s)
    <3>1. \A t \in Slots : proc'[t] = IF t = s THEN NewAttempt ELSE proc[t]
      BY <1>2, <2>4 DEF Retrying
    <3>2. \A t \in Slots \ {s} : proc[t].stage = "idle"
      BY <1>1, <2>4 DEF Retrying, Unique, Plain
    <3>3. wf.attempt = 1 /\ wf'.attempt = 2 /\ wf'.pc # "none" /\ durable' = durable
      <4>1. /\ wf.pc = "running" /\ wf.attempt < MaxAttempts /\ durable' = durable
            /\ wf' = [wf EXCEPT !.attempt = @ + 1]
        BY <2>4 DEF Retrying, Awaited
      <4>2. MaxAttempts \in Nat /\ wf.attempt \in 1 .. MaxAttempts
        BY <1>2, RedTeamCampaignAssumption
      <4>3. wf.attempt = 1
        BY <4>1, <4>2
      <4>4. wf'.pc = wf.pc /\ wf'.attempt = wf.attempt + 1
        BY <1>2, <4>1
      <4> QED
        BY <4>1, <4>3, <4>4
    <3>4. NothingAfterHit(durable) /\ Affordable(durable)
      <4>1. FirstAttempt(proc[s], durable) /\ WithinReach(TokensOf(proc[s].rounds))
        BY <1>3, <2>4, <3>3 DEF Retrying, ResumedOf
      <4>2. proc[s].rounds \in Seq(Rounds)
        BY <1>2 DEF Attempts
      <4>3. NothingAfterHit(durable) /\ TokensOf(DurableRounds) <= TokensOf(proc[s].rounds)
        BY <1>2, <4>1, <4>2, FirstLeaves
      <4> QED
        BY <1>2, <4>1, <4>2, <4>3, LessAffordable
    <3>5. ResumedOf(NewAttempt, durable, FALSE) /\ ToLoad(NewAttempt, 2)
      BY <3>4, NewResumed DEF ToLoad
    <3>6. \A t \in Slots : proc'[t].stage # "idle" => proc'[t] = NewAttempt
      BY <3>1, <3>2
    <3>7. (wf'.attempt = 1) = FALSE
      BY <3>3
    <3> QED
      BY <1>4, <3>3, <3>5, <3>6, <3>7
  <2>5. CASE Stalling(s)
    BY <2>5 DEF Stalling, Plain
  <2> QED
    BY <2>1, <2>2, <2>3, <2>4, <2>5
<1>6. CASE \E q \in Requests : Loading(q) \/ Committing(q) \/ Starting(q) \/ Clearing(q)
  <2>1. PICK q \in Requests : Loading(q) \/ Committing(q) \/ Starting(q) \/ Clearing(q)
    BY <1>6
  <2>2. CASE Loading(q) \/ Committing(q) \/ Clearing(q)
    <3>1. /\ proc' = proc /\ durable' = durable /\ wf'.attempt = wf.attempt
          /\ wf'.pc # "none" \/ wf' = wf
      BY <1>2, <2>2 DEF Loading, Committing, Clearing
    <3> QED
      BY <1>3, <1>4, <3>1
  <2>3. CASE Starting(q)
    <3>1. /\ wf' = [pc |-> "running", attempt |-> 1] /\ durable' = durable
          /\ overlapped' = (overlapped \/ \E s \in Slots : proc[s].stage # "idle")
          /\ reopened' = (reopened \/ wf.pc # "none")
          /\ \E n \in Slots : proc' = [proc EXCEPT ![n] = NewAttempt]
      BY <2>3, Zenon DEF Starting, WorkflowStarts
    <3>2. Present = {} /\ \A s \in Slots : proc[s].stage = "idle"
      BY <1>3, <3>1 DEF Plain
    <3>3. \A t \in Slots : proc'[t].stage # "idle" => proc'[t] = NewAttempt
      BY <1>2, <3>1, <3>2
    <3>4. ResumedOf(NewAttempt, durable, TRUE) /\ ToLoad(NewAttempt, 1)
      BY <3>2, NewResumed DEF ToLoad
    <3>5. wf'.attempt = 1 /\ wf'.pc # "none" /\ (wf'.attempt = 1) = TRUE
      BY <3>1
    <3> QED
      BY <1>4, <3>1, <3>3, <3>4, <3>5
  <2> QED
    BY <2>1, <2>2, <2>3
<1>7. CASE UNCHANGED vars
  BY <1>7 DEF vars, Resumed, Present
<1> QED
  BY <1>5, <1>6, <1>7, NextIs

-----------------------------------------------------------------------------
(* The results that have been given.                                       *)

LEMMA GivenInit == Init => GivenHolds
BY NewRunFields DEF Init, GivenHolds, Given, Kept, Idle

\* The results an attempt stores are those it loaded, those of the row, or its own.
LEMMA StoredResults ==
  ASSUME Shape, Standing, NEW s \in Slots,
         proc[s].stage \in {"finalizing", "marking"},
         row' \in Written(proc[s].base, proc[s].run, row)
  PROVE  \/ row'.results = row.results
         \/ row'.results = proc[s].base.results
         \/ proc[s].stage = "finalizing" /\ row'.results.rounds = proc[s].rounds
<1> DEFINE p == proc[s]
<1>1. /\ p \in Attempts /\ p.base \in AttackRuns /\ p.run \in AttackRuns
      /\ row \in AttackRuns /\ LoadedOf(p)
  BY ShapeParts DEF Attempting, Recording, Attempts, Standing
<1>2. row'.results = p.run.results \/ row'.results = row.results
  BY <1>1, WrittenFields
<1>3. CASE p.stage = "marking"
  <2>1. p.run.results = p.base.results
    BY <1>1, <1>3, AppliedFields DEF LoadedOf, Operations
  <2> QED
    BY <1>2, <2>1
<1>4. CASE p.stage = "finalizing"
  <2>1. p.run = Finalized(p, p.base)
    BY <1>1, <1>4 DEF LoadedOf
  <2>2. Finalized(p, p.base).results = [given |-> TRUE, rounds |-> p.rounds]
    BY <1>1, FinalizedFields
  <2> QED
    BY <1>2, <1>4, <2>1, <2>2
<1> QED
  BY <1>3, <1>4

LEMMA GivenStep ==
  ASSUME Shape, Standing, Settled, Unique, Resumed, GivenHolds, [Next]_vars
  PROVE  GivenHolds'
<1> SUFFICES ASSUME Plain'
             PROVE  /\ Given' => IsTerminal(row') /\ \A s \in Slots : Over(proc'[s])
                    /\ Kept(row', durable')
                    /\ \A q \in Requests :
                         Kept(req'[q].base, durable') /\ Kept(req'[q].run, durable')
                    /\ \A s \in Slots : proc'[s].stage \in {"finalizing", "marking"} =>
                         Kept(proc'[s].base, durable')
  BY DEF GivenHolds, Plain
<1>1. Plain
  BY PlainBefore
<1>2. IsTerminal(row) => IsTerminal(row')
  BY TerminalStays DEF Plain
<1>3. /\ Given => IsTerminal(row) /\ \A s \in Slots : Over(proc[s])
      /\ Kept(row, durable)
      /\ \A q \in Requests : Kept(req[q].base, durable) /\ Kept(req[q].run, durable)
      /\ \A s \in Slots :
           proc[s].stage \in {"finalizing", "marking"} => Kept(proc[s].base, durable)
  BY <1>1 DEF GivenHolds, Plain
<1>4. /\ proc \in [Slots -> Attempts] /\ req \in [Requests -> ApiRequests]
      /\ \A s \in Slots : ShapeOf(proc[s])
      /\ Idle.stage = "idle" /\ NewAttempt.stage = "new"
      /\ row \in AttackRuns
  BY ShapeParts DEF Attempting, Recording, Idle, NewAttempt
<1>5. \A u \in Requests : req[u].run.results = req[u].base.results
  BY RequestCounters
<1>6. CASE \E s \in Slots : Moving(s) \/ Leaving(s) \/ Retrying(s) \/ Stalling(s)
  <2>1. PICK s \in Slots : Moving(s) \/ Leaving(s) \/ Retrying(s) \/ Stalling(s)
    BY <1>6
  <2>2. CASE Moving(s)
    <3>1. PICK x \in Attempts :
            /\ proc[s].stage # "idle" /\ Moves(proc[s], x)
            /\ \A t \in Slots : proc'[t] = IF t = s THEN x ELSE Idle
            /\ row' \in IF Storing(proc[s], x)
                        THEN Written(proc[s].base, proc[s].run, row) ELSE {row}
            /\ durable' = IF Checkpointing(proc[s], x)
                          THEN [durable EXCEPT ![Len(proc[s].rounds) + 1] = proc[s].kind]
                          ELSE durable
            /\ req' = req
      BY <1>1, <2>2, AloneMoves
    <3>2. CASE Storing(proc[s], x)
      <4>1. /\ x.stage = "returning" /\ durable' = durable
            /\ row' \in Written(proc[s].base, proc[s].run, row)
            /\ proc[s].stage \in {"finalizing", "marking"}
        BY <3>1, <3>2 DEF Storing, Checkpointing
      <4>2. IsTerminal(row')
        BY <1>1, <4>1, StoredTerminal DEF Plain
      <4>3. \A t \in Slots : Over(proc'[t])
        BY <1>4, <3>1, <4>1 DEF Over, Campaigning
      <4>4. proc[s].stage = "finalizing" => Holds(proc[s].rounds, durable)
        BY <1>1, <3>1 DEF Resumed, Plain, Resulting
      <4>5. Kept(row', durable)
        BY <1>3, <4>1, <4>4, StoredResults DEF Kept
      <4> QED
        BY <1>3, <1>4, <3>1, <4>1, <4>2, <4>3, <4>5
    <3>3. CASE Checkpointing(proc[s], x)
      <4>1. ~Given
        BY <1>3, <3>3 DEF Checkpointing, Over, Campaigning
      <4>2. row' = row /\ x.stage \in {"running", "finished"}
        <5>1. row' = row
          BY <3>1, <3>3 DEF Checkpointing, Storing
        <5>2. x = Recorded(proc[s])
          BY <3>1, <3>3 DEF Checkpointing, Moves, Campaigning
        <5> QED
          BY <1>4, <3>3, <5>1, <5>2, RecordedIs DEF Checkpointing
      <4>3. \A t \in Slots : proc'[t].stage \notin {"finalizing", "marking"}
        BY <1>4, <3>1, <4>2
      <4>4. /\ ~row'.results.given
            /\ \A q \in Requests : ~req'[q].base.results.given /\ ~req'[q].run.results.given
        BY <3>1, <4>1, <4>2 DEF Given
      <4>5. ~Given'
        BY <4>3, <4>4 DEF Given
      <4> QED
        BY <4>3, <4>4, <4>5 DEF Kept
    <3>4. CASE ~Storing(proc[s], x) /\ ~Checkpointing(proc[s], x)
      <4>1. row' = row /\ durable' = durable
        BY <3>1, <3>4
      <4>2. x.stage \in {"finalizing", "marking"} => x.base = row
        BY <1>4, <3>1, RecordedIs DEF Moves, Campaigning
      <4>3. Given' => Given
        <5>1. \A t \in Slots : proc'[t].stage \in {"finalizing", "marking"} => proc'[t].base = row
          BY <1>4, <3>1, <4>2
        <5> QED
          BY <3>1, <4>1, <5>1 DEF Given
      <4>4. ASSUME Given PROVE \A t \in Slots : Over(proc'[t])
        <5>1. IsTerminal(row) /\ Over(proc[s])
          BY <1>3, <4>4
        <5>2. x.stage \notin Campaigning
          BY <3>1, <5>1 DEF Over, Moves, Campaigning
        <5>3. x.stage = "loading" => x.status \in TerminalStatuses
          BY <1>4, <3>1, <5>1 DEF Over, Moves, Campaigning, IsTerminal
        <5> QED
          BY <1>4, <3>1, <5>2, <5>3 DEF Over, Campaigning
      <4> QED
        BY <1>3, <1>4, <3>1, <4>1, <4>2, <4>3, <4>4
    <3> QED
      BY <3>2, <3>3, <3>4
  <2>3. CASE Leaving(s) \/ Retrying(s) \/ Stalling(s)
    <3>1. /\ \A t \in Slots : proc'[t] \in {proc[t], Idle, NewAttempt}
          /\ row' = row /\ durable' = durable /\ req' = req
      BY <2>3, AloneEnds
    <3>2. Over(Idle) /\ Over(NewAttempt)
      BY <1>4 DEF Over, Campaigning
    <3>3. Given' => Given
      BY <1>4, <3>1 DEF Given
    <3> QED
      BY <1>3, <1>4, <3>1, <3>2, <3>3
  <2> QED
    BY <2>1, <2>2, <2>3
<1>7. CASE \E q \in Requests : Loading(q) \/ Committing(q) \/ Starting(q) \/ Clearing(q)
  <2>1. PICK q \in Requests : Loading(q) \/ Committing(q) \/ Starting(q) \/ Clearing(q)
    BY <1>7
  <2>2. \A t \in Slots : proc'[t] \in {proc[t], NewAttempt}
    BY <1>4, <2>1 DEF Loading, Committing, Starting, Clearing, WorkflowStarts
  <2>3. durable' = durable
    BY <2>1 DEF Loading, Committing, Starting, Clearing
  <2>4. Over(NewAttempt)
    BY <1>4 DEF Over, Campaigning
  <2>5. PICK r \in ApiRequests : /\ req' = [req EXCEPT ![q] = r]
                                 /\ \/ Loading(q) /\ r.base = row /\ r.run.results = row.results
                                    \/ ~Loading(q) /\ Cleared(r)
    <3>1. CASE Loading(q)
      <4>1. PICK r \in ApiRequests :
              /\ req' = [req EXCEPT ![q] = r] /\ r.base = row
              /\ \/ r.op \in Operations /\ r.run = Apply(r.op, row)
                 \/ r.run = Apply("fail", row)
        BY <3>1 DEF Loading
      <4>2. r.run.results = row.results
        <5>1. "fail" \in Operations
          BY DEF Operations
        <5> QED
          BY <1>4, <4>1, <5>1, AppliedFields
      <4> QED
        BY <3>1, <4>1, <4>2
    <3>2. CASE ~Loading(q)
      BY <2>1, <3>2 DEF Committing, Starting, Clearing
    <3> QED
      BY <3>1, <3>2
  <2>6. \A u \in Requests : req'[u] = IF u = q THEN r ELSE req[u]
    BY <1>4, <2>5
  <2>7. row'.results = row.results \/ row'.results = req[q].run.results
    BY <2>1, CommittedFields DEF Loading, Starting, Clearing
  <2>8. Given' => Given
    BY <1>4, <2>2, <2>5, <2>6, <2>7, NewRunFields DEF Given, Cleared
  <2>9. Kept(row', durable)
    BY <1>3, <2>7 DEF Kept
  <2>10. Kept(r.base, durable) /\ Kept(r.run, durable)
    BY <1>3, <2>5, NewRunFields DEF Kept, Cleared
  <2> QED
    BY <1>2, <1>3, <1>4, <2>2, <2>3, <2>4, <2>6, <2>8, <2>9, <2>10
<1>8. CASE UNCHANGED vars
  <2>1. Given' = Given
    BY <1>8 DEF vars, Given
  <2> QED
    BY <1>3, <1>8, <2>1 DEF vars
<1> QED
  BY <1>6, <1>7, <1>8, NextIs

-----------------------------------------------------------------------------
(* The theorems.  Two inductive invariants: Ledger holds under every retry  *)
(* policy, Campaign only under one of at most two attempts, which is what   *)
(* the workflow asks Temporal for.  A third attempt may replay rounds that  *)
(* two predecessors left behind each other, beyond the budget.              *)

Ledger == Shape /\ Standing /\ Settled /\ Unique /\ Counted
Campaign == Ledger /\ Resumed /\ GivenHolds

(* What attempts, workflow and row know of each other.  Terminal statuses   *)
(* stand unless the run is reopened; attempts follow one another unless one *)
(* outlives its deadline; counters are raised once.                         *)
THEOREM LedgerInvariant == Spec => []Ledger
<1>1. Init => Ledger
  BY ShapeInit, StandingInit, SettledInit, UniqueInit, CountedInit DEF Ledger
<1>2. Ledger /\ [Next]_vars => Ledger'
  BY ShapeStep, StandingStep, SettledStep, UniqueStep, CountedStep DEF Ledger
<1> QED
  BY <1>1, <1>2, PTL DEF Spec

(* README.md: "terminal campaigns reconstruct without re-executing          *)
(* providers".  An attempt that was scheduled when the run was terminal     *)
(* calls no target, whatever requests and other attempts do meanwhile,      *)
(* unless a start request reopens the run.                                  *)
THEOREM TerminalNotReexecutedTheorem == Spec => []TerminalNotReexecuted
<1>1. Ledger => TerminalNotReexecuted
  BY DEF Ledger, Settled, Stands, Campaigning, TerminalNotReexecuted
<1> QED
  BY <1>1, LedgerInvariant, PTL

(* A workflow that returns its activity's result leaves a terminal run.     *)
THEOREM ResultMeansTerminalTheorem == Spec => []ResultMeansTerminal
<1>1. Ledger => ResultMeansTerminal
  BY DEF Ledger, Settled, ResultMeansTerminal
<1> QED
  BY <1>1, LedgerInvariant, PTL

(* _finalize_run may run once per attempt, but raises the run's counters    *)
(* only once: they count no more rounds than one campaign has.              *)
THEOREM CountedOnceTheorem == Spec => []CountedOnce
<1>1. Ledger => CountedOnce
  BY DEF Ledger, Counted, Sound, Bounded, CountedOnce
<1> QED
  BY <1>1, LedgerInvariant, PTL

(* What a resumed campaign knows of the rounds its predecessor left.        *)
THEOREM CampaignInvariant == ASSUME MaxAttempts <= 2 PROVE Spec => []Campaign
<1>1. Init => Campaign
  BY ShapeInit, StandingInit, SettledInit, UniqueInit, CountedInit, ResumedInit, GivenInit
     DEF Campaign, Ledger
<1>2. Campaign /\ [Next]_vars => Campaign'
  BY ShapeStep, StandingStep, SettledStep, UniqueStep, CountedStep, ResumedStep, GivenStep
     DEF Campaign, Ledger
<1> QED
  BY <1>1, <1>2, PTL DEF Spec

(* Every attempt counts rounds and tokens anew from what it replays, and    *)
(* no campaign exceeds the number of rounds; unless attempts overlap or the *)
(* run is started once more, it overdraws the tokens by less than a call.   *)
THEOREM BudgetHeldTheorem == ASSUME MaxAttempts <= 2 PROVE Spec => []BudgetHeld
<1>1. Campaign => BudgetHeld
  <2> SUFFICES ASSUME Campaign, NEW s \in Slots
               PROVE  /\ Len(proc[s].rounds) <= MaxRounds
                      /\ Plain => WithinReach(TokensOf(proc[s].rounds))
    BY DEF BudgetHeld, Plain, WithinReach
  <2>1. ShapeOf(proc[s])
    BY DEF Campaign, Ledger, Shape
  <2>2. CASE proc[s].stage = "idle"
    <3>1. proc[s].rounds = <<>>
      BY <2>1, <2>2 DEF ShapeOf, Idle
    <3> QED
      BY <2>1, <3>1, TokensOfEmpty DEF ShapeOf, WithinReach
  <2>3. CASE proc[s].stage # "idle"
    BY <2>1, <2>3 DEF Campaign, Resumed, Plain, ShapeOf
  <2> QED
    BY <2>2, <2>3
<1> QED
  BY <1>1, CampaignInvariant, PTL

(* The results recorded in the run's row, also those an attempt rebuilds    *)
(* after the run has ended, leave out no durable round.                     *)
THEOREM ResultsHoldDurableTheorem == ASSUME MaxAttempts <= 2 PROVE Spec => []ResultsHoldDurable
<1>1. Campaign => ResultsHoldDurable
  <2> SUFFICES ASSUME Campaign, ~overlapped, ~reopened, row.results.given
               PROVE  \A n \in 1 .. MaxRounds : durable[n] # NoRound =>
                        \E i \in DOMAIN row.results.rounds :
                          row.results.rounds[i] = [number |-> n, kind |-> durable[n]]
    BY DEF ResultsHoldDurable
  <2>1. Holds(row.results.rounds, durable)
    BY DEF Campaign, GivenHolds, Kept
  <2>2. row.results.rounds \in Seq(Rounds)
    BY DEF Campaign, Ledger, Shape, TypeOK, AttackRuns, Results
  <2> QED
    BY <2>1, <2>2 DEF Holds
<1> QED
  BY <1>1, CampaignInvariant, PTL

\* Without gaps, whatever precedes a durable round is durable.
LEMMA NoGapsBelow ==
  ASSUME NoGaps, NEW n \in 1 .. MaxRounds, durable[n] # NoRound
  PROVE  \A m \in 1 .. n : durable[m] # NoRound
<1> DEFINE S == {k \in 0 .. n - 1 : durable[n - k] # NoRound}
<1>1. MaxRounds \in Nat
  BY RedTeamCampaignAssumption
<1>2. n - 1 \in Nat /\ 0 \in S
  BY <1>1
<1>3. \A k \in 1 .. n - 1 : k - 1 \in S => k \in S
  <2> SUFFICES ASSUME NEW k \in 1 .. n - 1, k - 1 \in S PROVE k \in S
    OBVIOUS
  <2>1. durable[n - (k - 1)] # NoRound /\ n - (k - 1) \in 2 .. MaxRounds
    BY <1>1
  <2>2. (n - (k - 1)) - 1 = n - k
    BY <1>1
  <2>3. durable[(n - (k - 1)) - 1] # NoRound
    BY <2>1 DEF NoGaps
  <2> QED
    BY <1>1, <2>2, <2>3
<1>4. \A k \in 0 .. n - 1 : k \in S
  <2> HIDE DEF S
  <2> QED
    BY <1>2, <1>3, IntervalBySuccessor
<1>5. ASSUME NEW m \in 1 .. n PROVE durable[m] # NoRound
  <2>1. n - m \in 0 .. n - 1 /\ n - (n - m) = m
    BY <1>1
  <2> QED
    BY <1>4, <2>1
<1> QED
  BY <1>5

LEMMA CallsNextRound ==
  ASSUME Campaign, Shape', [Next]_vars, NEW s \in Slots, ~overlapped, ~reopened, NoGaps,
         proc[s].stage = "running", proc'[s].stage = "executed"
  PROVE  durable[NextNumber(s)] = NoRound
<1> DEFINE L == Len(proc[s].rounds)
<1>1. /\ ShapeOf(proc[s]) /\ ShapeOf(proc'[s]) /\ proc \in [Slots -> Attempts]
      /\ Idle.stage = "idle" /\ NewAttempt.stage = "new" /\ Shape
  BY DEF Campaign, Ledger, Shape, TypeOK, Idle, NewAttempt
<1>2. proc'[s].rounds = proc[s].rounds
  <2>1. CASE \E t \in Slots : Moving(t) \/ Leaving(t) \/ Retrying(t) \/ Stalling(t)
    <3>1. PICK t \in Slots : Moving(t) \/ Leaving(t) \/ Retrying(t) \/ Stalling(t)
      BY <2>1
    <3>2. CASE Moving(t)
      <4>1. PICK x \in Attempts : Moves(proc[t], x) /\ proc' = [proc EXCEPT ![t] = x]
        BY <3>2 DEF Moving
      <4>2. t = s /\ proc'[s] = x
        BY <1>1, <4>1
      <4> QED
        BY <4>1, <4>2 DEF Moves, Keeps, Campaigning
    <3>3. CASE Leaving(t)
      BY <1>1, <3>3 DEF Leaving
    <3>4. CASE Retrying(t)
      BY <1>1, <3>4 DEF Retrying
    <3>5. CASE Stalling(t)
      BY <1>1, <3>5 DEF Stalling, NextAttempt
    <3> QED
      BY <3>1, <3>2, <3>3, <3>4, <3>5
  <2>2. CASE \E q \in Requests : Loading(q) \/ Committing(q) \/ Starting(q) \/ Clearing(q)
    BY <1>1, <2>2 DEF Loading, Committing, Starting, Clearing, WorkflowStarts
  <2>3. CASE UNCHANGED vars
    BY <2>3 DEF vars
  <2> QED
    BY <1>1, <2>1, <2>2, <2>3, NextIs
<1>3. L \in Nat /\ L < MaxRounds /\ MaxRounds \in Nat
  BY <1>1, <1>2, RedTeamCampaignAssumption DEF ShapeOf, Attempts
<1>4. Ahead(proc[s], durable)
  BY DEF Campaign, Resumed, Campaigning
<1>5. SUFFICES ASSUME durable[L + 1] # NoRound PROVE FALSE
  BY DEF NextNumber
<1>6. L + 1 \in 1 .. MaxRounds
  BY <1>3
<1>7. PICK m \in 1 .. L : durable[m] = NoRound
  BY <1>3, <1>4, <1>5, <1>6 DEF Ahead
<1>8. durable[m] # NoRound
  BY <1>3, <1>5, <1>6, <1>7, NoGapsBelow
<1> QED
  BY <1>7, <1>8

(* README.md: "every round checkpointed to PostgreSQL; campaigns resume     *)
(* from last completed round".  A step that calls the target does so for a  *)
(* round that is not durable yet, if no failed round has left a gap.        *)
THEOREM ResumeSkipsDurableTheorem == ASSUME MaxAttempts <= 2 PROVE Spec => ResumeSkipsDurable
<1>1. Campaign /\ Shape' /\ [Next]_vars =>
        [\A s \in Slots :
           /\ ~overlapped /\ ~reopened /\ NoGaps
           /\ proc[s].stage = "running" /\ proc'[s].stage = "executed"
           => durable[NextNumber(s)] = NoRound]_vars
  BY CallsNextRound
<1> QED
  BY <1>1, CampaignInvariant, ShapeInvariant, PTL DEF Spec, ResumeSkipsDurable
=============================================================================
