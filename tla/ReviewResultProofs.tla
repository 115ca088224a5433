-------------------------- MODULE ReviewResultProofs --------------------------
(***************************************************************************)
(* For any file, corpus, distances and answers: what a batch is offered,   *)
(* that a finding lies in the file and cites only what was offered, and    *)
(* how the deduction is split.  Closest hits and largest remainders are    *)
(* taken by rank in a finite order; that as many ranks lie below a number, *)
(* and what sums do, is in FiniteSums.                                     *)
(***************************************************************************)
EXTENDS ReviewResult, FiniteSums

\* A sequence, of whatever.
IsSeq(s) == \E S : s \in Seq(S)

\* Offers and outcomes come in pairs.
Paired == IsSeq(offered) /\ IsSeq(outcomes) /\ Len(offered) = Len(outcomes)

\* Every finding has its lines in the file and in order.
FindingsInFile ==
    \A b \in DOMAIN outcomes : \A i \in DOMAIN outcomes[b] :
        LET id == outcomes[b][i].id IN
        id[1] \in 1..Lines /\ id[2] \in 1..Lines /\ id[1] <= id[2]

\* Appending keeps what is there and puts the element behind it.
LEMMA AppendKeeps ==
    ASSUME NEW s, IsSeq(s), NEW e
    PROVE  LET t == Append(s, e) IN
           /\ IsSeq(t) /\ Len(t) = Len(s) + 1
           /\ DOMAIN t = DOMAIN s \union {Len(t)}
           /\ t[Len(t)] = e /\ \A b \in DOMAIN s : t[b] = s[b] /\ b # Len(t)
<1>1. PICK S : s \in Seq(S)
  BY DEF IsSeq
<1>2. s \in Seq(S \union {e})
  BY <1>1
<1>3. Append(s, e) \in Seq(S \union {e}) /\ Len(s) \in Nat /\ DOMAIN s = 1..Len(s)
  BY <1>2
<1>4. Len(Append(s, e)) = Len(s) + 1 /\ DOMAIN Append(s, e) = 1..(Len(s) + 1)
  BY <1>2, <1>3
<1>5. Append(s, e)[Len(s) + 1] = e /\ \A b \in 1..Len(s) : Append(s, e)[b] = s[b]
  BY <1>2, <1>3
<1>6. QED
  BY <1>3, <1>4, <1>5 DEF IsSeq

\* A validated finding is in the file, wherever the model saw it (_validate).
LEMMA ValidatedInFile ==
    ASSUME NEW f \in ModelFinding, NEW offer
    PROVE  LET id == Validate(f, offer).id IN
           id[1] \in 1..Lines /\ id[2] \in 1..Lines /\ id[1] <= id[2]
<1>1. f.start \in Nat \ {0} /\ f.end \in Nat \ {0} /\ Lines \in Nat \ {0}
  BY ReviewResultAssumption DEF ModelFinding
<1> DEFINE start == AtMost(f.start, Lines)
           end == AtMost(AtLeast(start, f.end), Lines)
<1>2. start \in 1..Lines /\ end \in 1..Lines /\ start <= end
  BY <1>1 DEF AtMost, AtLeast
<1>3. Validate(f, offer).id = <<start, end, f.kind>>
  BY DEF Validate
<1> HIDE DEF start, end
<1>4. QED
  BY <1>2, <1>3

\* A validated finding cites what was offered (_validate).
LEMMA ValidatedGrounded ==
    ASSUME NEW f, NEW offer
    PROVE  Validate(f, offer).grounded \subseteq RulesOf(offer)
BY DEF Validate, Grounded

\* The inductive invariant of what is offered and found.
ResultInv == Paired /\ FindingsInFile /\ GroundingIsProvable

\* One more batch keeps what was found in the file and grounded.
LEMMA ReviewBatchKeeps ==
    ASSUME ResultInv, ReviewBatch
    PROVE  ResultInv'
<1> DEFINE offer == RulesFor(Len(outcomes) + 1)
<1>1. PICK answer \in BoundedSeq(Answers, PerBatch) :
          /\ offered' = Append(offered, offer)
          /\ outcomes' = Append(outcomes, [i \in DOMAIN answer |-> Validate(answer[i], offer)])
  BY DEF ReviewBatch
<1> DEFINE found == [i \in DOMAIN answer |-> Validate(answer[i], offer)]
           n == Len(outcomes')
<1>2. \A i \in DOMAIN answer : answer[i] \in ModelFinding
  <2>1. PICK m \in 0..PerBatch : answer \in [1..m -> Answers]
    BY DEF BoundedSeq, SeqOf
  <2>2. QED
    BY <2>1, ReviewResultAssumption
<1> HIDE DEF offer
<1>3. /\ DOMAIN found = DOMAIN answer
      /\ \A i \in DOMAIN answer : found[i] = Validate(answer[i], offer)
  OBVIOUS
<1> HIDE DEF found
<1>4. outcomes' = Append(outcomes, found)
  BY <1>1 DEF found
<1>5. /\ Paired' /\ n = Len(offered')
      /\ DOMAIN outcomes' = DOMAIN outcomes \union {n} /\ outcomes'[n] = found
      /\ \A b \in DOMAIN outcomes : outcomes'[b] = outcomes[b]
      /\ offered'[n] = offer /\ \A b \in DOMAIN offered : offered'[b] = offered[b]
  <2>1. IsSeq(offered) /\ IsSeq(outcomes) /\ Len(offered) = Len(outcomes)
    BY DEF ResultInv, Paired
  <2>2. /\ IsSeq(offered') /\ Len(offered') = Len(offered) + 1 /\ offered'[Len(offered')] = offer
        /\ \A b \in DOMAIN offered : offered'[b] = offered[b]
    BY <1>1, <2>1, AppendKeeps
  <2>3. /\ IsSeq(outcomes') /\ n = Len(outcomes) + 1 /\ outcomes'[n] = found
        /\ DOMAIN outcomes' = DOMAIN outcomes \union {n}
        /\ \A b \in DOMAIN outcomes : outcomes'[b] = outcomes[b]
    BY <1>4, <2>1, AppendKeeps
  <2>4. QED
    BY <2>1, <2>2, <2>3 DEF Paired, IsSeq
<1>6. DOMAIN offered = DOMAIN outcomes
  BY DEF ResultInv, Paired
<1> HIDE DEF n
<1>7. FindingsInFile'
  <2>1. ASSUME NEW b \in DOMAIN outcomes', NEW i \in DOMAIN outcomes'[b]
        PROVE  LET id == outcomes'[b][i].id IN
               id[1] \in 1..Lines /\ id[2] \in 1..Lines /\ id[1] <= id[2]
    <3>1. CASE b = n
      BY <1>2, <1>3, <1>5, <2>1, <3>1, ValidatedInFile
    <3>2. CASE b \in DOMAIN outcomes
      BY <1>5, <2>1, <3>2 DEF ResultInv, FindingsInFile
    <3>3. QED
      BY <1>5, <3>1, <3>2
  <2>2. QED
    BY <2>1 DEF FindingsInFile
<1>8. GroundingIsProvable'
  <2>1. ASSUME NEW b \in DOMAIN outcomes', NEW i \in DOMAIN outcomes'[b]
        PROVE  outcomes'[b][i].grounded \subseteq RulesOf(offered'[b])
    <3>1. CASE b = n
      BY <1>3, <1>5, <2>1, <3>1, ValidatedGrounded
    <3>2. CASE b \in DOMAIN outcomes
      BY <1>5, <1>6, <2>1, <3>2 DEF ResultInv, GroundingIsProvable
    <3>3. QED
      BY <1>5, <3>1, <3>2
  <2>2. QED
    BY <2>1 DEF GroundingIsProvable
<1>9. QED
  BY <1>5, <1>7, <1>8 DEF ResultInv

\* So it holds of every run.
LEMMA ResultHolds == Spec => []ResultInv
<1>1. Init => ResultInv
  <2>1. IsSeq(<<>>)
    <3>1. <<>> \in Seq({})
      OBVIOUS
    <3>2. QED
      BY <3>1 DEF IsSeq
  <2>2. QED
    BY <2>1 DEF Init, ResultInv, Paired, FindingsInFile, GroundingIsProvable
<1>2. ResultInv /\ [Next]_vars => ResultInv'
  <2>1. ASSUME ResultInv, UNCHANGED <<offered, outcomes>>
        PROVE  ResultInv'
    BY <2>1 DEF ResultInv, Paired, FindingsInFile, GroundingIsProvable
  <2>2. Embed \/ Search \/ Score \/ UNCHANGED vars => UNCHANGED <<offered, outcomes>>
    BY DEF Embed, Search, Score, vars
  <2>3. QED
    BY <2>1, <2>2, ReviewBatchKeeps DEF Next
<1>3. QED
  BY <1>1, <1>2, PTL DEF Spec

\* Whatever models cite, what is said to ground a finding was shown to the model
\* that made it (_validate, rules_for_batch).
THEOREM GroundingHolds == Spec => []GroundingIsProvable
<1>1. ResultInv => GroundingIsProvable
  BY DEF ResultInv
<1>2. QED
  BY <1>1, ResultHolds, PTL

\* Whatever lines models name, a finding has its lines in the file and in order
\* (_validate).
THEOREM FindingsStayInFile == Spec => []FindingsInFile
<1>1. ResultInv => FindingsInFile
  BY DEF ResultInv
<1>2. QED
  BY <1>1, ResultHolds, PTL

-----------------------------------------------------------------------------
(* The closest rules *)

\* Closer, as a set of pairs.
CloserPairs == {p \in Hit \X Hit : Closer(p[1], p[2])}

\* What a hit is made of.
LEMMA HitFields ==
    ASSUME NEW g \in Hit
    PROVE  /\ g.rule \in Rule /\ g.rule \in Nat /\ g.distance \in Nat
           /\ g = [rule |-> g.rule, distance |-> g.distance]
<1>1. g.rule \in Rule /\ g.distance \in Distance /\ g = [rule |-> g.rule, distance |-> g.distance]
  BY DEF Hit
<1>2. Rule \subseteq Nat /\ Distance \subseteq Nat
  BY ReviewResultAssumption DEF Rule
<1> QED BY <1>1, <1>2

\* Of two hits one is closer: the id decides a tie in distance.
LEMMA CloserIsOrder ==
    ASSUME NEW S \in SUBSET Hit
    PROVE  StrictOrder(CloserPairs, S)
<1>1. \A g, h \in S : <<g, h>> \in CloserPairs <=> Closer(g, h)
  BY DEF CloserPairs
<1>2. \A g \in S : ~Closer(g, g)
  BY HitFields DEF Closer
<1>3. \A g, h, i \in S : Closer(g, h) /\ Closer(h, i) => Closer(g, i)
  <2> SUFFICES ASSUME NEW g \in S, NEW h \in S, NEW i \in S, Closer(g, h), Closer(h, i)
               PROVE  Closer(g, i)
    OBVIOUS
  <2>1. /\ g.rule \in Nat /\ h.rule \in Nat /\ i.rule \in Nat
        /\ g.distance \in Nat /\ h.distance \in Nat /\ i.distance \in Nat
    BY HitFields
  <2> QED BY <2>1 DEF Closer
<1>4. \A g, h \in S : g # h => Closer(g, h) \/ Closer(h, g)
  <2> SUFFICES ASSUME NEW g \in S, NEW h \in S, ~Closer(g, h), ~Closer(h, g)
               PROVE  g = h
    OBVIOUS
  <2>1. /\ g.rule \in Nat /\ h.rule \in Nat
        /\ g.distance \in Nat /\ h.distance \in Nat
    BY HitFields
  <2>2. g.rule = h.rule /\ g.distance = h.distance
    BY <2>1 DEF Closer
  <2>3. g = [rule |-> g.rule, distance |-> g.distance] /\ h = [rule |-> h.rule, distance |-> h.distance]
    BY HitFields
  <2> QED BY <2>2, <2>3
<1> QED BY <1>1, <1>2, <1>3, <1>4 DEF StrictOrder

\* The closest hits are those of the smallest ranks.
LEMMA ClosestByRank ==
    ASSUME NEW S \in SUBSET Hit, NEW n \in Nat
    PROVE  Closest(n, S) = {h \in S : Rank(CloserPairs, h, S) < n}
<1>1. ASSUME NEW h \in S
      PROVE  {g \in S : Closer(g, h)} = Below(CloserPairs, h, S)
  BY DEF Below, CloserPairs
<1> QED BY <1>1 DEF Closest, Rank

\* The closest are as many as there may be, and nothing left out is closer.
LEMMA ClosestTakes ==
    ASSUME NEW S \in SUBSET Hit, IsFiniteSet(S), NEW n \in Nat
    PROVE  /\ Closest(n, S) \subseteq S
           /\ Cardinality(Closest(n, S)) = AtMost(n, Cardinality(S))
           /\ \A h \in S \ Closest(n, S), g \in Closest(n, S) : g.distance <= h.distance
<1>1. Closest(n, S) \subseteq S
  BY DEF Closest
<1>2. StrictOrder(CloserPairs, S)
  BY CloserIsOrder
<1>3. Closest(n, S) = {h \in S : Rank(CloserPairs, h, S) < n}
  BY ClosestByRank
<1>4. Cardinality(S) \in Nat
  BY FS_CardinalityType
<1>5. \A h \in S : Rank(CloserPairs, h, S) \in Nat /\ Rank(CloserPairs, h, S) < Cardinality(S)
  BY <1>2, RankType
<1>6. Cardinality(Closest(n, S)) = AtMost(n, Cardinality(S))
  <2>1. CASE n <= Cardinality(S)
    BY <1>2, <1>3, <2>1, RanksBelow DEF AtMost
  <2>2. CASE ~(n <= Cardinality(S))
    <3>1. Closest(n, S) = S
      BY <1>3, <1>4, <1>5, <2>2
    <3> QED BY <2>2, <3>1 DEF AtMost
  <2> QED BY <2>1, <2>2
<1>7. ASSUME NEW h \in S \ Closest(n, S), NEW g \in Closest(n, S)
      PROVE  g.distance <= h.distance
  <2>1. g \in S /\ h \in S /\ Rank(CloserPairs, g, S) < n /\ ~(Rank(CloserPairs, h, S) < n)
    BY <1>3
  <2>2. <<h, g>> \notin CloserPairs
    <3>1. SUFFICES ASSUME <<h, g>> \in CloserPairs PROVE FALSE
      OBVIOUS
    <3>2. Rank(CloserPairs, h, S) < Rank(CloserPairs, g, S)
      BY <1>2, <2>1, <3>1, RankLess
    <3> QED BY <1>5, <2>1, <3>2
  <2>3. ~Closer(h, g)
    BY <2>1, <2>2 DEF CloserPairs
  <2>4. h.distance \in Nat /\ g.distance \in Nat
    BY <2>1, HitFields
  <2> QED BY <2>3, <2>4 DEF Closer
<1> QED BY <1>1, <1>6, <1>7

\* There is one best hit of each rule.
LEMMA BestOfEach ==
    ASSUME NEW some \in SUBSET Hit
    PROVE  /\ Best(some) \subseteq some
           /\ \A h \in some : \E g \in Best(some) : g.rule = h.rule /\ g.distance <= h.distance
           /\ \A g, h \in Best(some) : g.rule = h.rule => g = h
<1>1. Best(some) \subseteq some
  BY DEF Best
<1>2. ASSUME NEW h \in some
      PROVE  \E g \in Best(some) : g.rule = h.rule /\ g.distance <= h.distance
  <2> DEFINE T == {g.distance : g \in {i \in some : i.rule = h.rule}}
  <2>1. T \in SUBSET Nat /\ h.distance \in T
    BY HitFields
  <2> HIDE DEF T
  <2>2. PICK d \in T : \A m \in T : d <= m
    BY <2>1, LeastNumber
  <2>3. PICK g \in some : g.rule = h.rule /\ g.distance = d
    BY DEF T
  <2>4. \A i \in some : i.rule = g.rule => g.distance <= i.distance
    BY <2>2, <2>3 DEF T
  <2> QED BY <2>3, <2>4 DEF Best
<1>3. ASSUME NEW g \in Best(some), NEW h \in Best(some), g.rule = h.rule
      PROVE  g = h
  <2>1. g \in some /\ h \in some /\ g.distance <= h.distance /\ h.distance <= g.distance
    BY <1>3 DEF Best
  <2>2. g.distance \in Nat /\ h.distance \in Nat
    BY <2>1, HitFields
  <2>3. g.distance = h.distance
    BY <2>1, <2>2
  <2>4. g = [rule |-> g.rule, distance |-> g.distance] /\ h = [rule |-> h.rule, distance |-> h.distance]
    BY <2>1, HitFields
  <2> QED BY <1>3, <2>3, <2>4
<1> QED BY <1>1, <1>2, <1>3

\* Hits of different rules are as many as their rules.
LEMMA CountByRule ==
    ASSUME NEW some \in SUBSET Hit, \A g, h \in some : g.rule = h.rule => g = h
    PROVE  IsFiniteSet(some) /\ Cardinality(RulesOf(some)) = Cardinality(some)
<1> DEFINE f == [h \in some |-> h.rule]
<1>1. RulesOf(some) \subseteq Rule
  BY HitFields DEF RulesOf
<1>2. IsFiniteSet(Rule)
  BY ReviewResultAssumption, FS_Interval DEF Rule
<1>3. IsFiniteSet(RulesOf(some))
  BY <1>1, <1>2, FS_Subset
<1>4. f \in [some -> RulesOf(some)]
  BY DEF RulesOf
<1>5. f \in Injection(some, RulesOf(some))
  BY <1>4 DEF Injection, IsInjective
<1>6. f \in Surjection(some, RulesOf(some))
  BY <1>4 DEF Surjection, RulesOf
<1> QED BY <1>3, <1>5, <1>6, FS_Injection

\* The offer to a batch: rules that were hit, as many as it may hold, and none left
\* out that is closer (rules_for_batch).
LEMMA OfferIsClosest ==
    ASSUME NEW some \in SUBSET Hit
    PROVE  LET chosen == RulesOf(Closest(MaxRules, Best(some))) IN
           /\ chosen \subseteq RulesOf(some)
           /\ Cardinality(chosen) = AtMost(MaxRules, Cardinality(RulesOf(some)))
           /\ \A h \in some : h.rule \notin chosen =>
                \A r \in chosen : \E g \in some : g.rule = r /\ g.distance <= h.distance
<1> DEFINE best == Best(some)
           offer == Closest(MaxRules, best)
<1>0. MaxRules \in Nat
  BY ReviewResultAssumption
<1>1. /\ best \subseteq some
      /\ \A h \in some : \E g \in best : g.rule = h.rule /\ g.distance <= h.distance
      /\ \A g, h \in best : g.rule = h.rule => g = h
  BY BestOfEach
<1> HIDE DEF best
<1>2. best \in SUBSET Hit
  BY <1>1
<1>3. IsFiniteSet(best) /\ Cardinality(RulesOf(best)) = Cardinality(best)
  BY <1>1, <1>2, CountByRule
<1>4. RulesOf(best) = RulesOf(some)
  BY <1>1 DEF RulesOf
<1>5. /\ offer \subseteq best
      /\ Cardinality(offer) = AtMost(MaxRules, Cardinality(best))
      /\ \A h \in best \ offer, g \in offer : g.distance <= h.distance
  BY <1>0, <1>2, <1>3, ClosestTakes
<1> HIDE DEF offer
<1>6. Cardinality(RulesOf(offer)) = Cardinality(offer)
  <2>1. offer \in SUBSET Hit /\ \A g, h \in offer : g.rule = h.rule => g = h
    BY <1>1, <1>2, <1>5
  <2> QED BY <2>1, CountByRule
<1>7. ASSUME NEW h \in some, h.rule \notin RulesOf(offer), NEW r \in RulesOf(offer)
      PROVE  \E g \in some : g.rule = r /\ g.distance <= h.distance
  <2>1. PICK g \in offer : g.rule = r
    BY DEF RulesOf
  <2>2. PICK i \in best : i.rule = h.rule /\ i.distance <= h.distance
    BY <1>1
  <2>3. i \notin offer
    BY <1>7, <2>2 DEF RulesOf
  <2>4. g.distance <= i.distance /\ g \in best
    BY <1>5, <2>2, <2>3
  <2>5. g.distance \in Nat /\ i.distance \in Nat /\ h.distance \in Nat
    BY <1>2, <2>4, HitFields
  <2>6. g.distance <= h.distance
    BY <2>2, <2>4, <2>5
  <2> QED BY <1>1, <2>1, <2>4, <2>6
<1>8. RulesOf(offer) \subseteq RulesOf(some)
  BY <1>4, <1>5 DEF RulesOf
<1>9. Cardinality(RulesOf(offer)) = AtMost(MaxRules, Cardinality(RulesOf(some)))
  BY <1>3, <1>4, <1>5, <1>6
<1> QED BY <1>7, <1>8, <1>9 DEF best, offer

-----------------------------------------------------------------------------
(* Retrieval *)

\* What does not change: the texts of the chunks and the distances.
InputsOK ==
    /\ texts \in [Chunk -> Text \union {Blank}]
    /\ near \in [Text -> [Rule -> Distance]]

\* The order of the chunks.
LessPairs == {p \in Nat \X Nat : p[1] < p[2]}

\* Wanted lists each chunk that is not blank.
LEMMA WantedOnce ==
    /\ Wanted \in Seq(NotBlank)
    /\ Len(Wanted) = Cardinality(NotBlank) /\ Len(Wanted) \in Nat
    /\ DOMAIN Wanted = 1..Len(Wanted)
    /\ \A i \in DOMAIN Wanted : Wanted[i] \in NotBlank
    /\ \A c \in NotBlank : \E i \in DOMAIN Wanted : Wanted[i] = c
<1>1. IsFiniteSet(NotBlank) /\ NotBlank \subseteq Nat
  <2>1. NotBlank \subseteq Chunk /\ IsFiniteSet(Chunk) /\ Chunk \subseteq Nat
    BY ReviewResultAssumption DEF NotBlank, Chunk
  <2> QED BY <2>1, FS_Subset
<1>2. StrictOrder(LessPairs, NotBlank)
  <2>1. \A c, d \in NotBlank : <<c, d>> \in LessPairs <=> c < d
    BY <1>1 DEF LessPairs
  <2> QED BY <1>1, <2>1 DEF StrictOrder
<1> DEFINE n == Cardinality(NotBlank)
<1>3. n \in Nat
  BY <1>1, FS_CardinalityType
<1>4. \A c \in NotBlank : Cardinality({d \in NotBlank : d < c}) = Rank(LessPairs, c, NotBlank)
  <2> SUFFICES ASSUME NEW c \in NotBlank
               PROVE  {d \in NotBlank : d < c} = Below(LessPairs, c, NotBlank)
    BY DEF Rank
  <2> QED BY <1>1 DEF Below, LessPairs
<1>5. \A i \in 1..n : \E c \in NotBlank : Cardinality({d \in NotBlank : d < c}) = i - 1
  <2> SUFFICES ASSUME NEW i \in 1..n
               PROVE  \E c \in NotBlank : Cardinality({d \in NotBlank : d < c}) = i - 1
    OBVIOUS
  <2>1. i - 1 \in Nat /\ i - 1 < n
    BY <1>3
  <2>2. \E c \in NotBlank : Rank(LessPairs, c, NotBlank) = i - 1
    BY <1>1, <1>2, <2>1, RankTaken
  <2> QED BY <1>4, <2>2
<1>6. ASSUME NEW i \in 1..n
      PROVE  Wanted[i] \in NotBlank /\ Rank(LessPairs, Wanted[i], NotBlank) = i - 1
  <2>1. Wanted[i] = CHOOSE c \in NotBlank : Cardinality({d \in NotBlank : d < c}) = i - 1
    BY DEF Wanted
  <2>2. Wanted[i] \in NotBlank /\ Cardinality({d \in NotBlank : d < Wanted[i]}) = i - 1
    BY <1>5, <2>1
  <2> QED BY <1>4, <2>2
<1>7. ASSUME NEW c \in NotBlank
      PROVE  \E i \in 1..n : Wanted[i] = c
  <2> DEFINE i == Rank(LessPairs, c, NotBlank) + 1
  <2>1. i \in 1..n /\ i - 1 = Rank(LessPairs, c, NotBlank)
    BY <1>1, <1>2, <1>3, RankType
  <2> HIDE DEF i
  <2>2. Wanted[i] \in NotBlank /\ Rank(LessPairs, Wanted[i], NotBlank) = Rank(LessPairs, c, NotBlank)
    BY <1>6, <2>1
  <2>3. Wanted[i] = c
    BY <1>1, <1>2, <2>2, RankUnique
  <2> QED BY <2>1, <2>3
<1>9. DOMAIN Wanted = 1..n /\ Len(Wanted) = n
  BY <1>3 DEF Wanted
<1>8. Wanted \in Seq(NotBlank)
  <2> DEFINE e(i) == CHOOSE c \in NotBlank : Cardinality({d \in NotBlank : d < c}) = i - 1
  <2>1. Wanted = [i \in 1..n |-> e(i)]
    BY DEF Wanted
  <2>2. \A i \in 1..n : e(i) \in NotBlank
    BY <1>5
  <2> HIDE DEF e, n
  <2> QED BY <1>3, <2>1, <2>2
<1> QED BY <1>3, <1>6, <1>7, <1>8, <1>9

-----------------------------------------------------------------------------
(* What is retrieved, and offered *)

\* The vectors are those of the first chunks that are wanted.
Embedded ==
    /\ vectors \in Seq(Text) /\ Len(vectors) <= Len(Wanted)
    /\ \A i \in 1..Len(vectors) : vectors[i] = texts[Wanted[i]]
    /\ stage \in {"embed", "search"} => Len(Wanted) > 0
    /\ stage = "search" => Len(vectors) = Len(Wanted)

\* The hits of a chunk, once every vector was searched.
HitsOf(c) == IF vectors # <<>> /\ texts[c] # Blank THEN Found(texts[c]) ELSE {}

\* Each chunk has the hits of its own text, once they are there.
Retrieved ==
    /\ hits \in [Chunk -> SUBSET Hit]
    /\ stage \in {"review", "scored"} => \A c \in Chunk : hits[c] = HitsOf(c)

\* Each batch was offered the rules for its chunks.
Offered ==
    /\ stage \in {"embed", "search"} => offered = <<>>
    /\ \A b \in DOMAIN offered : b \in DOMAIN ChunksOf /\ offered[b] = RulesFor(b)

\* The inductive invariant of retrieval.
RetrievalInv ==
    /\ InputsOK /\ stage \in {"embed", "search", "review", "scored"}
    /\ Embedded /\ Retrieved /\ Offered

\* What a search finds are hits.
LEMMA FoundAreHits ==
    ASSUME InputsOK, NEW t \in Text
    PROVE  Found(t) \in SUBSET Hit
<1>1. \A r \in Rule : [rule |-> r, distance |-> near[t][r]] \in Hit
  BY DEF Hit, InputsOK
<1> QED BY <1>1 DEF Found, Closest

\* It holds of a file with no chunk to embed, too.
LEMMA RetrievalInit ==
    ASSUME Init
    PROVE  RetrievalInv
<1>1. InputsOK /\ stage \in {"embed", "search", "review", "scored"}
  BY DEF Init, InputsOK
<1>2. Embedded
  <2>1. <<>> \in Seq(Text) /\ Len(<<>>) = 0
    OBVIOUS
  <2>2. stage # "search" /\ (stage = "embed" => Wanted # <<>>) /\ vectors = <<>>
    BY DEF Init
  <2>3. Wanted # <<>> => Len(Wanted) > 0
    <3> HIDE DEF Wanted
    <3> QED BY WantedOnce
  <2> HIDE DEF Wanted
  <2>4. Len(Wanted) \in Nat
    BY WantedOnce
  <2> QED BY <2>1, <2>2, <2>3, <2>4 DEF Embedded
<1>3. Retrieved
  BY DEF Init, Retrieved, HitsOf, NoHits
<1>4. Offered
  BY DEF Init, Offered
<1> QED BY <1>1, <1>2, <1>3, <1>4 DEF RetrievalInv

\* A batch of embeddings goes on where the last one ended.
LEMMA EmbedKeeps ==
    ASSUME RetrievalInv, Embed
    PROVE  RetrievalInv'
<1>0. UNCHANGED <<texts, near, hits, offered>> /\ stage = "embed"
  BY DEF Embed
<1>1. Wanted' = Wanted /\ NotBlank' = NotBlank
  BY <1>0 DEF Wanted, NotBlank
<1>2. PICK n \in 1..AtMost(MaxTexts, Len(Wanted) - Len(vectors)) :
        /\ vectors' = [i \in 1..Len(vectors) + n |-> texts[Wanted[i]]]
        /\ stage' = IF Len(vectors') = Len(Wanted) THEN "search" ELSE stage
  BY DEF Embed
<1> DEFINE m == Len(vectors) + n
<1>3. Len(vectors) \in Nat /\ Len(Wanted) \in Nat /\ MaxTexts \in Nat
  BY WantedOnce, ReviewResultAssumption DEF RetrievalInv, Embedded
<1>4. m \in Nat /\ m <= Len(Wanted)
  BY <1>2, <1>3 DEF AtMost
<1> HIDE DEF m
<1>5. \A i \in 1..m : texts[Wanted[i]] \in Text
  <2> SUFFICES ASSUME NEW i \in 1..m PROVE texts[Wanted[i]] \in Text
    OBVIOUS
  <2>1. i \in DOMAIN Wanted
    BY <1>3, <1>4, WantedOnce
  <2>2. Wanted[i] \in NotBlank
    BY <2>1, WantedOnce
  <2> QED BY <2>2 DEF NotBlank, RetrievalInv, InputsOK
<1>6. vectors' = [i \in 1..m |-> texts[Wanted[i]]]
  BY <1>2 DEF m
<1>7. vectors' \in Seq(Text) /\ Len(vectors') = m
  BY <1>4, <1>5, <1>6
<1>8. Embedded'
  BY <1>0, <1>1, <1>2, <1>4, <1>6, <1>7 DEF RetrievalInv, Embedded
<1>9. Retrieved' /\ Offered'
  BY <1>0, <1>2 DEF RetrievalInv, Retrieved, Offered
<1> QED BY <1>0, <1>2, <1>8, <1>9 DEF RetrievalInv, InputsOK

\* The hits go to the chunk whose vector was searched for.
LEMMA SearchKeeps ==
    ASSUME RetrievalInv, Search
    PROVE  RetrievalInv'
<1>0. UNCHANGED <<texts, near, vectors, offered>> /\ stage = "search" /\ stage' = "review"
  BY DEF Search
<1>1. Wanted' = Wanted
  BY <1>0 DEF Wanted, NotBlank
<1>2. hits' = [c \in Chunk |->
                UNION {[k \in DOMAIN vectors |-> Found(vectors[k])][i] :
                           i \in {j \in DOMAIN Wanted : Wanted[j] = c}}]
  BY DEF Search, Aligned
<1>3. /\ vectors \in Seq(Text) /\ Len(vectors) = Len(Wanted) /\ Len(Wanted) > 0
      /\ \A i \in 1..Len(vectors) : vectors[i] = texts[Wanted[i]]
  BY <1>0 DEF RetrievalInv, Embedded
<1>4. DOMAIN vectors = DOMAIN Wanted /\ DOMAIN Wanted = 1..Len(Wanted) /\ vectors # <<>>
  BY <1>3, WantedOnce
<1>5. ASSUME NEW c \in Chunk
      PROVE  hits'[c] = HitsOf(c)
  <2>1. hits'[c] = UNION {Found(texts[c]) : i \in {j \in DOMAIN Wanted : Wanted[j] = c}}
    <3>1. \A i \in DOMAIN Wanted : Wanted[i] = c =>
              [k \in DOMAIN vectors |-> Found(vectors[k])][i] = Found(texts[c])
      BY <1>3, <1>4
    <3> QED BY <1>2, <3>1
  <2>2. CASE texts[c] # Blank
    <3>1. \E i \in DOMAIN Wanted : Wanted[i] = c
      BY <2>2, WantedOnce DEF NotBlank
    <3> QED BY <1>4, <2>1, <2>2, <3>1 DEF HitsOf
  <2>3. CASE texts[c] = Blank
    <3>1. \A i \in DOMAIN Wanted : Wanted[i] # c
      BY <2>3, WantedOnce DEF NotBlank
    <3> QED BY <2>1, <2>3, <3>1 DEF HitsOf
  <2> QED BY <2>2, <2>3
<1>6. \A c \in Chunk : HitsOf(c) \in SUBSET Hit
  BY FoundAreHits DEF HitsOf, RetrievalInv, InputsOK
<1>7. \A c \in Chunk : HitsOf(c)' = HitsOf(c)
  BY <1>0 DEF HitsOf, Found
<1>8. DOMAIN hits' = Chunk /\ hits' = [c \in Chunk |-> hits'[c]]
  BY <1>2
<1>9. Retrieved'
  BY <1>5, <1>6, <1>7, <1>8 DEF Retrieved
<1>10. Embedded'
  BY <1>0, <1>1 DEF RetrievalInv, Embedded
<1>11. Offered'
  BY <1>0 DEF RetrievalInv, Offered
<1> QED BY <1>0, <1>9, <1>10, <1>11 DEF RetrievalInv, InputsOK

\* A review leaves the hits alone, and offers what they say.
LEMMA ReviewRetrieves ==
    ASSUME Paired, RetrievalInv, ReviewBatch
    PROVE  RetrievalInv'
<1>0. UNCHANGED <<texts, near, vectors, hits, stage>> /\ stage = "review"
  BY DEF ReviewBatch
<1>1. Wanted' = Wanted
  BY <1>0 DEF Wanted, NotBlank
<1>2. Len(outcomes) < Len(ChunksOf) /\ offered' = Append(offered, RulesFor(Len(outcomes) + 1))
  BY DEF ReviewBatch
<1> DEFINE n == Len(offered')
<1>3. /\ n = Len(outcomes) + 1 /\ DOMAIN offered' = DOMAIN offered \union {n}
      /\ offered'[n] = RulesFor(n) /\ \A b \in DOMAIN offered : offered'[b] = offered[b]
  BY <1>2, AppendKeeps DEF Paired
<1>4. n \in DOMAIN ChunksOf
  <2>1. Len(ChunksOf) \in Nat /\ DOMAIN ChunksOf = 1..Len(ChunksOf)
    BY ReviewResultAssumption
  <2>2. Len(outcomes) \in Nat
    BY DEF Paired, IsSeq
  <2> QED BY <1>2, <1>3, <2>1, <2>2
<1> HIDE DEF n
<1>5. \A b : RulesFor(b)' = RulesFor(b)
  BY <1>0 DEF RulesFor
<1>6. Offered'
  BY <1>0, <1>3, <1>4, <1>5 DEF RetrievalInv, Offered
<1>7. Embedded' /\ Retrieved'
  BY <1>0, <1>1 DEF RetrievalInv, Embedded, Retrieved, HitsOf, Found
<1> QED BY <1>0, <1>6, <1>7 DEF RetrievalInv, InputsOK

\* The score changes nothing retrieved.
LEMMA ScoreRetrieves ==
    ASSUME RetrievalInv, Score \/ UNCHANGED vars
    PROVE  RetrievalInv'
<1>0. /\ UNCHANGED <<texts, near, vectors, hits, offered>>
      /\ stage' = stage \/ (stage = "review" /\ stage' = "scored")
  BY DEF Score, vars
<1>1. Wanted' = Wanted
  BY <1>0 DEF Wanted, NotBlank
<1>2. \A b : RulesFor(b)' = RulesFor(b)
  BY <1>0 DEF RulesFor
<1>3. Offered'
  BY <1>0, <1>2 DEF RetrievalInv, Offered
<1>4. Embedded' /\ Retrieved'
  BY <1>0, <1>1 DEF RetrievalInv, Embedded, Retrieved, HitsOf, Found
<1> QED BY <1>0, <1>3, <1>4 DEF RetrievalInv, InputsOK

\* So it holds of every run.
LEMMA RetrievalHolds == Spec => []RetrievalInv
<1>1. Init => RetrievalInv
  BY RetrievalInit
<1>2. ResultInv /\ RetrievalInv /\ [Next]_vars => RetrievalInv'
  BY EmbedKeeps, SearchKeeps, ReviewRetrieves, ScoreRetrieves DEF Next, ResultInv
<1> QED BY <1>1, <1>2, ResultHolds, PTL DEF Spec

\* However requests pack the texts and whichever chunks are blank or shared, a
\* batch is offered the closest of the rules found for its own chunks, as many
\* as it may be (retrieve, rules_for_batch).
THEOREM OffersAreClosest == Spec => []OffersTheClosest
<1>1. RetrievalInv => OffersTheClosest
  <2> SUFFICES ASSUME RetrievalInv, NEW b \in DOMAIN offered
               PROVE  LET wanted == {c \in ChunksOf[b] : vectors # <<>> /\ texts[c] # Blank}
                          candidates == UNION {Found(texts[c]) : c \in wanted}
                          chosen == RulesOf(offered[b]) IN
                      /\ chosen \subseteq RulesOf(candidates)
                      /\ Cardinality(chosen) = AtMost(MaxRules, Cardinality(RulesOf(candidates)))
                      /\ \A h \in candidates : h.rule \notin chosen =>
                          \A r \in chosen : \E g \in candidates :
                              g.rule = r /\ g.distance <= h.distance
    BY DEF OffersTheClosest
  <2> DEFINE wanted == {c \in ChunksOf[b] : vectors # <<>> /\ texts[c] # Blank}
             candidates == UNION {Found(texts[c]) : c \in wanted}
  <2>1. b \in DOMAIN ChunksOf /\ offered[b] = RulesFor(b) /\ stage \in {"review", "scored"}
    <3>1. stage \notin {"embed", "search"}
      BY DEF RetrievalInv, Offered
    <3> QED BY <3>1 DEF RetrievalInv, Offered
  <2>2. \A c \in ChunksOf[b] : c \in Chunk /\ hits[c] = HitsOf(c) /\ hits[c] \in SUBSET Hit
    BY <2>1 DEF Chunk, RetrievalInv, Retrieved
  <2>3. UNION {hits[c] : c \in ChunksOf[b]} = candidates
    BY <2>2 DEF HitsOf
  <2>4. candidates \in SUBSET Hit
    BY <2>2, <2>3
  <2> HIDE DEF candidates
  <2>5. offered[b] = Closest(MaxRules, Best(candidates))
    BY <2>1, <2>3 DEF RulesFor
  <2> QED BY <2>4, <2>5, OfferIsClosest DEF candidates
<1> QED BY <1>1, RetrievalHolds, PTL

-----------------------------------------------------------------------------
(* Types *)

\* What is appended to a sequence of a set keeps it one.
LEMMA SequenceOf ==
    ASSUME NEW s, IsSeq(s), NEW S, \A i \in DOMAIN s : s[i] \in S
    PROVE  s \in Seq(S)
<1>1. PICK T : s \in Seq(T)
  BY DEF IsSeq
<1>2. Len(s) \in Nat /\ s \in [1..Len(s) -> T] /\ DOMAIN s = 1..Len(s)
  BY <1>1
<1>3. s \in [1..Len(s) -> S]
  BY <1>2
<1> QED BY <1>2, <1>3

\* A validated answer is a finding.
LEMMA ValidatedIsFinding ==
    ASSUME NEW f \in ModelFinding, NEW offer \in SUBSET Hit
    PROVE  Validate(f, offer) \in Finding
<1> DEFINE start == AtMost(f.start, Lines)
           end == AtMost(AtLeast(start, f.end), Lines)
<1>1. f.start \in Nat \ {0} /\ f.end \in Nat \ {0} /\ f.kind \in Kind /\ f.sure \in BOOLEAN
  BY DEF ModelFinding
<1>2. start \in 1..Lines /\ end \in 1..Lines
  BY <1>1, ReviewResultAssumption DEF AtMost, AtLeast
<1>3. Grounded(f, offer) \in SUBSET Rule
  BY HitFields DEF Grounded, RulesOf
<1>4. Validate(f, offer) = [id |-> <<start, end, f.kind>>, sure |-> f.sure, grounded |-> Grounded(f, offer)]
  BY DEF Validate
<1> HIDE DEF start, end
<1>5. <<start, end, f.kind>> \in (1..Lines) \X (1..Lines) \X Kind
  BY <1>1, <1>2
<1> QED BY <1>1, <1>3, <1>4, <1>5 DEF Finding

\* What is found are findings, at most one list for each batch.
OutcomesOK == outcomes \in Seq(Seq(Finding)) /\ Len(outcomes) <= Len(ChunksOf)

\* A step keeps it so.
LEMMA OutcomesTyped ==
    ASSUME OutcomesOK, RetrievalInv, [Next]_vars
    PROVE  OutcomesOK'
<1>1. CASE ReviewBatch
  <2> DEFINE offer == RulesFor(Len(outcomes) + 1)
  <2>1. PICK answer \in BoundedSeq(Answers, PerBatch) :
            outcomes' = Append(outcomes, [i \in DOMAIN answer |-> Validate(answer[i], offer)])
    BY <1>1 DEF ReviewBatch
  <2>2. PICK m \in 0..PerBatch : answer \in [1..m -> Answers]
    BY DEF BoundedSeq, SeqOf
  <2>3. offer \in SUBSET Hit
    <3>1. Len(outcomes) + 1 \in DOMAIN ChunksOf
      <4>1. Len(ChunksOf) \in Nat /\ DOMAIN ChunksOf = 1..Len(ChunksOf)
        BY ReviewResultAssumption
      <4>2. Len(outcomes) \in Nat /\ Len(outcomes) < Len(ChunksOf)
        BY <1>1 DEF OutcomesOK, ReviewBatch
      <4> QED BY <4>1, <4>2
    <3>2. \A c \in ChunksOf[Len(outcomes) + 1] : hits[c] \in SUBSET Hit
      BY <3>1 DEF Chunk, RetrievalInv, Retrieved
    <3> QED BY <3>2 DEF RulesFor, Closest, Best
  <2> HIDE DEF offer
  <2>4. \A i \in 1..m : Validate(answer[i], offer) \in Finding
    BY <2>2, <2>3, ValidatedIsFinding, ReviewResultAssumption
  <2> DEFINE found == [i \in DOMAIN answer |-> Validate(answer[i], offer)]
  <2>5. found \in Seq(Finding)
    <3>1. DOMAIN answer = 1..m /\ m \in Nat
      BY <2>2
    <3>2. found \in [1..m -> Finding]
      BY <2>4, <3>1
    <3> QED BY <3>1, <3>2
  <2>6. outcomes' = Append(outcomes, found)
    BY <2>1
  <2> HIDE DEF found
  <2>7. Len(outcomes) < Len(ChunksOf) /\ Len(ChunksOf) \in Nat
    BY <1>1, ReviewResultAssumption DEF ReviewBatch
  <2>8. outcomes \in Seq(Seq(Finding))
    BY DEF OutcomesOK
  <2> DEFINE S == Seq(Finding)
  <2>9. outcomes \in Seq(S) /\ found \in S
    BY <2>5, <2>8
  <2> HIDE DEF S
  <2>10. outcomes' \in Seq(S) /\ Len(outcomes') = Len(outcomes) + 1 /\ Len(outcomes) \in Nat
    BY <2>6, <2>9
  <2>11. Len(outcomes') <= Len(ChunksOf)
    BY <2>7, <2>10
  <2> QED BY <2>10, <2>11 DEF OutcomesOK, S
<1>2. CASE Embed \/ Search \/ Score \/ UNCHANGED vars
  <2>1. UNCHANGED outcomes
    BY <1>2 DEF Embed, Search, Score, vars
  <2> QED BY <2>1 DEF OutcomesOK
<1> QED BY <1>1, <1>2 DEF Next

\* So it holds of every run.
LEMMA OutcomesHold == Spec => []OutcomesOK
<1>1. Init => OutcomesOK
  <2> SUFFICES ASSUME Init PROVE OutcomesOK
    OBVIOUS
  <2>1. Len(ChunksOf) \in Nat
    BY ReviewResultAssumption
  <2>2. <<>> \in Seq(Seq(Finding)) /\ Len(<<>>) = 0
    OBVIOUS
  <2> QED BY <2>1, <2>2 DEF Init, OutcomesOK
<1>2. OutcomesOK /\ RetrievalInv /\ [Next]_vars => OutcomesOK'
  BY OutcomesTyped
<1> QED BY <1>1, <1>2, RetrievalHolds, PTL DEF Spec

\* However texts, answers and lines come, chunks, offers and findings keep their
\* shape, and a finding is in the file (_validate).
THEOREM ResultTypes == Spec => []TypeOK
<1>1. ResultInv /\ RetrievalInv /\ OutcomesOK => TypeOK
  <2> SUFFICES ASSUME ResultInv, RetrievalInv, OutcomesOK PROVE TypeOK
    OBVIOUS
  <2>1. \A b \in DOMAIN offered : offered[b] \in SUBSET Hit
    <3> SUFFICES ASSUME NEW b \in DOMAIN offered PROVE offered[b] \in SUBSET Hit
      OBVIOUS
    <3>1. b \in DOMAIN ChunksOf /\ offered[b] = RulesFor(b)
      BY DEF RetrievalInv, Offered
    <3>2. \A c \in ChunksOf[b] : hits[c] \in SUBSET Hit
      BY <3>1 DEF Chunk, RetrievalInv, Retrieved
    <3> QED BY <3>1, <3>2 DEF RulesFor, Closest, Best
  <2>2. offered \in Seq(SUBSET Hit)
    BY <2>1, SequenceOf DEF ResultInv, Paired
  <2>3. \A b \in DOMAIN outcomes : \A i \in DOMAIN outcomes[b] :
            outcomes[b][i].id[1] <= outcomes[b][i].id[2]
    BY DEF ResultInv, FindingsInFile
  <2> QED BY <2>2, <2>3
       DEF TypeOK, ResultInv, Paired, RetrievalInv, Embedded, Retrieved, OutcomesOK
<1> QED BY <1>1, ResultHolds, RetrievalHolds, OutcomesHold, PTL

-----------------------------------------------------------------------------
(* Findings that are not the same *)

\* Lists of findings.
OutcomesType == Seq(Seq(Finding))

\* The places of findings are finitely many pairs of numbers.
LEMMA PlaceTypes ==
    ASSUME NEW some \in OutcomesType
    PROVE  /\ IsFiniteSet(Place(some)) /\ Place(some) \subseteq Nat \X Nat
           /\ \A p \in Place(some) : FindingAt(some, p) \in Finding
           /\ \A b \in DOMAIN some : \A i \in DOMAIN some[b] : <<b, i>> \in Place(some)
<1> DEFINE S == Seq(Finding)
           f == [b \in DOMAIN some |-> {b} \X DOMAIN some[b]]
           T == {{b} \X DOMAIN some[b] : b \in DOMAIN some}
<1>1. some \in Seq(S)
  BY DEF OutcomesType
<1>2. \A b \in DOMAIN some : some[b] \in S
  BY <1>1
<1>3. Len(some) \in Nat /\ DOMAIN some = 1..Len(some)
  BY <1>1
<1>4. \A b \in DOMAIN some :
        /\ b \in Nat /\ Len(some[b]) \in Nat /\ DOMAIN some[b] = 1..Len(some[b])
        /\ \A i \in DOMAIN some[b] : some[b][i] \in Finding
  BY <1>2, <1>3
<1>5. \A b \in DOMAIN some : IsFiniteSet({b} \X DOMAIN some[b])
  <2> SUFFICES ASSUME NEW b \in DOMAIN some PROVE IsFiniteSet({b} \X DOMAIN some[b])
    OBVIOUS
  <2>1. IsFiniteSet({b})
    BY FS_Singleton
  <2>2. IsFiniteSet(DOMAIN some[b])
    BY <1>4, FS_Interval
  <2> QED BY <2>1, <2>2, FS_Product
<1>6. IsFiniteSet(T)
  <2>1. f \in Surjection(DOMAIN some, T)
    BY DEF Surjection
  <2>2. IsFiniteSet(DOMAIN some)
    BY <1>3, FS_Interval
  <2> QED BY <2>1, <2>2, FS_Surjection
<1>7. IsFiniteSet(Place(some))
  <2>1. \A t \in T : IsFiniteSet(t)
    BY <1>5
  <2> HIDE DEF T
  <2>2. IsFiniteSet(UNION T)
    BY <1>6, <2>1, FS_UNION
  <2> QED BY <2>2 DEF Place, T
<1>8. ASSUME NEW p \in Place(some)
      PROVE  p \in Nat \X Nat /\ FindingAt(some, p) \in Finding
  <2>1. PICK b \in DOMAIN some : p \in {b} \X DOMAIN some[b]
    BY DEF Place
  <2>2. p[1] = b /\ p[2] \in DOMAIN some[b] /\ p = <<p[1], p[2]>>
    BY <2>1
  <2>3. p[1] \in Nat /\ p[2] \in Nat
    BY <1>4, <2>2
  <2> QED BY <1>4, <2>2, <2>3 DEF FindingAt
<1>9. \A b \in DOMAIN some : \A i \in DOMAIN some[b] : <<b, i>> \in Place(some)
  <2> SUFFICES ASSUME NEW b \in DOMAIN some, NEW i \in DOMAIN some[b]
               PROVE  <<b, i>> \in Place(some)
    OBVIOUS
  <2>1. <<b, i>> \in {b} \X DOMAIN some[b]
    OBVIOUS
  <2> QED BY <2>1 DEF Place
<1> QED BY <1>7, <1>8, <1>9

\* The first of a set of places.
LEMMA FirstPlace ==
    ASSUME NEW P \in SUBSET (Nat \X Nat), P # {}
    PROVE  \E p \in P : \A q \in P : ~Earlier(q, p)
<1>0. \A p \in P : p[1] \in Nat /\ p[2] \in Nat
  OBVIOUS
<1> DEFINE B == {p[1] : p \in P}
<1>1. B \in SUBSET Nat /\ B # {}
  BY <1>0
<1> HIDE DEF B
<1>2. PICK b \in B : \A c \in B : b <= c
  BY <1>1, LeastNumber
<1> DEFINE I == {p[2] : p \in {q \in P : q[1] = b}}
<1>3. I \in SUBSET Nat /\ I # {}
  BY <1>0, <1>2 DEF B
<1> HIDE DEF I
<1>4. PICK i \in I : \A j \in I : i <= j
  BY <1>3, LeastNumber
<1>5. PICK p \in P : p[1] = b /\ p[2] = i
  BY DEF I
<1>6. ASSUME NEW q \in P PROVE ~Earlier(q, p)
  <2>1. b <= q[1] /\ (q[1] = b => i <= q[2])
    BY <1>2, <1>4 DEF B, I
  <2>2. q[1] \in Nat /\ q[2] \in Nat /\ p[1] \in Nat /\ p[2] \in Nat
    BY <1>0
  <2> QED BY <1>5, <2>1, <2>2 DEF Earlier
<1> QED BY <1>5, <1>6

\* Who stays, where.
Stays(some, p) ==
    /\ p \in Place(some)
    /\ \A q \in Place(some) : FindingAt(some, q).id = FindingAt(some, p).id => ~Earlier(q, p)

\* Of findings that are the same one stays, and only one.
LEMMA UniqueOnce ==
    ASSUME NEW some \in OutcomesType
    PROVE  /\ IsFiniteSet(Unique(some)) /\ Unique(some) \subseteq Finding
           /\ \A f, g \in Unique(some) : f.id = g.id => f = g
           /\ \A p \in Place(some) : \E f \in Unique(some) : f.id = FindingAt(some, p).id
<1> DEFINE P == {p \in Place(some) : Stays(some, p)}
           at == [p \in P |-> FindingAt(some, p)]
<1>1. Unique(some) = {FindingAt(some, p) : p \in P}
  BY DEF Unique, Stays
<1>2. IsFiniteSet(P) /\ P \subseteq Nat \X Nat /\ \A p \in P : FindingAt(some, p) \in Finding
  BY PlaceTypes, FS_Subset
<1>3. IsFiniteSet(Unique(some))
  <2>1. at \in Surjection(P, Unique(some))
    BY <1>1 DEF Surjection
  <2> HIDE DEF at, P
  <2> QED BY <1>2, <2>1, FS_Surjection
<1>4. ASSUME NEW f \in Unique(some), NEW g \in Unique(some), f.id = g.id
      PROVE  f = g
  <2>1. PICK p \in P : f = FindingAt(some, p)
    BY <1>1
  <2>2. PICK q \in P : g = FindingAt(some, q)
    BY <1>1
  <2>3. ~Earlier(p, q) /\ ~Earlier(q, p)
    BY <1>4, <2>1, <2>2 DEF Stays
  <2>4. /\ p[1] \in Nat /\ p[2] \in Nat /\ p = <<p[1], p[2]>>
        /\ q[1] \in Nat /\ q[2] \in Nat /\ q = <<q[1], q[2]>>
    BY <1>2
  <2>5. p[1] = q[1] /\ p[2] = q[2]
    BY <2>3, <2>4 DEF Earlier
  <2>6. p = q
    BY <2>4, <2>5
  <2> QED BY <2>1, <2>2, <2>6
<1>5. ASSUME NEW p \in Place(some)
      PROVE  \E f \in Unique(some) : f.id = FindingAt(some, p).id
  <2> DEFINE Same == {q \in Place(some) : FindingAt(some, q).id = FindingAt(some, p).id}
  <2>1. Same \in SUBSET (Nat \X Nat) /\ Same # {}
    BY PlaceTypes
  <2> HIDE DEF Same
  <2>2. PICK q \in Same : \A o \in Same : ~Earlier(o, q)
    BY <2>1, FirstPlace
  <2>3. Stays(some, q) /\ FindingAt(some, q).id = FindingAt(some, p).id
    BY <2>2 DEF Same, Stays
  <2>4. q \in P
    BY <2>3 DEF Stays
  <2> QED BY <1>1, <2>3, <2>4
<1> QED BY <1>1, <1>2, <1>3, <1>4, <1>5

\* What a later batch finds takes nothing back.
LEMMA UniqueGrows ==
    ASSUME NEW some \in OutcomesType, NEW more \in Seq(Finding)
    PROVE  Append(some, more) \in OutcomesType /\ Unique(some) \subseteq Unique(Append(some, more))
<1> DEFINE all == Append(some, more)
           n == Len(some) + 1
           S == Seq(Finding)
<1>1. some \in Seq(S) /\ more \in S
  BY DEF OutcomesType
<1> HIDE DEF S
<1>2. /\ all \in Seq(S) /\ Len(some) \in Nat /\ DOMAIN some = 1..Len(some)
      /\ DOMAIN all = 1..n /\ all[n] = more /\ \A b \in 1..Len(some) : all[b] = some[b]
  BY <1>1
<1> HIDE DEF all
<1>3. all \in OutcomesType
  BY <1>2 DEF OutcomesType, S
<1>4. ASSUME NEW p
      PROVE  p \in Place(some) <=> p \in Place(all) /\ p[1] < n
  <2>1. p \in Place(some) => p \in Place(all) /\ p[1] < n
    BY <1>2 DEF Place
  <2>2. ASSUME p \in Place(all), p[1] < n PROVE p \in Place(some)
    <3>1. PICK b \in DOMAIN all : p \in {b} \X DOMAIN all[b]
      BY <2>2 DEF Place
    <3>2. p[1] = b
      BY <3>1
    <3>3. b \in DOMAIN some /\ all[b] = some[b]
      BY <1>2, <2>2, <3>1, <3>2
    <3> QED BY <3>1, <3>3 DEF Place
  <2> QED BY <2>1, <2>2
<1>5. \A p \in Place(some) : FindingAt(all, p) = FindingAt(some, p)
  BY <1>2 DEF Place, FindingAt
<1>6. ASSUME NEW p \in Place(some), Stays(some, p)
      PROVE  Stays(all, p)
  <2> SUFFICES ASSUME NEW q \in Place(all), FindingAt(all, q).id = FindingAt(all, p).id, Earlier(q, p)
               PROVE  FALSE
    BY <1>4 DEF Stays
  <2>1. p[1] \in Nat /\ p[2] \in Nat /\ q[1] \in Nat /\ q[2] \in Nat
    <3>1. p \in Nat \X Nat /\ q \in Nat \X Nat
      BY <1>3, PlaceTypes
    <3> QED BY <3>1
  <2>2. p[1] < n
    BY <1>4
  <2>3. q[1] < n
    BY <1>2, <2>1, <2>2 DEF Earlier
  <2>4. q \in Place(some)
    BY <1>4, <2>3
  <2>5. FindingAt(some, q).id = FindingAt(some, p).id
    BY <1>5, <2>4
  <2> QED BY <1>6, <2>4, <2>5 DEF Stays
<1>7. Unique(some) \subseteq Unique(all)
  <2> SUFFICES ASSUME NEW f \in Unique(some) PROVE f \in Unique(all)
    OBVIOUS
  <2>1. PICK p \in Place(some) : Stays(some, p) /\ f = FindingAt(some, p)
    BY DEF Unique, Stays
  <2>2. Stays(all, p) /\ f = FindingAt(all, p)
    BY <1>5, <1>6, <2>1
  <2> QED BY <2>2 DEF Unique, Stays
<1> QED BY <1>3, <1>7 DEF all

-----------------------------------------------------------------------------
(* Deductions *)

\* The curve says what any number of points deducts.
CurveIsTotal == \A n \in Nat : n \in DOMAIN Curve

\* The points of a finding, as a function.
AllPoints == [f \in Finding |-> Points(f)]

\* The whole thousandths of the findings.
WholeOf(found) == [f \in found |-> Whole(f, found)]

\* Points are numbers.
LEMMA PointsNatural ==
    ASSUME NEW f \in Finding
    PROVE  Points(f) \in Nat /\ AllPoints[f] = Points(f)
<1>1. f.id \in (1..Lines) \X (1..Lines) \X Kind
  BY DEF Finding
<1>2. Weight[f.id[3]] \in Nat
  BY <1>1, ReviewResultAssumption
<1> QED BY <1>2 DEF Points, AllPoints

\* The sums of the model are those the lemmas on sums are about.
LEMMA TotalIs ==
    ASSUME NEW found \in SUBSET Finding, IsFiniteSet(found)
    PROVE  Total(found) = SumOf(AllPoints, found) /\ Total(found) \in Nat
<1> DEFINE Folds(i) == i = [s \in SUBSET found |->
                              IF s = {} THEN 0
                              ELSE Points(CHOOSE x \in s : TRUE) + i[s \ {CHOOSE x \in s : TRUE}]]
           h == CHOOSE i : Folds(i)
<1>1. Total(found) = h[found]
  BY DEF Total, MapThenSumSet, MapThenFoldSet
<1>2. \A i : FoldsOver(i, AllPoints, found) <=> Folds(i)
  <2>1. ASSUME NEW s \in SUBSET found, s # {}
        PROVE  AllPoints[CHOOSE x \in s : TRUE] = Points(CHOOSE x \in s : TRUE)
    <3>1. (CHOOSE x \in s : TRUE) \in Finding
      BY <2>1
    <3> QED BY <3>1, PointsNatural
  <2> SUFFICES ASSUME NEW i PROVE FoldsOver(i, AllPoints, found) <=> Folds(i)
    OBVIOUS
  <2>2. [s \in SUBSET found |->
            IF s = {} THEN 0
            ELSE AllPoints[CHOOSE x \in s : TRUE] + i[s \ {CHOOSE x \in s : TRUE}]]
        = [s \in SUBSET found |->
            IF s = {} THEN 0
            ELSE Points(CHOOSE x \in s : TRUE) + i[s \ {CHOOSE x \in s : TRUE}]]
    BY <2>1
  <2> QED BY <2>2 DEF FoldsOver
<1>3. \E i : FoldsOver(i, AllPoints, found)
  BY FoldExists
<1> HIDE DEF Folds
<1>4. Folds(h)
  BY <1>2, <1>3
<1> HIDE DEF h
<1>5. FoldsOver(h, AllPoints, found)
  BY <1>2, <1>4
<1>6. SumOf(AllPoints, found) = h[found]
  BY <1>5, SumIsFold
<1>7. \A f \in found : AllPoints[f] \in Nat
  BY PointsNatural
<1>8. SumOf(AllPoints, found) \in Nat
  BY <1>7, SumIsNatural
<1> QED BY <1>1, <1>6, <1>8

\* The remainder is what the whole thousandths leave.
LEMMA RemainderIs ==
    ASSUME NEW found, IsFiniteSet(found)
    PROVE  Remainder(found) = Deducted(found) - SumOf(WholeOf(found), found)
<1> DEFINE w == WholeOf(found)
           Folds(i) == i = [s \in SUBSET found |->
                              IF s = {} THEN 0
                              ELSE Whole(CHOOSE x \in s : TRUE, found)
                                     + i[s \ {CHOOSE x \in s : TRUE}]]
           h == CHOOSE i : Folds(i)
<1>1. Remainder(found) = Deducted(found) - h[found]
  BY DEF Remainder, MapThenSumSet, MapThenFoldSet
<1>2. \A i : FoldsOver(i, w, found) <=> Folds(i)
  <2>1. ASSUME NEW s \in SUBSET found, s # {}
        PROVE  w[CHOOSE x \in s : TRUE] = Whole(CHOOSE x \in s : TRUE, found)
    <3>1. (CHOOSE x \in s : TRUE) \in found
      BY <2>1
    <3> QED BY <3>1 DEF WholeOf
  <2> HIDE DEF w
  <2> SUFFICES ASSUME NEW i PROVE FoldsOver(i, w, found) <=> Folds(i)
    OBVIOUS
  <2>2. [s \in SUBSET found |->
            IF s = {} THEN 0
            ELSE w[CHOOSE x \in s : TRUE] + i[s \ {CHOOSE x \in s : TRUE}]]
        = [s \in SUBSET found |->
            IF s = {} THEN 0
            ELSE Whole(CHOOSE x \in s : TRUE, found) + i[s \ {CHOOSE x \in s : TRUE}]]
    BY <2>1
  <2> QED BY <2>2 DEF FoldsOver
<1>3. \E i : FoldsOver(i, w, found)
  BY FoldExists
<1> HIDE DEF Folds
<1>4. Folds(h)
  BY <1>2, <1>3
<1> HIDE DEF h, w
<1>5. FoldsOver(h, w, found)
  BY <1>2, <1>4
<1>6. SumOf(w, found) = h[found]
  BY <1>5, SumIsFold
<1> QED BY <1>1, <1>6 DEF w

\* More points never deduct less.
LEMMA CurveRises ==
    ASSUME CurveIsTotal, NEW m \in Nat, NEW n \in Nat, m <= n
    PROVE  Curve[m] \in Nat /\ Curve[0] = 0 /\ Curve[m] <= Curve[n]
BY CurveAssumption DEF CurveIsTotal

\* More findings never deduct less.
LEMMA DeductedRises ==
    ASSUME CurveIsTotal, NEW found \in SUBSET Finding, IsFiniteSet(found), NEW part \in SUBSET found
    PROVE  Deducted(part) <= Deducted(found)
<1>1. IsFiniteSet(part) /\ part \in SUBSET Finding
  BY FS_Subset
<1>2. \A f \in found : AllPoints[f] \in Nat
  BY PointsNatural
<1>3. SumOf(AllPoints, part) <= SumOf(AllPoints, found)
  BY <1>2, SumOfPart
<1>4. Total(part) \in Nat /\ Total(found) \in Nat /\ Total(part) <= Total(found)
  BY <1>1, <1>3, TotalIs
<1> QED BY <1>4, CurveRises DEF Deducted

\* Whatever the curve, a run that reviews more of a file never deducts less: a
\* finding that a later batch repeats keeps what the first one deducted (_dedupe,
\* score).
THEOREM MoreIsNeverBetter == CurveIsTotal => (Spec => MoreNeverBetter)
<1> SUFFICES ASSUME CurveIsTotal PROVE Spec => MoreNeverBetter
  OBVIOUS
<1>1. OutcomesOK /\ OutcomesOK' /\ [Next]_vars =>
          [Deducted(Unique(outcomes)) <= Deducted(Unique(outcomes'))]_vars
  <2> SUFFICES ASSUME OutcomesOK, OutcomesOK', [Next]_vars
               PROVE  Deducted(Unique(outcomes)) <= Deducted(Unique(outcomes'))
    OBVIOUS
  <2>1. outcomes \in OutcomesType /\ outcomes' \in OutcomesType
    BY DEF OutcomesOK, OutcomesType
  <2>2. Unique(outcomes) \subseteq Unique(outcomes')
    <3>1. CASE ReviewBatch
      <4>1. PICK more : outcomes' = Append(outcomes, more)
        BY <3>1 DEF ReviewBatch
      <4> DEFINE S == Seq(Finding)
      <4>2. outcomes \in Seq(S) /\ outcomes' \in Seq(S)
        BY <2>1 DEF OutcomesType
      <4> HIDE DEF S
      <4>3. Len(outcomes) \in Nat /\ outcomes'[Len(outcomes) + 1] = more
        BY <4>1, <4>2
      <4>4. Len(outcomes') = Len(outcomes) + 1
        BY <4>1, <4>2
      <4>5. more \in S
        BY <4>2, <4>3, <4>4
      <4> QED BY <2>1, <4>1, <4>5, UniqueGrows DEF S
    <3>2. CASE Embed \/ Search \/ Score \/ UNCHANGED vars
      BY <3>2 DEF Embed, Search, Score, vars
    <3> QED BY <3>1, <3>2 DEF Next
  <2>3. IsFiniteSet(Unique(outcomes')) /\ Unique(outcomes') \in SUBSET Finding
    BY <2>1, UniqueOnce
  <2> QED BY <2>2, <2>3, DeductedRises
<1> QED BY <1>1, OutcomesHold, PTL DEF Spec, MoreNeverBetter

-----------------------------------------------------------------------------
(* The split of the deduction *)

\* Findings in the order in which their shares are rounded up.
ServedPairs(found) ==
    {p \in found \X found :
        \/ Rest(p[1], found) > Rest(p[2], found)
        \/ Rest(p[1], found) = Rest(p[2], found) /\ Before(p[1], p[2])}

\* Findings no two of which are the same.
Distinct(found) ==
    /\ found \in SUBSET Finding /\ IsFiniteSet(found)
    /\ \A f, g \in found : f.id = g.id => f = g

\* A factor can go.
LEMMA Cancel ==
    ASSUME NEW a \in Nat, NEW b \in Nat, NEW c \in Nat, c > 0, c * a <= c * b
    PROVE  a <= b
<1> SUFFICES ASSUME a >= b + 1 PROVE FALSE
  OBVIOUS
<1>1. PICK d \in Nat : a = b + 1 + d
  <2>1. a - (b + 1) \in Nat /\ a = b + 1 + (a - (b + 1))
    OBVIOUS
  <2> QED BY <2>1
<1>2. c * a = c * b + c + c * d
  BY <1>1
<1>3. c * b \in Nat /\ c * d \in Nat
  OBVIOUS
<1> QED BY <1>2, <1>3

\* The order of findings, field by field.
LEMMA BeforeIs ==
    ASSUME NEW f, NEW g
    PROVE  Before(f, g) <=> \/ f.id[1] < g.id[1]
                            \/ f.id[1] = g.id[1] /\ f.id[2] < g.id[2]
                            \/ f.id[1] = g.id[1] /\ f.id[2] = g.id[2] /\ f.id[3] < g.id[3]
<1>1. 1..0 = {} /\ 1..1 = {1} /\ 1..2 = {1, 2} /\ 1..3 = {1, 2, 3}
  OBVIOUS
<1>2. 1 - 1 = 0 /\ 2 - 1 = 1 /\ 3 - 1 = 2
  OBVIOUS
<1> DEFINE Less(i) == f.id[i] < g.id[i]
           Same(i) == f.id[i] = g.id[i]
<1>3. Before(f, g) <=> \E i \in 1..3 : Less(i) /\ \A j \in 1..i - 1 : Same(j)
  BY DEF Before
<1>4. Before(f, g) <=> \/ Less(1) /\ \A j \in 1..0 : Same(j)
                       \/ Less(2) /\ \A j \in 1..1 : Same(j)
                       \/ Less(3) /\ \A j \in 1..2 : Same(j)
  <2> HIDE DEF Less, Same
  <2> QED BY <1>1, <1>2, <1>3
<1> HIDE DEF Less, Same
<1>5. Before(f, g) <=> Less(1) \/ (Less(2) /\ Same(1)) \/ (Less(3) /\ Same(1) /\ Same(2))
  BY <1>1, <1>4
<1> QED BY <1>5 DEF Less, Same

\* What a finding is identified by.
LEMMA IdTypes ==
    ASSUME NEW f \in Finding
    PROVE  f.id[1] \in Nat /\ f.id[2] \in Nat /\ f.id[3] \in Nat /\ f.id = <<f.id[1], f.id[2], f.id[3]>>
<1>1. f.id \in (1..Lines) \X (1..Lines) \X Kind
  BY DEF Finding
<1>2. f.id[1] \in 1..Lines /\ f.id[2] \in 1..Lines /\ f.id[3] \in Kind /\ f.id = <<f.id[1], f.id[2], f.id[3]>>
  BY <1>1
<1>3. Kind \subseteq Nat /\ 1..Lines \subseteq Nat
  BY ReviewResultAssumption
<1>4. f.id[1] \in Nat /\ f.id[2] \in Nat /\ f.id[3] \in Nat
  BY <1>2, <1>3
<1> QED BY <1>2, <1>4

\* Largest remainders first is an order: a tie is decided by the place in the file.
LEMMA ServedIsOrder ==
    ASSUME NEW found, Distinct(found), \A f \in found : Rest(f, found) \in Nat
    PROVE  /\ StrictOrder(ServedPairs(found), found)
           /\ \A f \in found : Served(f, found) = Below(ServedPairs(found), f, found)
<1> DEFINE First(g, f) == \/ Rest(g, found) > Rest(f, found)
                          \/ Rest(g, found) = Rest(f, found) /\ Before(g, f)
<1>1. \A f, g \in found : <<g, f>> \in ServedPairs(found) <=> First(g, f)
  BY DEF ServedPairs
<1>2. \A f \in found : /\ f.id[1] \in Nat /\ f.id[2] \in Nat /\ f.id[3] \in Nat
                       /\ f.id = <<f.id[1], f.id[2], f.id[3]>>
  BY IdTypes DEF Distinct
<1>3. ASSUME NEW f \in found PROVE ~First(f, f)
  <2>1. f.id[1] \in Nat /\ f.id[2] \in Nat /\ f.id[3] \in Nat /\ Rest(f, found) \in Nat
    BY <1>2
  <2> QED BY <2>1, BeforeIs
<1>4. ASSUME NEW f \in found, NEW g \in found, NEW h \in found, First(f, g), First(g, h)
      PROVE  First(f, h)
  <2>1. /\ f.id[1] \in Nat /\ f.id[2] \in Nat /\ f.id[3] \in Nat /\ Rest(f, found) \in Nat
        /\ g.id[1] \in Nat /\ g.id[2] \in Nat /\ g.id[3] \in Nat /\ Rest(g, found) \in Nat
        /\ h.id[1] \in Nat /\ h.id[2] \in Nat /\ h.id[3] \in Nat /\ Rest(h, found) \in Nat
    BY <1>2
  <2>2. Before(f, g) /\ Before(g, h) => Before(f, h)
    <3>1. SUFFICES ASSUME Before(f, g), Before(g, h) PROVE Before(f, h)
      OBVIOUS
    <3>2. \/ f.id[1] < g.id[1]
          \/ f.id[1] = g.id[1] /\ f.id[2] < g.id[2]
          \/ f.id[1] = g.id[1] /\ f.id[2] = g.id[2] /\ f.id[3] < g.id[3]
      BY <3>1, BeforeIs
    <3>3. \/ g.id[1] < h.id[1]
          \/ g.id[1] = h.id[1] /\ g.id[2] < h.id[2]
          \/ g.id[1] = h.id[1] /\ g.id[2] = h.id[2] /\ g.id[3] < h.id[3]
      BY <3>1, BeforeIs
    <3>4. \/ f.id[1] < h.id[1]
          \/ f.id[1] = h.id[1] /\ f.id[2] < h.id[2]
          \/ f.id[1] = h.id[1] /\ f.id[2] = h.id[2] /\ f.id[3] < h.id[3]
      BY <2>1, <3>2, <3>3
    <3> QED BY <3>4, BeforeIs
  <2> QED BY <1>4, <2>1, <2>2
<1>5. ASSUME NEW f \in found, NEW g \in found, f # g
      PROVE  First(f, g) \/ First(g, f)
  <2>1. /\ f.id[1] \in Nat /\ f.id[2] \in Nat /\ f.id[3] \in Nat /\ Rest(f, found) \in Nat
        /\ g.id[1] \in Nat /\ g.id[2] \in Nat /\ g.id[3] \in Nat /\ Rest(g, found) \in Nat
    BY <1>2
  <2>2. f.id[1] # g.id[1] \/ f.id[2] # g.id[2] \/ f.id[3] # g.id[3]
    <3>1. f.id # g.id
      BY <1>5 DEF Distinct
    <3>2. f.id = <<f.id[1], f.id[2], f.id[3]>> /\ g.id = <<g.id[1], g.id[2], g.id[3]>>
      BY <1>2
    <3> QED BY <3>1, <3>2
  <2>3. Before(f, g) \/ Before(g, f)
    <3>1. \/ f.id[1] < g.id[1]
          \/ f.id[1] = g.id[1] /\ f.id[2] < g.id[2]
          \/ f.id[1] = g.id[1] /\ f.id[2] = g.id[2] /\ f.id[3] < g.id[3]
          \/ g.id[1] < f.id[1]
          \/ g.id[1] = f.id[1] /\ g.id[2] < f.id[2]
          \/ g.id[1] = f.id[1] /\ g.id[2] = f.id[2] /\ g.id[3] < f.id[3]
      BY <2>1, <2>2
    <3> QED BY <3>1, BeforeIs
  <2> QED BY <2>1, <2>3
<1>6. \A f \in found : Served(f, found) = Below(ServedPairs(found), f, found)
  BY <1>1 DEF Served, Below
<1> HIDE DEF First
<1>7. StrictOrder(ServedPairs(found), found)
  BY <1>1, <1>3, <1>4, <1>5 DEF StrictOrder
<1> QED BY <1>6, <1>7

\* Whole parts and remainders of the findings of a run that deducts.
Splits(found) == Distinct(found) /\ CurveIsTotal /\ Total(found) # 0 /\ Deducted(found) # 0

\* What rounding down leaves of them.
RestOf(found) == [f \in found |-> Rest(f, found)]

\* A share is a whole part and a rest that is smaller than the total.
LEMMA SplitTypes ==
    ASSUME NEW found, Splits(found)
    PROVE  /\ Total(found) \in Nat /\ Total(found) > 0
           /\ Deducted(found) \in Nat /\ Deducted(found) > 0
           /\ \A f \in found :
                /\ Points(f) \in Nat /\ Whole(f, found) \in Nat
                /\ Rest(f, found) \in Nat /\ Rest(f, found) < Total(found)
                /\ Deducted(found) * Points(f) = Whole(f, found) * Total(found) + Rest(f, found)
<1>1. Total(found) \in Nat /\ Total(found) > 0
  BY TotalIs DEF Splits, Distinct
<1>2. Deducted(found) \in Nat /\ Deducted(found) > 0
  <2>1. Curve[Total(found)] \in Nat
    BY <1>1, CurveRises DEF Splits
  <2> QED BY <2>1 DEF Splits, Deducted
<1>3. ASSUME NEW f \in found
      PROVE  /\ Points(f) \in Nat /\ Whole(f, found) \in Nat
             /\ Rest(f, found) \in Nat /\ Rest(f, found) < Total(found)
             /\ Deducted(found) * Points(f) = Whole(f, found) * Total(found) + Rest(f, found)
  <2> DEFINE a == Deducted(found) * Points(f)
             b == Total(found)
  <2>1. Points(f) \in Nat
    BY PointsNatural DEF Splits, Distinct
  <2>2. a \in Nat /\ b \in Nat /\ b > 0
    BY <1>1, <1>2, <2>1
  <2>3. Whole(f, found) = a \div b /\ Rest(f, found) = a % b
    BY DEF Whole, Rest
  <2> HIDE DEF a, b
  <2>4. a \div b \in Nat /\ a % b \in Nat /\ a % b < b /\ a = (a \div b) * b + (a % b)
    BY <2>2, DivMod
  <2>5. Whole(f, found) \in Nat /\ Rest(f, found) \in Nat /\ Rest(f, found) < b
        /\ a = Whole(f, found) * b + Rest(f, found)
    BY <2>3, <2>4
  <2> QED BY <2>1, <2>5 DEF a, b
<1> QED BY <1>1, <1>2, <1>3

\* Whole parts and remainders together are all there is to deduct.
LEMMA SplitSums ==
    ASSUME NEW found, Splits(found)
    PROVE  /\ SumOf(WholeOf(found), found) \in Nat /\ SumOf(RestOf(found), found) \in Nat
           /\ Total(found) * Deducted(found)
                = Total(found) * SumOf(WholeOf(found), found) + SumOf(RestOf(found), found)
<1> DEFINE t == Total(found)
           d == Deducted(found)
           w == WholeOf(found)
           r == RestOf(found)
           all == [f \in found |-> d * Points(f)]
           part == [f \in found |-> t * Whole(f, found)]
<1>0. IsFiniteSet(found) /\ found \in SUBSET Finding
  BY DEF Splits, Distinct
<1>1. t \in Nat /\ d \in Nat
  BY SplitTypes
<1>2. \A f \in found : /\ Points(f) \in Nat /\ AllPoints[f] = Points(f)
                       /\ w[f] \in Nat /\ r[f] \in Nat /\ w[f] = Whole(f, found)
                       /\ d * Points(f) = Whole(f, found) * t + r[f]
  BY <1>0, SplitTypes, PointsNatural DEF WholeOf, RestOf
<1> HIDE DEF t, d, w, r
<1>3. \A f \in found : AllPoints[f] \in Nat /\ all[f] = d * AllPoints[f]
  BY <1>2
<1>4. \A f \in found : w[f] \in Nat /\ part[f] = t * w[f]
  BY <1>2
<1>5. \A f \in found : part[f] \in Nat /\ r[f] \in Nat /\ all[f] = part[f] + r[f]
  <2> SUFFICES ASSUME NEW f \in found
               PROVE  part[f] \in Nat /\ r[f] \in Nat /\ all[f] = part[f] + r[f]
    OBVIOUS
  <2>1. all[f] = d * Points(f) /\ part[f] = t * Whole(f, found)
    OBVIOUS
  <2>2. Whole(f, found) \in Nat /\ r[f] \in Nat /\ d * Points(f) = Whole(f, found) * t + r[f]
    BY <1>2
  <2> HIDE DEF all, part
  <2>3. t * Whole(f, found) = Whole(f, found) * t /\ t * Whole(f, found) \in Nat
    BY <1>1, <2>2
  <2> QED BY <2>1, <2>2, <2>3
<1> HIDE DEF all, part
<1>6. SumOf(all, found) = d * SumOf(AllPoints, found)
  BY <1>0, <1>1, <1>3, SumTimes
<1>7. SumOf(part, found) = t * SumOf(w, found)
  BY <1>0, <1>1, <1>4, SumTimes
<1>8. SumOf(all, found) = SumOf(part, found) + SumOf(r, found)
  BY <1>0, <1>5, SumPlus
<1>9. SumOf(w, found) \in Nat /\ SumOf(r, found) \in Nat
  BY <1>0, <1>4, <1>5, SumIsNatural
<1>10. SumOf(AllPoints, found) = t
  BY <1>0, TotalIs DEF t
<1>11. t * d = d * t
  BY <1>1
<1>12. t * d = t * SumOf(w, found) + SumOf(r, found)
  BY <1>6, <1>7, <1>8, <1>10, <1>11
<1> QED BY <1>9, <1>12 DEF t, d, w, r

\* The findings that lose by rounding down.
Rounded(found) == {f \in found : Rest(f, found) > 0}

\* There are as many thousandths left as can be given to findings with a remainder.
LEMMA RemainderFits ==
    ASSUME NEW found, Splits(found)
    PROVE  /\ Remainder(found) \in Nat
           /\ Deducted(found) = SumOf(WholeOf(found), found) + Remainder(found)
           /\ IsFiniteSet(Rounded(found)) /\ Remainder(found) <= Cardinality(Rounded(found))
<1> DEFINE t == Total(found)
           d == Deducted(found)
           w == SumOf(WholeOf(found), found)
           r == SumOf(RestOf(found), found)
           n == Cardinality(Rounded(found))
           ones == [f \in found |-> IF f \in Rounded(found) THEN 1 ELSE 0]
           most == [f \in found |-> t * ones[f]]
<1>0. IsFiniteSet(found)
  BY DEF Splits, Distinct
<1>1. t \in Nat /\ t > 0 /\ d \in Nat
  BY SplitTypes
<1>2. w \in Nat /\ r \in Nat /\ t * d = t * w + r
  BY SplitSums
<1>3. IsFiniteSet(Rounded(found)) /\ n \in Nat
  <2>1. IsFiniteSet(Rounded(found))
    BY <1>0, FS_Subset DEF Rounded
  <2> QED BY <2>1, FS_CardinalityType
<1>4. r <= t * n
  <2>1. SumOf(ones, found) = n
    <3>1. \A f \in found : ones[f] = IF f \in Rounded(found) THEN 1 ELSE 0
      OBVIOUS
    <3>2. Rounded(found) \in SUBSET found
      BY DEF Rounded
    <3> HIDE DEF ones
    <3> QED BY <1>0, <3>1, <3>2, SumOfOnes
  <2>2. \A f \in found : ones[f] \in Nat
    OBVIOUS
  <2>3. \A f \in found : RestOf(found)[f] \in Nat /\ most[f] \in Nat /\ RestOf(found)[f] <= most[f]
    <3> SUFFICES ASSUME NEW f \in found
                 PROVE  RestOf(found)[f] \in Nat /\ most[f] \in Nat /\ RestOf(found)[f] <= most[f]
      OBVIOUS
    <3>1. RestOf(found)[f] = Rest(f, found) /\ most[f] = t * ones[f]
      BY DEF RestOf
    <3>2. Rest(f, found) \in Nat /\ Rest(f, found) < t
      BY SplitTypes
    <3>3. ones[f] = IF Rest(f, found) > 0 THEN 1 ELSE 0
      BY DEF Rounded
    <3> HIDE DEF ones, most, t
    <3>4. t * 1 = t /\ t * 0 = 0
      BY <1>1
    <3> QED BY <1>1, <3>1, <3>2, <3>3, <3>4
  <2>4. \A f \in found : most[f] = t * ones[f]
    OBVIOUS
  <2> HIDE DEF ones, most, t
  <2>5. SumOf(RestOf(found), found) <= SumOf(most, found)
    BY <1>0, <2>3, SumAtMost
  <2>6. SumOf(most, found) = t * SumOf(ones, found)
    BY <1>0, <1>1, <2>2, <2>4, SumTimes
  <2> QED BY <2>1, <2>5, <2>6
<1> HIDE DEF t, d, w, r, n
<1>5. t * w <= t * d
  <2>1. t * w \in Nat
    BY <1>1, <1>2
  <2> QED BY <1>2, <2>1
<1>6. w <= d
  BY <1>1, <1>2, <1>5, Cancel
<1>7. t * d <= t * (w + n)
  <2>1. t * (w + n) = t * w + t * n
    BY <1>1, <1>2, <1>3
  <2>2. t * w \in Nat /\ t * n \in Nat
    BY <1>1, <1>2, <1>3
  <2> QED BY <1>2, <1>4, <2>1, <2>2
<1>8. d <= w + n
  <2>1. w + n \in Nat
    BY <1>2, <1>3
  <2> QED BY <1>1, <1>7, <2>1, Cancel
<1>9. Remainder(found) = d - w
  BY <1>0, RemainderIs DEF d, w
<1>10. Remainder(found) \in Nat /\ d = w + Remainder(found) /\ Remainder(found) <= n
  BY <1>1, <1>2, <1>3, <1>6, <1>8, <1>9
<1> QED BY <1>3, <1>10 DEF d, w, n

-----------------------------------------------------------------------------
(* The shares *)

\* The findings that are rounded up.
Favoured(found) == {f \in found : Cardinality(Served(f, found)) < Remainder(found)}

\* The share of one finding.
ShareOf(f, found) ==
    IF Total(found) = 0 \/ Deducted(found) = 0 THEN 0
    ELSE Whole(f, found) + IF f \in Favoured(found) THEN 1 ELSE 0

\* The split gives each finding its share.
LEMMA SharesAre ==
    ASSUME NEW found, Distinct(found)
    PROVE  /\ DOMAIN Apportion(found) = {f.id : f \in found}
           /\ \A f \in found : Apportion(found)[f.id] = ShareOf(f, found)
<1>1. DOMAIN Apportion(found) = {f.id : f \in found}
  BY DEF Apportion
<1>2. ASSUME NEW f \in found
      PROVE  Apportion(found)[f.id] = ShareOf(f, found)
  <2>1. (CHOOSE g \in found : g.id = f.id) = f
    BY DEF Distinct
  <2>2. f.id \in {g.id : g \in found}
    OBVIOUS
  <2> QED BY <2>1, <2>2 DEF Apportion, ShareOf, Favoured
<1> QED BY <1>1, <1>2

\* As many are rounded up as there are thousandths left.
LEMMA FavouredAre ==
    ASSUME NEW found, Splits(found)
    PROVE  Cardinality(Favoured(found)) = Remainder(found)
<1> DEFINE R == ServedPairs(found)
<1>1. Distinct(found) /\ IsFiniteSet(found)
  BY DEF Splits, Distinct
<1>2. /\ StrictOrder(R, found)
      /\ \A f \in found : Served(f, found) = Below(R, f, found)
  BY <1>1, SplitTypes, ServedIsOrder
<1>3. Favoured(found) = {f \in found : Rank(R, f, found) < Remainder(found)}
  BY <1>2 DEF Favoured, Rank
<1> HIDE DEF R
<1>4. Remainder(found) \in Nat /\ Remainder(found) <= Cardinality(found)
  <2>1. Cardinality(Rounded(found)) <= Cardinality(found)
    BY <1>1, FS_Subset DEF Rounded
  <2>2. Cardinality(Rounded(found)) \in Nat /\ Cardinality(found) \in Nat
    BY <1>1, RemainderFits, FS_CardinalityType
  <2> QED BY <2>1, <2>2, RemainderFits
<1> QED BY <1>1, <1>2, <1>3, <1>4, RanksBelow

\* The shares add up to what is deducted.
LEMMA SharesAddUp ==
    ASSUME CurveIsTotal, NEW found, Distinct(found)
    PROVE  SumOf(Apportion(found), DOMAIN Apportion(found)) = Deducted(found)
<1> DEFINE share == [f \in found |-> ShareOf(f, found)]
           name == [f \in found |-> f.id]
           N == {name[f] : f \in found}
<1>0. IsFiniteSet(found) /\ \A f \in found : Apportion(found)[f.id] = ShareOf(f, found)
  BY SharesAre DEF Distinct
<1>1. N = DOMAIN Apportion(found)
  <2>1. \A f \in found : name[f] = f.id
    OBVIOUS
  <2>2. N = {f.id : f \in found}
    BY <2>1
  <2>3. DOMAIN Apportion(found) = {f.id : f \in found}
    BY SharesAre
  <2> QED BY <2>2, <2>3
<1>2. \A f, g \in found : name[f] = name[g] => f = g
  BY DEF Distinct
<1>3. \A f \in found : Apportion(found)[name[f]] = share[f]
  BY <1>0
<1>4. \A f \in found : share[f] = ShareOf(f, found)
  OBVIOUS
<1>5. ASSUME \A f \in found : share[f] \in Nat
      PROVE  SumOf(Apportion(found), DOMAIN Apportion(found)) = SumOf(share, found)
  <2> HIDE DEF name, share
  <2>1. SumOf(Apportion(found), N) = SumOf(share, found)
    BY <1>0, <1>2, <1>3, <1>5, SumByName
  <2> QED BY <1>1, <2>1
<1>6. CASE Total(found) = 0 \/ Deducted(found) = 0
  <2>1. \A f \in found : share[f] = 0
    BY <1>6 DEF ShareOf
  <2>2. Deducted(found) = 0
    BY <1>6, CurveRises DEF Deducted
  <2> HIDE DEF share
  <2>3. SumOf(share, found) = 0
    <3> DEFINE none == {}
    <3>1. \A f \in found : share[f] = IF f \in none THEN 1 ELSE 0
      BY <2>1
    <3>2. none \in SUBSET found
      OBVIOUS
    <3>3. SumOf(share, found) = Cardinality(none)
      BY <1>0, <3>1, <3>2, SumOfOnes
    <3> QED BY <3>3, FS_EmptySet
  <2> QED BY <1>5, <2>1, <2>2, <2>3
<1>7. CASE Splits(found)
  <2> DEFINE w == WholeOf(found)
             ones == [f \in found |-> IF f \in Favoured(found) THEN 1 ELSE 0]
  <2>1. \A f \in found : w[f] = Whole(f, found) /\ w[f] \in Nat
    BY <1>7, SplitTypes DEF WholeOf
  <2>2. \A f \in found : ones[f] \in Nat /\ ones[f] = IF f \in Favoured(found) THEN 1 ELSE 0
    OBVIOUS
  <2> HIDE DEF w, ones
  <2>3. \A f \in found : share[f] \in Nat /\ share[f] = w[f] + ones[f]
    BY <1>7, <2>1, <2>2 DEF ShareOf, Splits
  <2> HIDE DEF share
  <2>4. SumOf(share, found) = SumOf(w, found) + SumOf(ones, found)
    BY <1>0, <2>1, <2>2, <2>3, SumPlus
  <2>5. SumOf(ones, found) = Remainder(found)
    <3>1. Favoured(found) \in SUBSET found
      BY DEF Favoured
    <3>2. SumOf(ones, found) = Cardinality(Favoured(found))
      BY <1>0, <2>2, <3>1, SumOfOnes
    <3> QED BY <1>7, <3>2, FavouredAre
  <2>6. Deducted(found) = SumOf(w, found) + Remainder(found)
    BY <1>7, RemainderFits DEF w
  <2> QED BY <1>5, <2>3, <2>4, <2>5, <2>6
<1> QED BY <1>6, <1>7 DEF Splits

\* What weighs nothing deducts nothing: its remainder is nothing, and there are
\* no more thousandths left than findings with one.
LEMMA WeightlessFree ==
    ASSUME CurveIsTotal, NEW found, Distinct(found), NEW f \in found, Points(f) = 0
    PROVE  ShareOf(f, found) = 0
<1>1. CASE ~Splits(found)
  BY <1>1 DEF Splits, ShareOf
<1>2. CASE Splits(found)
  <2> DEFINE t == Total(found)
             w == Whole(f, found)
             r == Rest(f, found)
  <2>1. t \in Nat /\ t > 0 /\ w \in Nat /\ r \in Nat /\ Deducted(found) \in Nat
        /\ Deducted(found) * Points(f) = w * t + r
    BY <1>2, SplitTypes
  <2>2. Deducted(found) * 0 = 0
    BY <2>1
  <2> HIDE DEF t, w, r
  <2>3. w * t + r = 0 /\ w * t \in Nat
    BY <2>1, <2>2
  <2>4. w * t = 0 /\ r = 0
    BY <2>1, <2>3
  <2>5. w = 0
    <3>1. t * w <= t * 0
      BY <2>1, <2>4
    <3>2. w <= 0
      BY <2>1, <3>1, Cancel
    <3> QED BY <2>1, <3>2
  <2>6. Rounded(found) \subseteq Served(f, found)
    <3> SUFFICES ASSUME NEW g \in Rounded(found) PROVE g \in Served(f, found)
      OBVIOUS
    <3>1. g \in found /\ Rest(g, found) > Rest(f, found)
      BY <2>4 DEF Rounded, r
    <3> QED BY <3>1 DEF Served
  <2>7. Cardinality(Rounded(found)) <= Cardinality(Served(f, found))
        /\ IsFiniteSet(Served(f, found))
    <3>1. IsFiniteSet(Served(f, found))
      BY FS_Subset DEF Served, Distinct
    <3> QED BY <2>6, <3>1, FS_Subset
  <2>8. /\ Remainder(found) \in Nat /\ Remainder(found) <= Cardinality(Rounded(found))
        /\ Cardinality(Rounded(found)) \in Nat /\ Cardinality(Served(f, found)) \in Nat
    BY <1>2, <2>7, RemainderFits, FS_CardinalityType
  <2>9. f \notin Favoured(found)
    BY <2>7, <2>8 DEF Favoured
  <2> QED BY <2>5, <2>9 DEF ShareOf, w
<1> QED BY <1>1, <1>2

\* What weighs more deducts no less.
LEMMA WeightierMore ==
    ASSUME CurveIsTotal, NEW found, Distinct(found), NEW f \in found, NEW g \in found,
           Points(f) < Points(g)
    PROVE  ShareOf(f, found) <= ShareOf(g, found)
<1>1. CASE ~Splits(found)
  BY <1>1 DEF Splits, ShareOf
<1>2. CASE Splits(found)
  <2> DEFINE t == Total(found)
             d == Deducted(found)
             a == Whole(f, found)
             b == Whole(g, found)
             r == Rest(f, found)
             s == Rest(g, found)
             p == Points(f)
             q == Points(g)
  <2>1. /\ t \in Nat /\ t > 0 /\ d \in Nat /\ d > 0 /\ p \in Nat /\ q \in Nat /\ p < q
        /\ a \in Nat /\ b \in Nat /\ r \in Nat /\ s \in Nat /\ r < t /\ s < t
        /\ d * p = a * t + r /\ d * q = b * t + s
    BY <1>2, SplitTypes
  <2> DEFINE one(h) == IF h \in Favoured(found) THEN 1 ELSE 0
  <2>2. ShareOf(f, found) = a + one(f) /\ ShareOf(g, found) = b + one(g)
    BY <1>2 DEF ShareOf, Splits
  <2>3. one(f) \in {0, 1} /\ one(g) \in {0, 1}
    OBVIOUS
  <2>4. a * t + r < b * t + s
    <3> HIDE DEF t, d, a, b, r, s, p, q
    <3>1. d * q = d * p + d * (q - p)
      BY <2>1
    <3>2. d * (q - p) > 0
      BY <2>1
    <3>3. d * p \in Nat /\ d * q \in Nat /\ d * (q - p) \in Nat
      BY <2>1
    <3>4. d * p < d * q
      BY <3>1, <3>2, <3>3
    <3> QED BY <2>1, <3>4
  <2>5. a < b \/ (a = b /\ r < s)
    <3> HIDE DEF t, d, a, b, r, s, p, q
    <3>1. CASE a = b
      BY <2>1, <2>4, <3>1
    <3>2. CASE a > b
      <4>1. PICK c \in Nat : a = b + 1 + c
        <5>1. a - (b + 1) \in Nat /\ a = b + 1 + (a - (b + 1))
          BY <2>1, <3>2
        <5> QED BY <5>1
      <4>2. a * t = b * t + t + c * t
        BY <2>1, <4>1
      <4>3. c * t \in Nat /\ b * t \in Nat
        BY <2>1
      <4> QED BY <2>1, <2>4, <4>2, <4>3
    <3> QED BY <2>1, <3>1, <3>2
  <2>6. CASE a < b
    <3> HIDE DEF t, d, a, b, r, s, p, q, one
    <3>1. a + one(f) <= b + one(g)
      BY <2>1, <2>3, <2>6
    <3> QED BY <2>2, <3>1
  <2>7. CASE a = b /\ r < s
    <3>1. Distinct(found) /\ IsFiniteSet(found)
      BY DEF Distinct
    <3> DEFINE R == ServedPairs(found)
    <3>2. /\ StrictOrder(R, found)
          /\ \A h \in found : Served(h, found) = Below(R, h, found)
      BY <1>2, <3>1, SplitTypes, ServedIsOrder
    <3>3. <<g, f>> \in R
      BY <2>1, <2>7 DEF ServedPairs
    <3> HIDE DEF R
    <3>4. Rank(R, g, found) < Rank(R, f, found)
      BY <3>1, <3>2, <3>3, RankLess
    <3>5. Rank(R, g, found) \in Nat /\ Rank(R, f, found) \in Nat /\ Remainder(found) \in Nat
      BY <1>2, <3>1, <3>2, RankType, RemainderFits
    <3>6. f \in Favoured(found) => g \in Favoured(found)
      BY <3>2, <3>4, <3>5 DEF Favoured, Rank
    <3>7. one(f) <= one(g)
      BY <3>6
    <3> HIDE DEF t, d, a, b, r, s, p, q, one
    <3>8. a + one(f) <= b + one(g)
      BY <2>1, <2>3, <2>7, <3>7
    <3> QED BY <2>2, <3>8
  <2> QED BY <2>5, <2>6, <2>7
<1> QED BY <1>1, <1>2

\* The score is of all that was found.
Scored == stage = "scored" => shares = Apportion(Unique(outcomes))

\* So it holds of every run.
LEMMA ScoredHolds == Spec => []Scored
<1>1. Init => Scored
  BY DEF Init, Scored
<1>2. Scored /\ [Next]_vars => Scored'
  <2> SUFFICES ASSUME Scored, [Next]_vars PROVE Scored'
    OBVIOUS
  <2>1. CASE Score
    BY <2>1 DEF Score, Scored
  <2>2. CASE Embed \/ Search \/ ReviewBatch
    <3>1. stage' # "scored"
      BY <2>2 DEF Embed, Search, ReviewBatch
    <3> QED BY <3>1 DEF Scored
  <2>3. CASE UNCHANGED vars
    BY <2>3 DEF vars, Scored
  <2> QED BY <2>1, <2>2, <2>3 DEF Next
<1> QED BY <1>1, <1>2, PTL DEF Spec

\* Whatever the curve and the weights, however thousandths are rounded: the
\* shares add up to the deduction, each finding has one, what the model was not
\* sure of deducts nothing, and what weighs more deducts no less (_apportion).
THEOREM DeductionsAreFair == CurveIsTotal => (Spec => []DeductionsSplitFairly)
<1> SUFFICES ASSUME CurveIsTotal PROVE Spec => []DeductionsSplitFairly
  OBVIOUS
<1>1. OutcomesOK /\ Scored => DeductionsSplitFairly
  <2> SUFFICES ASSUME OutcomesOK, Scored, stage = "scored"
               PROVE  /\ MapThenSumSet(LAMBDA id : shares[id], DOMAIN shares)
                            = Deducted(Unique(outcomes))
                      /\ \A b \in DOMAIN outcomes : \A i \in DOMAIN outcomes[b] :
                            outcomes[b][i].id \in DOMAIN shares
                      /\ \A f, g \in Unique(outcomes) :
                            /\ Points(f) = 0 => shares[f.id] = 0
                            /\ Points(f) < Points(g) => shares[f.id] <= shares[g.id]
    BY DEF DeductionsSplitFairly
  <2> DEFINE found == Unique(outcomes)
  <2>0. outcomes \in OutcomesType
    BY DEF OutcomesOK, OutcomesType
  <2>1. /\ Distinct(found)
        /\ \A p \in Place(outcomes) : \E f \in found : f.id = FindingAt(outcomes, p).id
    BY <2>0, UniqueOnce DEF Distinct
  <2>2. shares = Apportion(found)
    BY DEF Scored
  <2>3. SumOf(shares, DOMAIN shares) = Deducted(found)
    BY <2>1, <2>2, SharesAddUp
  <2>4. MapThenSumSet(LAMBDA id : shares[id], DOMAIN shares) = Deducted(found)
    BY <2>3 DEF SumOf
  <2>5. ASSUME NEW b \in DOMAIN outcomes, NEW i \in DOMAIN outcomes[b]
        PROVE  outcomes[b][i].id \in DOMAIN shares
    <3>1. <<b, i>> \in Place(outcomes) /\ FindingAt(outcomes, <<b, i>>) = outcomes[b][i]
      BY <2>0, PlaceTypes DEF FindingAt
    <3>2. PICK f \in found : f.id = outcomes[b][i].id
      BY <2>1, <3>1
    <3> QED BY <2>1, <2>2, <3>2, SharesAre
  <2> HIDE DEF found
  <2>6. ASSUME NEW f \in found, NEW g \in found
        PROVE  /\ Points(f) = 0 => shares[f.id] = 0
               /\ Points(f) < Points(g) => shares[f.id] <= shares[g.id]
    <3>1. shares[f.id] = ShareOf(f, found) /\ shares[g.id] = ShareOf(g, found)
      BY <2>1, <2>2, SharesAre
    <3> QED BY <2>1, <3>1, WeightlessFree, WeightierMore
  <2> QED BY <2>4, <2>5, <2>6 DEF found
<1> QED BY <1>1, OutcomesHold, ScoredHolds, PTL

===============================================================================
