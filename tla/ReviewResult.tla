----------------------------- MODULE ReviewResult -----------------------------
(***************************************************************************)
(* What a run of the review pipeline makes of its data: the rules that are *)
(* retrieved for the chunks of a file (rules/retrieval.py), those that are *)
(* offered with each batch, the findings the models answer, as validated   *)
(* against the file and the offer (worker/orchestrator.py), and the score  *)
(* that is derived from them (scoring/engine.py).                          *)
(*                                                                         *)
(* BatchReview has the threads, failures and costs of the same run.        *)
(* Results are awaited in order there, so here batch follows batch.        *)
(***************************************************************************)
EXTENDS Integers, Sequences, FiniteSets, FiniteSetsExt, SequencesExt

CONSTANTS
    Text, Blank,   \* texts of chunks, and the blank one
    Distance,      \* what is told apart of the distance of a text and a rule
    Rules,         \* rules of the corpus, numbered in the order of their ids
    ChunksOf,      \* the chunks of each batch; one too long is in several
    Lines,         \* lines of the file
    Answers,       \* findings models answer
    Weight,        \* by kind: severity_points times dimension_weights
    Curve,         \* by points: thousandths that are deducted
    TopK,          \* rules_top_k
    MaxRules,      \* max_rules_per_batch
    MaxTexts,      \* embedding_batch_size
    PerBatch       \* bound: findings of one answer

Rule == 1..Rules
Chunk == UNION {ChunksOf[b] : b \in DOMAIN ChunksOf}
Kind == DOMAIN Weight

\* A kind is a dimension, a severity and a message.  Models name lines the file
\* does not have and rules nobody gave them, but no line below 1 (ModelFinding).
ModelFinding ==
    [start : Nat \ {0}, end : Nat \ {0}, kind : Kind, sure : BOOLEAN, grounded : SUBSET Nat]

ASSUME ReviewResultAssumption ==
    /\ Blank \notin Text /\ Distance \subseteq Nat
    /\ Rules \in Nat /\ Lines \in Nat \ {0} /\ PerBatch \in Nat
    /\ TopK \in Nat \ {0} /\ MaxRules \in Nat \ {0} /\ MaxTexts \in Nat \ {0}
    /\ ChunksOf \in Seq(SUBSET (Nat \ {0})) /\ IsFiniteSet(Chunk)
    /\ Answers \subseteq ModelFinding
    /\ Weight \in [Kind -> Nat] /\ Kind \subseteq Nat

\* The curve starts at 0 and does not fall.
ASSUME CurveAssumption ==
    \A m \in DOMAIN Curve :
        Curve[m] \in Nat /\ Curve[0] = 0 /\ \A n \in DOMAIN Curve : m <= n => Curve[m] <= Curve[n]

VARIABLES
    texts,     \* the chunks of the file
    near,      \* how far each text is from each rule of the corpus
    stage,     \* "embed", "search", "review", "scored"
    vectors,   \* the texts that are embedded so far
    hits,      \* the rules retrieved for each chunk
    offered,   \* the rules offered with each batch so far
    outcomes,  \* the findings of each batch so far, validated
    shares     \* what each finding deducts, by id

vars == <<texts, near, stage, vectors, hits, offered, outcomes, shares>>

-----------------------------------------------------------------------------
Hit == [rule : Rule, distance : Distance]

NoHits == [c \in Chunk |-> {}]

\* The chunks that are not blank, in order.
NotBlank == {c \in Chunk : texts[c] # Blank}

Wanted ==
    [i \in 1..Cardinality(NotBlank) |->
        CHOOSE c \in NotBlank : Cardinality({d \in NotBlank : d < c}) = i - 1]

\* With no corpus, or only blank chunks, there is nothing to retrieve.
Init ==
    /\ texts \in [Chunk -> Text \union {Blank}]
    /\ near \in [Text -> [Rule -> Distance]]
    /\ stage \in IF Wanted = <<>> THEN {"review"} ELSE {"embed", "review"}
    /\ vectors = <<>> /\ hits = NoHits
    /\ offered = <<>> /\ outcomes = <<>> /\ shares = <<>>

-----------------------------------------------------------------------------
(* RuleRetriever.retrieve *)

AtMost(i, j) == IF i <= j THEN i ELSE j
AtLeast(i, j) == IF i <= j THEN j ELSE i

\* embed: the next request takes so many texts, or fewer, by their length.  The
\* vectors that come back stand for the texts.
Embed ==
    /\ stage = "embed"
    /\ \E n \in 1..AtMost(MaxTexts, Len(Wanted) - Len(vectors)) :
        /\ vectors' = [i \in 1..Len(vectors) + n |-> texts[Wanted[i]]]
        /\ stage' = IF Len(vectors') = Len(Wanted) THEN "search" ELSE stage
    /\ UNCHANGED <<texts, near, hits, offered, outcomes, shares>>

Closer(g, h) ==
    \/ g.distance < h.distance
    \/ g.distance = h.distance /\ g.rule < h.rule

\* The n closest, ties by id.
Closest(n, some) == {h \in some : Cardinality({g \in some : Closer(g, h)}) < n}

\* search: the closest rules for each vector.
Found(text) == Closest(TopK, {[rule |-> r, distance |-> near[text][r]] : r \in Rule})

\* Bug: the hits of the texts are those of the first chunks.
AlignedInOrder(found) ==
    [c \in Chunk |-> IF c \in DOMAIN found THEN found[c] ELSE {}]

\* The hits of the i-th text are those of the i-th chunk that is wanted.
Aligned(found) ==
    [c \in Chunk |-> UNION {found[i] : i \in {j \in DOMAIN Wanted : Wanted[j] = c}}]

Search ==
    /\ stage = "search"
    /\ hits' = Aligned([i \in DOMAIN vectors |-> Found(vectors[i])])
    /\ stage' = "review"
    /\ UNCHANGED <<texts, near, vectors, offered, outcomes, shares>>

\* Each rule once, with its best distance.
Best(some) ==
    {h \in some : \A g \in some : g.rule = h.rule => h.distance <= g.distance}

\* rules_for_batch
RulesFor(b) == Closest(MaxRules, Best(UNION {hits[c] : c \in ChunksOf[b]}))

-----------------------------------------------------------------------------
(* _review_batch and _dedupe *)

RulesOf(some) == {h.rule : h \in some}

\* Bug: rules that are known are taken for rules that were given.
GroundedKnown(f, offer) == f.grounded \intersect Rule

\* Only rules that were given to the model can ground its findings.
Grounded(f, offer) == f.grounded \intersect RulesOf(offer)

\* Bug: the end is brought into the file but not behind the start.
ValidateEndFirst(f, offer) ==
    [id |-> <<AtMost(f.start, Lines), AtMost(f.end, Lines), f.kind>>,
     sure |-> f.sure, grounded |-> Grounded(f, offer)]

\* Lines are brought into the file.  The id names lines and kind: not the
\* rules, nor how sure the model is.
Validate(f, offer) ==
    LET start == AtMost(f.start, Lines)
        end == AtMost(AtLeast(start, f.end), Lines) IN
    [id |-> <<start, end, f.kind>>, sure |-> f.sure, grounded |-> Grounded(f, offer)]

\* The findings of all batches, by where they are.
Place(some) == UNION {{b} \X DOMAIN some[b] : b \in DOMAIN some}

FindingAt(some, p) == some[p[1]][p[2]]

Earlier(p, q) == p[1] < q[1] \/ (p[1] = q[1] /\ p[2] < q[2])

\* Bug: the last one stays.
UniqueLast(some) ==
    {FindingAt(some, p) : p \in {q \in Place(some) : \A o \in Place(some) :
        FindingAt(some, o).id = FindingAt(some, q).id => ~Earlier(q, o)}}

\* Findings with the same id are the same finding: the first one stays.
Unique(some) ==
    {FindingAt(some, p) : p \in {q \in Place(some) : \A o \in Place(some) :
        FindingAt(some, o).id = FindingAt(some, q).id => ~Earlier(o, q)}}

\* The next batch is reviewed; its findings come in the order of the answer.
ReviewBatch ==
    /\ stage = "review" /\ Len(outcomes) < Len(ChunksOf)
    /\ LET offer == RulesFor(Len(outcomes) + 1) IN
       \E answer \in BoundedSeq(Answers, PerBatch) :
           /\ offered' = Append(offered, offer)
           /\ outcomes' = Append(outcomes, [i \in DOMAIN answer |-> Validate(answer[i], offer)])
    /\ UNCHANGED <<texts, near, stage, vectors, hits, shares>>

-----------------------------------------------------------------------------
(* score *)

Points(f) == IF f.sure THEN Weight[f.id[3]] ELSE 0

Total(found) == MapThenSumSet(Points, found)

Deducted(found) == Curve[Total(found)]

\* Of thousandths in proportion to the points, the whole part, and what is left
\* of it, in parts of the total.
Whole(f, found) == (Deducted(found) * Points(f)) \div Total(found)
Rest(f, found) == (Deducted(found) * Points(f)) % Total(found)

Remainder(found) == Deducted(found) - MapThenSumSet(LAMBDA f : Whole(f, found), found)

\* The canonical order of findings is that of their ids, whatever that is.
Before(f, g) ==
    \E i \in 1..3 : f.id[i] < g.id[i] /\ \A j \in 1..i - 1 : f.id[j] = g.id[j]

\* Bug: what is left goes to the first findings.
ServedInOrder(f, found) == {g \in found : Before(g, f)}

\* Whose share is rounded up before that of f.
Served(f, found) ==
    {g \in found : \/ Rest(g, found) > Rest(f, found)
                   \/ Rest(g, found) = Rest(f, found) /\ Before(g, f)}

\* _apportion: the largest remainders are rounded up.
Apportion(found) ==
    [id \in {f.id : f \in found} |->
        LET f == CHOOSE g \in found : g.id = id IN
        IF Total(found) = 0 \/ Deducted(found) = 0 THEN 0
        ELSE Whole(f, found)
             + IF Cardinality(Served(f, found)) < Remainder(found) THEN 1 ELSE 0]

Score ==
    /\ stage = "review" /\ Len(outcomes) = Len(ChunksOf)
    /\ shares' = Apportion(Unique(outcomes))
    /\ stage' = "scored"
    /\ UNCHANGED <<texts, near, vectors, hits, offered, outcomes>>

-----------------------------------------------------------------------------
Next == Embed \/ Search \/ ReviewBatch \/ Score

Spec == Init /\ [][Next]_vars

-----------------------------------------------------------------------------
(* Properties *)

Finding ==
    [id : (1..Lines) \X (1..Lines) \X Kind, sure : BOOLEAN, grounded : SUBSET Rule]

\* Chunks, rules and findings have the shape the code gives them, and a finding
\* is in the file, wherever the model saw it.
TypeOK ==
    /\ stage \in {"embed", "search", "review", "scored"}
    /\ vectors \in Seq(Text) /\ Len(vectors) <= Len(Wanted)
    /\ hits \in [Chunk -> SUBSET Hit]
    /\ offered \in Seq(SUBSET Hit) /\ outcomes \in Seq(Seq(Finding))
    /\ Len(offered) = Len(outcomes) /\ Len(outcomes) <= Len(ChunksOf)
    /\ \A b \in DOMAIN outcomes : \A i \in DOMAIN outcomes[b] :
        outcomes[b][i].id[1] <= outcomes[b][i].id[2]

\* A batch is offered as many of the rules found for its own chunks as it may
\* be, and none is left out for one that is further from all of them (retrieve,
\* which skips blank chunks; rules_for_batch).
OffersTheClosest ==
    \A b \in DOMAIN offered :
        LET wanted == {c \in ChunksOf[b] : vectors # <<>> /\ texts[c] # Blank}
            candidates == UNION {Found(texts[c]) : c \in wanted}
            chosen == RulesOf(offered[b]) IN
        /\ chosen \subseteq RulesOf(candidates)
        /\ Cardinality(chosen) = AtMost(MaxRules, Cardinality(RulesOf(candidates)))
        /\ \A h \in candidates : h.rule \notin chosen =>
            \A r \in chosen : \E g \in candidates : g.rule = r /\ g.distance <= h.distance

\* What is said to ground a finding was shown to the model that made it, and
\* can be described in the result (_validate, and the rules looked up by run).
GroundingIsProvable ==
    \A b \in DOMAIN outcomes : \A i \in DOMAIN outcomes[b] :
        outcomes[b][i].grounded \subseteq RulesOf(offered[b])

\* Reviewing more of the file never raises the score: what a later batch finds
\* does not take back what an earlier one deducted (_dedupe, score).
MoreNeverBetter ==
    [][Deducted(Unique(outcomes)) <= Deducted(Unique(outcomes'))]_vars

\* Deductions are attributable and fair, however they are rounded: they add up
\* to the total, each thing found has one, what the model was not sure of
\* deducts nothing, and what weighs more never deducts less (min_confidence,
\* _apportion, _dedupe).
DeductionsSplitFairly ==
    stage = "scored" =>
        /\ MapThenSumSet(LAMBDA id : shares[id], DOMAIN shares) = Deducted(Unique(outcomes))
        /\ \A b \in DOMAIN outcomes : \A i \in DOMAIN outcomes[b] :
            outcomes[b][i].id \in DOMAIN shares
        /\ \A f, g \in Unique(outcomes) :
            /\ Points(f) = 0 => shares[f.id] = 0
            /\ Points(f) < Points(g) => shares[f.id] <= shares[g.id]

=============================================================================
