---------------------------- MODULE ChunkingProofs ----------------------------
(***************************************************************************)
(* Proofs about Chunking: every line of a file is in exactly one batch,    *)
(* for files, parses and sizes of any length.  As long as no node of the   *)
(* parse tree ends past the last line, every line is also in exactly one   *)
(* chunk, and chunking never raises.                                       *)
(*                                                                         *)
(* The inductive invariant is that each loop has covered the file up to    *)
(* where it is (CoveredSoFar), with the bounds of its indices.  The chunks *)
(* may reach one line past the file; the pieces cut from them cannot.      *)
(*                                                                         *)
(* Three more arguments build on it.  A piece is cut from one chunk (Cut), *)
(* and since chunks are in order, its first line tells which.  A           *)
(* definition that stands apart is found whole (Scanned), and the chunks   *)
(* that are covered before it end before it (NotPassed), so that none of   *)
(* it is taken away.  What the two loops count is what their lines weigh   *)
(* (SizesInv), so that no batch is larger than the limit.                  *)
(***************************************************************************)
EXTENDS Chunking, FiniteSums, SequenceTheorems, TLAPS

\* How far a chunk may reach.
Reach == IF PastEnd THEN Total + 1 ELSE Total

ChunksReach ==
    phase \in {"split", "pack", "done"} => \E last \in Total..Reach : Tile(chunks, last)

\* What is found lies within reach; the loops' variables are numbers.
TypeInv ==
    /\ phase \in {"scan", "cover", "split", "pack", "done", "crashed"}
    /\ length \in Seq(LineLengths)
    /\ parse \in Seq(Nodes(Total))
    /\ at \in Nat \ {0}
    /\ gap \in 0..Total
    /\ found \in Seq([start : 1..Total, end : 1..Reach])
    /\ cursor \in 1..Reach + 1
    /\ chunks \in Seq([start : 1..Reach, end : 1..Reach])
    /\ from \in Nat /\ line \in Nat
    /\ pieces \in Seq([start : 1..Total, end : 1..Total])
    /\ batches \in Seq([start : 1..Total, end : 1..Total, chunks : Seq(Chunks)])

ChunkingInv ==
    /\ TypeInv /\ CoveredSoFar /\ InBounds /\ ChunksReach /\ BatchesCover
    /\ PastEnd \/ phase # "crashed"

-----------------------------------------------------------------------------
(* Operators *)

\* An interval that starts where a tiling ends extends it.
LEMMA TileAppend ==
    ASSUME NEW S, NEW seq \in Seq(S), NEW last \in Nat, NEW c \in S,
           Tile(seq, last), c.start = last + 1, c.end \in Nat, c.start <= c.end
    PROVE  Append(seq, c) \in Seq(S) /\ Tile(Append(seq, c), c.end)
<1> DEFINE new == Append(seq, c)
<1>1. /\ new \in Seq(S) /\ Len(new) = Len(seq) + 1 /\ Len(seq) \in Nat
      /\ \A i \in 1..Len(seq) : new[i] = seq[i]
      /\ new[Len(seq) + 1] = c /\ new # <<>>
  BY AppendProperties, LenProperties
<1>2. last = IF Len(seq) = 0 THEN 0 ELSE seq[Len(seq)].end
  BY EmptySeq DEF Tile
<1>3. \A i \in 1..Len(new) :
        /\ new[i].start <= new[i].end
        /\ new[i].start = IF i = 1 THEN 1 ELSE new[i - 1].end + 1
  <2> SUFFICES ASSUME NEW i \in 1..Len(new)
               PROVE /\ new[i].start <= new[i].end
                     /\ new[i].start = IF i = 1 THEN 1 ELSE new[i - 1].end + 1
    OBVIOUS
  <2> HIDE DEF new
  <2>1. CASE i \in 1..Len(seq)
    <3>1. i = 1 \/ i - 1 \in 1..Len(seq)
      BY <1>1, <2>1
    <3>2. /\ seq[i].start <= seq[i].end
          /\ seq[i].start = IF i = 1 THEN 1 ELSE seq[i - 1].end + 1
      BY <2>1 DEF Tile
    <3> QED BY <1>1, <2>1, <3>1, <3>2
  <2>2. CASE i = Len(seq) + 1
    BY <1>1, <1>2, <2>2
  <2> QED BY <1>1, <2>1, <2>2
<1>4. new[Len(new)] = c
  BY <1>1
<1> QED BY <1>1, <1>3, <1>4 DEF Tile

LEMMA TileEmpty == Tile(<<>>, 0)
  BY DEF Tile

\* Where a tiling ends.
LEMMA TileEnd ==
    ASSUME NEW S, NEW seq \in Seq(S), NEW last, Tile(seq, last), seq # <<>>
    PROVE  Len(seq) \in Nat \ {0} /\ last = seq[Len(seq)].end
  BY EmptySeq DEF Tile

LEMMA MaxOfTwo ==
    ASSUME NEW a \in Nat, NEW b \in Nat
    PROVE  Max({a, b}) = IF a >= b THEN a ELSE b
<1> DEFINE m == IF a >= b THEN a ELSE b
<1>1. m \in {a, b} /\ \A y \in {a, b} : m >= y
  OBVIOUS
<1>2. \A x \in {a, b} : (\A y \in {a, b} : x >= y) => x = m
  OBVIOUS
<1> QED BY <1>1, <1>2 DEF Max

LEMMA WithoutIsSeq ==
    ASSUME NEW S, NEW seq \in Seq(S), NEW i \in DOMAIN seq
    PROVE  Without(seq, i) \in Seq(S)
<1>1. DOMAIN seq = 1..Len(seq) /\ Len(seq) \in Nat
  BY LenProperties
<1>2. SubSeq(seq, 1, i - 1) \in Seq(S) /\ SubSeq(seq, i + 1, Len(seq)) \in Seq(S)
  BY <1>1, SubSeqProperties
<1> QED BY <1>2, ConcatProperties DEF Without

-----------------------------------------------------------------------------
(* The invariant *)

\* A chunk reaches the last line, or one line more.
LEMMA ReachIsNear ==
    ASSUME TypeInv
    PROVE  /\ Total \in Nat /\ Reach \in Nat
           /\ Total <= Reach /\ Reach <= Total + 1
           /\ length' = length => Total' = Total /\ Reach' = Reach
  BY LenProperties DEF TypeInv, Total, Reach

LEMMA ChunkingInit == Init => ChunkingInv
<1> SUFFICES ASSUME Init PROVE ChunkingInv
  OBVIOUS
<1>1. length \in Seq(LineLengths)
  BY ChunkingAssumption, SeqDef DEF Init
<1>2. parse \in Seq(Nodes(Total))
  BY ChunkingAssumption, SeqDef DEF Init, Parses
<1>3. Total \in Nat
  BY <1>1, LenProperties DEF Total
<1>4. Tile(chunks, cursor - 1)
  BY TileEmpty DEF Init
<1>5. cursor \in 1..Reach + 1
  BY <1>3 DEF Init, Reach
<1> QED BY <1>1, <1>2, <1>3, <1>4, <1>5, EmptySeq
        DEF Init, ChunkingInv, TypeInv, CoveredSoFar, InBounds, ChunksReach, BatchesCover

LEMMA NodeInFile ==
    ASSUME TypeInv, NEW i \in 1..Len(parse)
    PROVE  /\ parse[i].start \in 1..Total /\ parse[i].end \in 1..Reach
           /\ parse[i].start <= parse[i].end
<1>1. parse[i] \in Nodes(Total)
  BY ElementOfSeq DEF TypeInv
<1>2. Total \in Nat
  BY LenProperties DEF TypeInv, Total
<1> QED BY <1>1, <1>2, ReachIsNear DEF Nodes, Reach

LEMMA ScanKeeps ==
    ASSUME ChunkingInv, ScanDefinition \/ ScanOther \/ ScanEnd \/ ParseFails
    PROVE  ChunkingInv'
<1> DEFINE Interval == [start : 1..Total, end : 1..Reach]
           Spread == [start : 1..Reach, end : 1..Reach]
<1> USE DEF Chunk
<1>a. length' = length /\ TypeInv
  BY DEF ChunkingInv, ScanDefinition, ScanOther, ScanEnd, ParseFails
<1>0. /\ Total \in Nat /\ Reach \in Nat /\ Total <= Reach
      /\ Total' = Total /\ Reach' = Reach
  BY <1>a, ReachIsNear
<1>1. ASSUME ScanDefinition PROVE ChunkingInv'
  <2> DEFINE node == parse[at]
             before == IF gap # 0 /\ gap < node.start
                       THEN Append(found, Chunk(gap, node.start - 1)) ELSE found
  <2>1. at \in 1..Len(parse)
    BY <1>1 DEF ChunkingInv, TypeInv, ScanDefinition
  <2>2. node.start \in 1..Total /\ node.end \in 1..Reach
    BY <2>1, NodeInFile DEF ChunkingInv
  <2>3. gap # 0 /\ gap < node.start => Chunk(gap, node.start - 1) \in Interval
    <3>1. gap \in 0..Total
      BY DEF ChunkingInv, TypeInv
    <3>2. gap # 0 /\ gap < node.start => gap \in 1..Total /\ node.start - 1 \in 1..Reach
      <4> HIDE DEF node
      <4> QED BY <1>0, <2>2, <3>1
    <3> QED BY <3>2
  <2>4. before \in Seq(Interval)
    BY <2>3, AppendProperties DEF ChunkingInv, TypeInv
  <2>5. Append(before, Chunk(node.start, node.end)) \in Seq(Interval)
    BY <2>2, <2>4, AppendProperties
  <2>6. found' \in Seq(Interval)
    BY <1>1, <2>5 DEF ScanDefinition
  <2> QED BY <1>0, <1>1, <2>6
          DEF ChunkingInv, TypeInv, ScanDefinition, CoveredSoFar, InBounds, ChunksReach,
              BatchesCover, Tile
<1>2. ASSUME ScanOther PROVE ChunkingInv'
  <2>1. at \in 1..Len(parse)
    BY <1>2 DEF ChunkingInv, TypeInv, ScanOther
  <2>2. parse[at].start \in 1..Total
    BY <2>1, NodeInFile DEF ChunkingInv
  <2> QED BY <1>0, <1>2, <2>2
          DEF ChunkingInv, TypeInv, ScanOther, CoveredSoFar, InBounds, ChunksReach,
              BatchesCover, Tile
<1>3. ASSUME ScanEnd PROVE ChunkingInv'
  <2>1. gap # 0 => Chunk(gap, Total) \in Interval
    BY <1>0 DEF ChunkingInv, TypeInv
  <2>2. found' \in Seq(Interval)
    BY <1>3, <2>1, AppendProperties DEF ChunkingInv, TypeInv, ScanEnd
  <2> QED BY <1>0, <1>3, <2>2
          DEF ChunkingInv, TypeInv, ScanEnd, CoveredSoFar, InBounds, ChunksReach,
              BatchesCover, Tile
<1>4. ASSUME ParseFails PROVE ChunkingInv'
  <2> DEFINE whole == Chunk(1, Total)
  <2>1. whole \in Spread /\ whole.start = 0 + 1 /\ whole.end = Total /\ Total > 0
    BY <1>0, <1>4 DEF ParseFails
  <2>2. <<>> \in Seq(Spread)
    BY EmptySeq
  <2>3. Append(<<>>, whole) \in Seq(Spread) /\ Tile(Append(<<>>, whole), Total)
    <3>1. whole.start = 0 + 1 /\ whole.end \in Nat /\ whole.start <= whole.end
      BY <1>0, <2>1
    <3>2. Append(<<>>, whole) \in Seq(Spread) /\ Tile(Append(<<>>, whole), whole.end)
      <4> HIDE DEF whole, Spread
      <4> QED BY <2>1, <2>2, <3>1, TileEmpty, TileAppend, 0 \in Nat
    <3> QED BY <2>1, <3>2
  <2>4. chunks' = Append(<<>>, whole)
    BY <1>4 DEF ParseFails
  <2>5. TypeInv'
    BY <1>0, <1>4, <2>3, <2>4 DEF ChunkingInv, TypeInv, ParseFails
  <2>6. ChunksReach' /\ BatchesCover'
    <3>1. Total \in Total'..Reach' /\ Tile(chunks', Total)
      BY <1>0, <2>3, <2>4
    <3> QED BY <1>4, <3>1 DEF ParseFails, ChunksReach, BatchesCover
  <2>7. CoveredSoFar' /\ InBounds'
    <3>1. line' = 0 /\ at' = 1 /\ pieces' = <<>> /\ batches' = <<>> /\ phase' = "split"
      BY <1>4 DEF ChunkingInv, InBounds, ParseFails
    <3>2. Len(chunks') \in Nat
      BY <2>3, <2>4, LenProperties
    <3> QED BY <3>1, <3>2, TileEmpty DEF CoveredSoFar, InBounds
  <2> QED BY <1>4, <2>5, <2>6, <2>7 DEF ChunkingInv, ParseFails
<1> QED BY <1>1, <1>2, <1>3, <1>4

LEMMA CoverKeeps ==
    ASSUME ChunkingInv, (\E i \in DOMAIN found : CoverChunk(i)) \/ CoverEnd
    PROVE  ChunkingInv'
<1> DEFINE Interval == [start : 1..Total, end : 1..Reach]
           Spread == [start : 1..Reach, end : 1..Reach]
<1>b. phase = "cover" /\ length' = length
  BY DEF CoverChunk, CoverEnd
<1>a. /\ Total \in Nat /\ Reach \in Nat /\ Total <= Reach
      /\ Total' = Total /\ Reach' = Reach
  BY <1>b, ReachIsNear DEF ChunkingInv
<1>d. /\ Tile(chunks, cursor - 1)
      /\ line = 0 /\ pieces = <<>> /\ batches = <<>>
      /\ chunks \in Seq(Spread)
  BY <1>b DEF ChunkingInv, TypeInv, CoveredSoFar, InBounds
<1>e. cursor - 1 \in Nat
  BY <1>a DEF ChunkingInv, TypeInv
<1>0. /\ Total \in Nat /\ Reach \in Nat /\ Total <= Reach
      /\ Total' = Total /\ Reach' = Reach
      /\ phase = "cover" /\ Tile(chunks, cursor - 1) /\ cursor - 1 \in Nat
      /\ line = 0 /\ pieces = <<>> /\ batches = <<>>
      /\ chunks \in Seq(Spread)
  BY <1>a, <1>b, <1>d, <1>e
<1>1. ASSUME NEW i \in DOMAIN found, CoverChunk(i) PROVE ChunkingInv'
  <2> DEFINE start == Max({found[i].start, cursor})
             end == found[i].end
             gapChunk == Chunk(cursor, start - 1)
             before == IF start > cursor THEN Append(chunks, gapChunk) ELSE chunks
             last == Chunk(start, end)
  <2>1. found[i] \in Interval
    BY ElementOfSeq, LenProperties DEF ChunkingInv, TypeInv
  <2>2. /\ start \in 1..Reach + 1 /\ start >= cursor /\ end \in 1..Reach
        /\ cursor \in 1..Reach + 1
    <3>1. cursor \in 1..Reach + 1 /\ found[i].start \in 1..Total /\ end \in 1..Reach
      BY <2>1 DEF ChunkingInv, TypeInv
    <3>2. found[i].start \in Nat /\ cursor \in Nat
      BY <1>0, <3>1
    <3>3. start = IF found[i].start >= cursor THEN found[i].start ELSE cursor
      BY <3>2, MaxOfTwo
    <3> HIDE DEF start, end
    <3> QED BY <1>0, <3>1, <3>3
  <2>3. found' \in Seq(Interval)
    BY <1>1, WithoutIsSeq DEF ChunkingInv, TypeInv, CoverChunk
  <2>4. CASE start > end
    <3>1. chunks' = chunks /\ cursor' = cursor
      BY <1>1, <2>4 DEF CoverChunk
    <3> QED BY <1>0, <1>1, <2>3, <3>1
            DEF ChunkingInv, TypeInv, CoverChunk, CoveredSoFar, InBounds, ChunksReach,
                BatchesCover
  <2>5. CASE ~(start > end)
    <3> HIDE DEF start, end
    <3>1. before \in Seq(Spread) /\ Tile(before, start - 1)
      <4>1. CASE start > cursor
        <5>1. /\ gapChunk \in Spread /\ gapChunk.start = (cursor - 1) + 1
              /\ gapChunk.end = start - 1 /\ gapChunk.end \in Nat
              /\ gapChunk.start <= gapChunk.end
          BY <1>0, <2>2, <2>5, <4>1 DEF Chunk
        <5>2. Append(chunks, gapChunk) \in Seq(Spread)
              /\ Tile(Append(chunks, gapChunk), gapChunk.end)
          <6> HIDE DEF gapChunk, Spread
          <6> QED BY <1>0, <5>1, TileAppend
        <5> QED BY <4>1, <5>1, <5>2
      <4>2. CASE ~(start > cursor)
        BY <1>0, <2>2, <4>2
      <4> QED BY <4>1, <4>2
    <3>2. /\ last \in Spread /\ last.start = (start - 1) + 1 /\ start - 1 \in Nat
          /\ last.end = end /\ last.end \in Nat /\ last.start <= last.end
      BY <1>0, <2>2, <2>5 DEF Chunk
    <3>3. Append(before, last) \in Seq(Spread) /\ Tile(Append(before, last), end)
      <4> HIDE DEF before, last, Spread
      <4> QED BY <3>1, <3>2, TileAppend
    <3>4. chunks' = Append(before, last) /\ cursor' = end + 1
      BY <1>1, <2>5 DEF CoverChunk, start, end
    <3>5. Tile(chunks', cursor' - 1)
      <4>1. end = (end + 1) - 1
        BY <2>2
      <4> QED BY <3>3, <3>4, <4>1
    <3>6. chunks' \in Seq(Spread) /\ cursor' \in 1..Reach + 1
      BY <1>0, <2>2, <3>3, <3>4
    <3> HIDE DEF before, last
    <3> QED BY <1>0, <1>1, <2>3, <3>5, <3>6
            DEF ChunkingInv, TypeInv, CoverChunk, CoveredSoFar, InBounds, ChunksReach,
                BatchesCover
  <2> QED BY <2>4, <2>5
<1>2. ASSUME CoverEnd PROVE ChunkingInv'
  <2> DEFINE rest == Chunk(cursor, Total)
             last == IF cursor <= Total THEN Total ELSE cursor - 1
  <2>1. chunks' \in Seq(Spread) /\ Tile(chunks', last) /\ last \in Total..Reach
    <3>0. cursor \in 1..Reach + 1
      BY DEF ChunkingInv, TypeInv
    <3>1. CASE cursor <= Total
      <4>1. /\ rest \in Spread /\ rest.start = (cursor - 1) + 1
            /\ rest.end = Total /\ rest.end \in Nat /\ rest.start <= rest.end
        BY <1>0, <3>0, <3>1 DEF Chunk
      <4>2. Append(chunks, rest) \in Seq(Spread) /\ Tile(Append(chunks, rest), rest.end)
        <5> HIDE DEF rest, Spread
        <5> QED BY <1>0, <4>1, TileAppend
      <4> QED BY <1>0, <1>2, <3>1, <4>1, <4>2 DEF CoverEnd
    <3>2. CASE ~(cursor <= Total)
      BY <1>0, <1>2, <3>0, <3>2 DEF CoverEnd
    <3> QED BY <3>1, <3>2
  <2> HIDE DEF last
  <2>2. Len(chunks') \in Nat
    BY <2>1, LenProperties
  <2>3. TypeInv'
    BY <1>0, <1>2, <2>1 DEF ChunkingInv, TypeInv, CoverEnd
  <2>4. CoveredSoFar' /\ InBounds'
    BY <1>0, <1>2, <2>2, TileEmpty DEF CoverEnd, CoveredSoFar, InBounds
  <2>5. ChunksReach'
    BY <1>0, <2>1 DEF ChunksReach
  <2> QED BY <1>0, <1>2, <2>3, <2>4, <2>5 DEF ChunkingInv, CoverEnd, BatchesCover
<1> QED BY <1>1, <1>2

LEMMA SplitTypes ==
    ASSUME TypeInv, phase' \in {"split", "pack", "crashed"},
           UNCHANGED <<length, parse, gap, found, cursor, chunks, batches>>,
           at' \in Nat \ {0}, from' \in Nat, line' \in Nat,
           pieces' \in Seq([start : 1..Total, end : 1..Total])
    PROVE  TypeInv'
<1>1. Total' = Total /\ Reach' = Reach
  BY ReachIsNear
<1> QED BY <1>1 DEF TypeInv

LEMMA SplitKeeps ==
    ASSUME ChunkingInv,
           SplitEnter \/ SplitLine \/ SplitCrashes \/ SplitLeave \/ SplitEnd
    PROVE  ChunkingInv'
<1> DEFINE Spread == [start : 1..Reach, end : 1..Reach]
           Interval == [start : 1..Total, end : 1..Total]
           Covered == IF line # 0 THEN from - 1 ELSE IF at = 1 THEN 0 ELSE chunks[at - 1].end
<1>a. phase = "split" /\ length' = length
  BY DEF InChunk, SplitEnter, SplitLine, SplitCrashes, SplitLeave, SplitEnd
<1>b. /\ Total \in Nat /\ Reach \in Nat /\ Total <= Reach /\ Reach <= Total + 1
      /\ Total' = Total /\ Reach' = Reach
  BY <1>a, ReachIsNear DEF ChunkingInv
<1>0. /\ Tile(pieces, Covered) /\ batches = <<>>
      /\ chunks \in Seq(Spread) /\ pieces \in Seq(Interval)
      /\ at \in 1..Len(chunks) + 1 /\ Len(chunks) \in Nat
      /\ at > 1 => chunks[at - 1].end <= Total
  <2>1. Len(chunks) \in Nat
    BY LenProperties DEF ChunkingInv, TypeInv
  <2>2. /\ Tile(pieces, Covered) /\ batches = <<>>
        /\ chunks \in Seq(Spread) /\ pieces \in Seq(Interval)
        /\ at \in Nat \ {0} /\ at <= Len(chunks) + 1
        /\ at > 1 => chunks[at - 1].end <= Total
    BY <1>a DEF ChunkingInv, TypeInv, CoveredSoFar, InBounds
  <2> QED BY <2>1, <2>2
<1>c. PICK last \in Total..Reach : Tile(chunks, last)
  BY <1>a DEF ChunkingInv, ChunksReach
<1>d. chunks' = chunks /\ phase' = "split" => ChunksReach'
  BY <1>b, <1>c DEF ChunksReach
<1>1. \A i \in 1..Len(chunks) :
        /\ chunks[i].start \in 1..Reach /\ chunks[i].end \in 1..Reach
        /\ chunks[i].start <= chunks[i].end
        /\ chunks[i].start = IF i = 1 THEN 1 ELSE chunks[i - 1].end + 1
  <2>1. \A i \in 1..Len(chunks) : chunks[i] \in Spread
    BY <1>0, ElementOfSeq
  <2> QED BY <1>c, <2>1 DEF Tile
<1>2. line # 0 =>
        /\ at \in 1..Len(chunks)
        /\ chunks[at].start <= from /\ from <= chunks[at].end
        /\ from <= line /\ line <= chunks[at].end + 1
        /\ from \in 1..Total + 1 /\ line \in 1..Total + 1
  <2> SUFFICES ASSUME line # 0
               PROVE  /\ at \in 1..Len(chunks)
                      /\ chunks[at].start <= from /\ from <= chunks[at].end
                      /\ from <= line /\ line <= chunks[at].end + 1
                      /\ from \in 1..Total + 1 /\ line \in 1..Total + 1
    OBVIOUS
  <2>1. /\ at \in Nat \ {0} /\ at <= Len(chunks)
        /\ chunks[at].start <= from /\ from <= chunks[at].end
        /\ from <= line /\ line <= chunks[at].end + 1 /\ line <= Total + 1
        /\ from \in Nat /\ line \in Nat
    BY <1>a DEF ChunkingInv, TypeInv, InBounds
  <2>2. at \in 1..Len(chunks)
    BY <1>0, <2>1
  <2>3. chunks[at].start \in 1..Reach /\ chunks[at].end \in 1..Reach
    BY <1>1, <2>2
  <2>5. from \in 1..Total + 1 /\ line \in 1..Total + 1
    BY <1>b, <2>1, <2>3
  <2> QED BY <2>1, <2>2, <2>5
<1>3. ASSUME SplitEnter PROVE ChunkingInv'
  <2>1. at \in 1..Len(chunks) /\ line = 0
    BY <1>0, <1>3 DEF SplitEnter
  <2>2. /\ chunks[at].start \in 1..Reach /\ chunks[at].end \in 1..Reach
        /\ chunks[at].start <= chunks[at].end
        /\ chunks[at].start = IF at = 1 THEN 1 ELSE chunks[at - 1].end + 1
    BY <1>1, <2>1
  <2>4. Covered = chunks[at].start - 1 /\ chunks[at].start <= Total + 1
    <3>1. CASE at = 1
      BY <1>b, <2>1, <2>2, <3>1
    <3>2. CASE at # 1
      <4>1. at - 1 \in 1..Len(chunks) /\ at > 1
        BY <1>0, <2>1, <3>2
      <4>2. chunks[at - 1].end \in 1..Reach
        BY <1>1, <4>1
      <4>3. chunks[at].start = chunks[at - 1].end + 1 /\ chunks[at - 1].end <= Total
        BY <1>0, <2>2, <3>2, <4>1
      <4>4. Covered = chunks[at - 1].end
        BY <2>1, <3>2
      <4> HIDE DEF Covered
      <4> QED BY <1>b, <4>2, <4>3, <4>4
    <3> QED BY <3>1, <3>2
  <2>5. Tile(pieces, chunks[at].start - 1)
    BY <1>0, <2>4
  <2>6. /\ from' = chunks[at].start /\ line' = chunks[at].start
        /\ UNCHANGED <<phase, length, parse, at, gap, found, cursor, chunks, pieces, batches>>
    BY <1>3 DEF SplitEnter
  <2>8. TypeInv'
    <3>1. chunks[at].start \in Nat
      BY <2>2
    <3> QED BY <1>a, <1>0, <2>6, <3>1, SplitTypes DEF ChunkingInv, TypeInv
  <2>9. CoveredSoFar'
    BY <1>a, <1>b, <2>2, <2>5, <2>6 DEF CoveredSoFar
  <2>10. InBounds'
    <3>1. phase' = "split" /\ batches' = <<>> /\ at \in Nat /\ Len(chunks) \in Nat
      BY <1>a, <1>0, <2>6
    <3>2. /\ at <= Len(chunks)
          /\ chunks[at].start <= chunks[at].start
          /\ chunks[at].start <= chunks[at].end + 1 /\ chunks[at].start <= Total + 1
      BY <2>1, <2>2, <2>4
    <3>3. at > 1 => chunks[at - 1].end <= Total
      BY <1>0
    <3>4. at <= Len(chunks) + 1 /\ Total' = Total
      BY <1>b, <1>0
    <3> QED BY <2>2, <2>6, <3>1, <3>2, <3>3, <3>4 DEF InBounds
  <2>11. phase' = "split" /\ ChunksReach'
    BY <1>a, <1>d, <2>6
  <2> QED BY <2>8, <2>9, <2>10, <2>11 DEF ChunkingInv, BatchesCover
<1>4. ASSUME SplitLine PROVE ChunkingInv'
  <2> DEFINE longer == size + length[line] + 9
             full == longer > MaxChars /\ line > from
             piece == Chunk(from, line - 1)
  <2>1. line # 0 /\ line <= chunks[at].end /\ line <= Total
    BY <1>4 DEF SplitLine, InChunk
  <2>2. Tile(pieces, from - 1) /\ from - 1 \in Nat /\ from \in 1..Total
    <3>1. Tile(pieces, from - 1)
      BY <1>0, <2>1
    <3>2. from \in 1..Total + 1 /\ line \in 1..Total + 1 /\ from <= line /\ line <= Total
      BY <1>2, <2>1
    <3> QED BY <1>b, <3>1, <3>2
  <2>3. /\ at \in 1..Len(chunks)
        /\ chunks[at].start \in 1..Reach /\ chunks[at].end \in 1..Reach
        /\ chunks[at].start <= from /\ from <= chunks[at].end /\ from <= line
        /\ line \in 1..Total
    BY <1>b, <1>1, <1>2, <2>1
  <2>4. /\ UNCHANGED <<phase, length, parse, at, gap, found, cursor, chunks, batches>>
        /\ line' = line + 1
    BY <1>4 DEF SplitLine
  <2>5. /\ pieces' \in Seq(Interval) /\ Tile(pieces', from' - 1)
        /\ from' \in {from, line}
    <3>1. CASE full
      <4>1. line > from
        BY <3>1
      <4> HIDE DEF full, longer
      <4>2. /\ piece \in Interval /\ piece.start = (from - 1) + 1
            /\ piece.end = line - 1 /\ piece.end \in Nat /\ piece.start <= piece.end
        BY <1>b, <2>2, <2>3, <4>1 DEF Chunk
      <4>3. Append(pieces, piece) \in Seq(Interval) /\ Tile(Append(pieces, piece), piece.end)
        <5> HIDE DEF piece, Interval
        <5> QED BY <1>0, <2>2, <4>2, TileAppend
      <4>4. pieces' = Append(pieces, piece) /\ from' = line
        BY <1>4, <3>1 DEF SplitLine, full, longer
      <4> QED BY <4>2, <4>3, <4>4
    <3>2. CASE ~full
      <4>1. pieces' = pieces /\ from' = from
        BY <1>4, <3>2 DEF SplitLine
      <4> QED BY <1>0, <2>2, <4>1
    <3> QED BY <3>1, <3>2
  <2> HIDE DEF full, longer, piece
  <2>6. TypeInv'
    <3>1. from' \in Nat /\ line + 1 \in Nat
      BY <1>b, <2>2, <2>3, <2>5
    <3>2. at \in Nat \ {0}
      BY <1>0
    <3> QED BY <1>a, <2>4, <2>5, <3>1, <3>2, SplitTypes DEF ChunkingInv
  <2>7. CoveredSoFar'
    BY <1>a, <1>b, <2>3, <2>4, <2>5 DEF CoveredSoFar
  <2>8. InBounds'
    <3>1. phase' = "split" /\ batches' = <<>> /\ at \in Nat /\ Len(chunks) \in Nat
      BY <1>a, <1>0, <2>4
    <3>2. /\ chunks[at].start <= from' /\ from' <= chunks[at].end
          /\ from' <= line + 1 /\ line + 1 <= chunks[at].end + 1 /\ line + 1 # 0
          /\ line + 1 <= Total + 1
      BY <1>b, <2>1, <2>2, <2>3, <2>5
    <3> QED BY <1>b, <1>0, <2>3, <2>4, <3>1, <3>2 DEF InBounds
  <2>9. phase' = "split" /\ ChunksReach'
    BY <1>a, <1>d, <2>4
  <2> QED BY <2>6, <2>7, <2>8, <2>9 DEF ChunkingInv, BatchesCover
<1>5. ASSUME SplitCrashes PROVE ChunkingInv'
  <2>1. /\ line # 0 /\ line <= chunks[at].end /\ line > Total /\ phase' = "crashed"
        /\ UNCHANGED <<length, parse, at, gap, found, cursor, chunks, from, line, size,
                      pieces, batches>>
    BY <1>5 DEF SplitCrashes, InChunk
  <2>2. PastEnd
    <3>1. chunks[at].end \in 1..Reach /\ line \in 1..Total + 1
      BY <1>1, <1>2, <2>1
    <3>2. Reach # Total
      BY <1>b, <2>1, <3>1
    <3> QED BY <3>2 DEF Reach
  <2>3. TypeInv'
    BY <1>b, <2>1 DEF ChunkingInv, TypeInv
  <2> QED BY <2>1, <2>2, <2>3
          DEF ChunkingInv, CoveredSoFar, InBounds, ChunksReach, BatchesCover
<1>6. ASSUME SplitLeave PROVE ChunkingInv'
  <2> DEFINE piece == Chunk(from, chunks[at].end)
  <2>1. line # 0 /\ line > chunks[at].end
    BY <1>6 DEF SplitLeave
  <2>2. /\ Tile(pieces, from - 1) /\ from - 1 \in Nat
        /\ chunks[at].end \in 1..Total /\ from \in 1..Total
    <3>1. chunks[at].end \in 1..Reach
      BY <1>1, <1>2, <2>1
    <3>2. Tile(pieces, from - 1)
      BY <1>0, <2>1
    <3>3. /\ from \in 1..Total + 1 /\ line \in 1..Total + 1
          /\ from <= chunks[at].end /\ line > chunks[at].end
      BY <1>2, <2>1
    <3> QED BY <1>b, <3>1, <3>2, <3>3
  <2>3. /\ piece \in Interval /\ piece.start = (from - 1) + 1
        /\ piece.end = chunks[at].end /\ piece.end \in Nat /\ piece.start <= piece.end
    BY <1>b, <1>2, <2>1, <2>2 DEF Chunk
  <2>4. Append(pieces, piece) \in Seq(Interval) /\ Tile(Append(pieces, piece), piece.end)
    <3> HIDE DEF piece, Interval
    <3> QED BY <1>0, <2>2, <2>3, TileAppend
  <2>5. pieces' = Append(pieces, piece) /\ at' = at + 1 /\ line' = 0 /\ chunks' = chunks
    BY <1>6 DEF SplitLeave
  <2>6. pieces' \in Seq(Interval) /\ Tile(pieces', chunks'[at' - 1].end)
    <3>1. at' - 1 = at
      BY <1>0, <2>5
    <3> QED BY <2>3, <2>4, <2>5, <3>1
  <2> HIDE DEF piece
  <2>7. TypeInv'
    <3>1. from \in Nat /\ 0 \in Nat
      BY <1>b, <2>2
    <3>2. at \in Nat \ {0}
      BY <1>0
    <3>3. at + 1 \in Nat \ {0}
      BY <3>2
    <3> QED BY <1>a, <1>6, <2>5, <2>6, <3>1, <3>3, SplitTypes DEF ChunkingInv, SplitLeave
  <2>8. CoveredSoFar' /\ InBounds'
    <3>1. at' # 1 /\ at' <= Len(chunks') + 1 /\ at' - 1 = at
      BY <1>0, <1>2, <2>1, <2>5
    <3>2. phase' = "split" /\ batches' = <<>>
      BY <1>a, <1>0, <1>6 DEF SplitLeave
    <3>3. chunks'[at' - 1].end <= Total'
      BY <1>b, <2>2, <2>5, <3>1
    <3> QED BY <2>5, <2>6, <3>1, <3>2, <3>3 DEF CoveredSoFar, InBounds
  <2>9. phase' = "split" /\ ChunksReach'
    BY <1>a, <1>d, <1>6 DEF SplitLeave
  <2> QED BY <2>7, <2>8, <2>9 DEF ChunkingInv, BatchesCover
<1>7. ASSUME SplitEnd PROVE ChunkingInv'
  <2>1. line = 0 /\ at = Len(chunks) + 1
    BY <1>0, <1>7 DEF SplitEnd
  <2>2. Tile(pieces, Total)
    <3>1. CASE chunks = <<>>
      <4>1. last = 0 /\ at = 1
        BY <1>c, <2>1, <3>1, EmptySeq DEF Tile
      <4> QED BY <1>b, <1>0, <2>1, <4>1
    <3>2. CASE chunks # <<>>
      <4>1. Len(chunks) \in Nat \ {0} /\ last = chunks[Len(chunks)].end
        BY <1>0, <1>c, <3>2, TileEnd
      <4>2. at # 1 /\ at > 1 /\ at - 1 = Len(chunks)
        BY <2>1, <4>1
      <4>3. last = Total
        BY <1>b, <1>0, <4>1, <4>2
      <4> QED BY <1>0, <2>1, <4>1, <4>2, <4>3
    <3> QED BY <3>1, <3>2
  <2>3. Len(pieces) \in Nat
    BY <1>0, LenProperties
  <2>4. ChunksReach'
    BY <1>b, <1>c, <1>7 DEF SplitEnd, ChunksReach
  <2>5. TypeInv'
    BY <1>b, <1>0, <1>7 DEF ChunkingInv, TypeInv, SplitEnd
  <2> QED BY <1>b, <1>0, <1>7, <2>2, <2>3, <2>4, <2>5, TileEmpty
          DEF ChunkingInv, SplitEnd, CoveredSoFar, InBounds, BatchesCover
<1> QED BY <1>3, <1>4, <1>5, <1>6, <1>7

LEMMA PackKeeps ==
    ASSUME ChunkingInv, Pack \/ PackEnd
    PROVE  ChunkingInv'
<1> DEFINE Interval == [start : 1..Total, end : 1..Total]
           BatchType == [start : 1..Total, end : 1..Total, chunks : Seq(Chunks)]
           before == IF from = 1 THEN 0 ELSE pieces[from - 1].end
           batch == Batch(from, at - 1)
<1>1. Total \in Nat /\ Len(pieces) \in Nat
  BY LenProperties DEF ChunkingInv, TypeInv, Total
<1>2. /\ phase = "pack"
      /\ UNCHANGED <<length, parse, gap, found, cursor, chunks, line, pieces>>
  BY DEF Pack, PackEnd
<1>3. Total' = Total /\ Reach' = Reach
  BY <1>2 DEF Total, Reach
<1>4. /\ Tile(pieces, Total) /\ Tile(batches, before)
      /\ pieces \in Seq(Interval) /\ batches \in Seq(BatchType)
      /\ phase' # "crashed" => ChunksReach'
  <2>1. \E last \in Total..Reach : Tile(chunks, last)
    BY <1>2 DEF ChunkingInv, ChunksReach
  <2> QED BY <1>2, <1>3, <2>1 DEF ChunkingInv, TypeInv, CoveredSoFar, ChunksReach
<1>5. /\ at \in 1..Len(pieces) + 1 /\ from \in 1..at
      /\ from = at => at = 1
      /\ from < at => pieces[from].start <= pieces[at - 1].end
  BY <1>1, <1>2 DEF ChunkingInv, TypeInv, InBounds
<1>6. \A i \in 1..Len(pieces) :
        /\ pieces[i].start \in 1..Total /\ pieces[i].end \in 1..Total
        /\ pieces[i].start <= pieces[i].end
        /\ pieces[i].start = IF i = 1 THEN 1 ELSE pieces[i - 1].end + 1
  <2>1. \A i \in 1..Len(pieces) : pieces[i] \in Interval
    BY <1>4, ElementOfSeq
  <2> QED BY <1>4, <2>1 DEF Tile
<1>7. before \in Nat
  <2>1. from # 1 => from - 1 \in 1..Len(pieces)
    BY <1>1, <1>5
  <2> QED BY <1>1, <1>6, <2>1
<1>8. from < at =>
        /\ Append(batches, batch) \in Seq(BatchType)
        /\ Tile(Append(batches, batch), pieces[at - 1].end)
  <2> SUFFICES ASSUME from < at
               PROVE  /\ Append(batches, batch) \in Seq(BatchType)
                      /\ Tile(Append(batches, batch), pieces[at - 1].end)
    OBVIOUS
  <2>1. from \in 1..Len(pieces) /\ at - 1 \in 1..Len(pieces)
    BY <1>1, <1>5
  <2>2. SubSeq(pieces, from, at - 1) \in Seq(Interval)
    <3>1. \A i \in from..at - 1 : pieces[i] \in Interval
      <4>1. \A i \in from..at - 1 : i \in 1..Len(pieces)
        BY <1>1, <2>1
      <4> HIDE DEF Interval
      <4> QED BY <1>4, <4>1, ElementOfSeq
    <3> HIDE DEF Interval
    <3> QED BY <2>1, <3>1, SubSeqProperties
  <2>3. SubSeq(pieces, from, at - 1) \in Seq(Chunks)
    <3>1. Interval \subseteq Chunks
      BY <1>1 DEF Chunks
    <3> HIDE DEF Interval
    <3> QED BY <2>2, <3>1, SeqMonotonic
  <2>4. /\ batch.start = pieces[from].start /\ batch.end = pieces[at - 1].end
        /\ batch = [start |-> pieces[from].start, end |-> pieces[at - 1].end,
                    chunks |-> SubSeq(pieces, from, at - 1)]
    BY DEF Batch
  <2>5. batch \in BatchType
    <3>1. pieces[from].start \in 1..Total /\ pieces[at - 1].end \in 1..Total
      BY <1>6, <2>1
    <3> HIDE DEF batch
    <3> QED BY <2>3, <2>4, <3>1
  <2>6. pieces[from].start = before + 1
    BY <1>6, <2>1
  <2>7. batch.start = before + 1 /\ batch.end \in Nat /\ batch.start <= batch.end
    BY <1>1, <1>5, <1>6, <2>1, <2>4, <2>6
  <2>8. Append(batches, batch) \in Seq(BatchType) /\ Tile(Append(batches, batch), batch.end)
    <3> HIDE DEF batch, BatchType, before
    <3> QED BY <1>4, <1>7, <2>5, <2>7, TileAppend
  <2> QED BY <2>4, <2>8
<1>9. ASSUME Pack PROVE ChunkingInv'
  <2> DEFINE full == from < at /\ size + ChunkSize(pieces[at]) > MaxChars
  <2>1. at \in 1..Len(pieces) /\ at' = at + 1 /\ phase' = "pack"
    BY <1>1, <1>2, <1>5, <1>9 DEF Pack
  <2>2. pieces[at].start <= pieces[at].end
    BY <1>6, <2>1
  <2>3. /\ batches' \in Seq(BatchType) /\ from' \in 1..at
        /\ Tile(batches', IF from' = 1 THEN 0 ELSE pieces[from' - 1].end)
        /\ pieces[from'].start <= pieces[at].end
    <3>1. CASE full
      <4>1. from < at
        BY <3>1
      <4>2. batches' = Append(batches, batch) /\ from' = at
        BY <1>9, <3>1 DEF Pack
      <4>3. at # 1
        BY <1>5, <4>1
      <4> HIDE DEF full, batch
      <4> QED BY <1>8, <2>1, <2>2, <4>1, <4>2, <4>3
    <3>2. CASE ~full
      <4>1. batches' = batches /\ from' = from
        BY <1>9, <3>2 DEF Pack
      <4> HIDE DEF full
      <4>2. pieces[from].start <= pieces[at].end
        <5>1. CASE from = at
          BY <2>2, <5>1
        <5>2. CASE from < at
          <6>1. at # 1 /\ from \in 1..Len(pieces) /\ at - 1 \in 1..Len(pieces)
            BY <1>1, <1>5, <2>1, <5>2
          <6>2. pieces[at].start = pieces[at - 1].end + 1
            BY <1>6, <2>1, <6>1
          <6>3. /\ pieces[from].start \in Nat /\ pieces[at - 1].end \in Nat
                /\ pieces[at].end \in Nat
            BY <1>6, <2>1, <6>1
          <6> QED BY <1>5, <2>2, <5>2, <6>2, <6>3
        <5> QED BY <1>5, <5>1, <5>2
      <4> QED BY <1>4, <1>5, <4>1, <4>2
    <3> QED BY <3>1, <3>2
  <2> HIDE DEF full
  <2>4. TypeInv'
    <3>1. at' \in Nat \ {0} /\ from' \in Nat
      BY <1>1, <2>1, <2>3
    <3>2. phase' \in {"pack"} /\ batches' \in Seq(BatchType)
      BY <2>1, <2>3
    <3> QED BY <1>2, <1>3, <3>1, <3>2 DEF ChunkingInv, TypeInv
  <2>5. CoveredSoFar'
    BY <1>2, <1>3, <1>4, <2>1, <2>3 DEF CoveredSoFar
  <2>6. InBounds'
    <3>1. at' - 1 = at /\ at' <= Len(pieces) + 1 /\ from' <= at' /\ from' # at' /\ 1 <= from'
      BY <1>1, <2>1, <2>3
    <3> QED BY <1>2, <2>1, <2>3, <3>1 DEF InBounds
  <2> QED BY <1>4, <2>1, <2>4, <2>5, <2>6 DEF ChunkingInv, BatchesCover
<1>10. ASSUME PackEnd PROVE ChunkingInv'
  <2>1. at = Len(pieces) + 1 /\ phase' = "done" /\ UNCHANGED <<at, from>>
    BY <1>1, <1>5, <1>10 DEF PackEnd
  <2>2. batches' \in Seq(BatchType) /\ Tile(batches', Total)
    <3>1. CASE from < at
      <4>1. Len(pieces) # 0 /\ Total = pieces[at - 1].end
        BY <1>1, <1>4, <1>5, <2>1, <3>1, TileEnd, EmptySeq
      <4>2. batches' = Append(batches, batch)
        BY <1>10, <3>1 DEF PackEnd
      <4> HIDE DEF batch
      <4> QED BY <1>8, <3>1, <4>1, <4>2
    <3>2. CASE from = at
      <4>1. from = 1 /\ Len(pieces) = 0
        BY <1>1, <1>5, <2>1, <3>2
      <4>2. Total = 0
        BY <1>4, <4>1, EmptySeq DEF Tile
      <4>3. batches' = batches
        BY <1>5, <1>10, <3>2 DEF PackEnd
      <4> QED BY <1>4, <4>1, <4>2, <4>3
    <3> QED BY <1>5, <3>1, <3>2
  <2>3. TypeInv'
    BY <1>2, <1>3, <2>1, <2>2 DEF ChunkingInv, TypeInv
  <2>4. CoveredSoFar' /\ InBounds'
    BY <2>1 DEF CoveredSoFar, InBounds
  <2>5. Tile(batches', Total')
    BY <1>3, <2>2
  <2> QED BY <1>4, <2>1, <2>3, <2>4, <2>5 DEF ChunkingInv, BatchesCover
<1> QED BY <1>9, <1>10

LEMMA ChunkingStep == ChunkingInv /\ [Next]_vars => ChunkingInv'
<1> SUFFICES ASSUME ChunkingInv, [Next]_vars PROVE ChunkingInv'
  OBVIOUS
<1>1. CASE UNCHANGED vars
  BY <1>1 DEF vars, ChunkingInv, TypeInv, CoveredSoFar, InBounds, ChunksReach, BatchesCover,
              Total, Reach, Tile
<1> QED BY <1>1, ScanKeeps, CoverKeeps, SplitKeeps, PackKeeps DEF Next, Ended

LEMMA ChunkingInvHolds == Spec => []ChunkingInv
<1>1. Init => ChunkingInv
  BY ChunkingInit
<1>2. ChunkingInv /\ [Next]_vars => ChunkingInv'
  BY ChunkingStep
<1> QED BY <1>1, <1>2, PTL DEF Spec

-----------------------------------------------------------------------------
(* Theorems *)

\* Every line of a file is in exactly one batch, whatever the parser makes of
\* the file: the models see the whole file, once, or chunking raises
\* (pack_batches).
THEOREM BatchesAlwaysCover == Spec => []BatchesCover
<1>1. ChunkingInv => BatchesCover
  BY DEF ChunkingInv
<1> QED BY <1>1, ChunkingInvHolds, PTL

\* At every turn the loops have covered the file up to where they are, which is
\* why every line is in one batch.
THEOREM LoopsCover == Spec => []CoveredSoFar
<1>1. ChunkingInv => CoveredSoFar
  BY DEF ChunkingInv
<1> QED BY <1>1, ChunkingInvHolds, PTL

\* As long as no node ends past the last line, every line of the file is in
\* exactly one chunk (chunk_source, _cover).
THEOREM ChunksAlwaysCover == ~PastEnd => (Spec => []ChunksCover)
<1> SUFFICES ASSUME ~PastEnd PROVE Spec => []ChunksCover
  OBVIOUS
<1>1. ChunkingInv => ChunksCover
  <2> SUFFICES ASSUME ChunkingInv, phase \in {"split", "pack", "done"}
               PROVE  Tile(chunks, Total)
    BY DEF ChunksCover
  <2>1. PICK last \in Total..Reach : Tile(chunks, last)
    BY DEF ChunkingInv, ChunksReach
  <2>2. Total \in Nat /\ Reach = Total
    BY ReachIsNear DEF ChunkingInv, Reach
  <2> QED BY <2>1, <2>2
<1> QED BY <1>1, ChunkingInvHolds, PTL

\* Under the same condition chunking never raises: no loop asks for a line the
\* file does not have (_split_oversized).
THEOREM ChunkingNeverRaises == ~PastEnd => (Spec => [](phase # "crashed"))
<1> SUFFICES ASSUME ~PastEnd PROVE Spec => [](phase # "crashed")
  OBVIOUS
<1>1. ChunkingInv => phase # "crashed"
  BY DEF ChunkingInv
<1> QED BY <1>1, ChunkingInvHolds, PTL

-----------------------------------------------------------------------------
(* Pieces *)

Spans(n) == [start : 1..n, end : 1..n]

\* What tiles a file is in order, all of it and not only neighbours.
InOrder(seq) == \A i, j \in 1..Len(seq) : i < j => seq[i].end < seq[j].start

Extends(longer, seq) ==
    /\ Len(seq) <= Len(longer) /\ Len(longer) <= Len(seq) + 2
    /\ \A i \in 1..Len(seq) : longer[i] = seq[i]

Within(piece, chunk) ==
    chunk.start <= piece.start /\ piece.start <= piece.end /\ piece.end <= chunk.end

\* A piece is cut from one chunk.
Cut ==
    phase \in {"split", "pack", "done"} =>
        \A i \in 1..Len(pieces) : \E c \in 1..Len(chunks) : Within(pieces[i], chunks[c])

PiecesInv == ChunkingInv /\ InOrder(chunks) /\ Cut

LEMMA OrderKept ==
    ASSUME NEW n \in Nat, NEW seq \in Seq(Spans(n)), NEW longer \in Seq(Spans(n)), NEW last,
           InOrder(seq), Tile(longer, last), Extends(longer, seq)
    PROVE  InOrder(longer)
<1>1. Len(seq) \in Nat /\ Len(longer) \in Nat
  BY LenProperties
<1>2. \A i \in 1..Len(longer) : longer[i].start \in 1..n /\ longer[i].end \in 1..n
  <2>1. \A i \in 1..Len(longer) : longer[i] \in Spans(n)
    BY ElementOfSeq
  <2> QED BY <2>1 DEF Spans
<1>3. \A i \in 1..Len(longer) :
        /\ longer[i].start <= longer[i].end
        /\ i # 1 => longer[i].start = longer[i - 1].end + 1
  BY DEF Tile
<1> SUFFICES ASSUME NEW i \in 1..Len(longer), NEW j \in 1..Len(longer), i < j
             PROVE  longer[i].end < longer[j].start
  BY DEF InOrder
<1>4. \A k \in 1..Len(seq) : i < k => longer[i].end < longer[k].start
  <2> SUFFICES ASSUME NEW k \in 1..Len(seq), i < k PROVE longer[i].end < longer[k].start
    OBVIOUS
  <2>1. i \in 1..Len(seq)
    BY <1>1
  <2> QED BY <2>1 DEF InOrder, Extends
<1>5. j # 1 /\ j - 1 \in 1..Len(longer) /\ longer[j].start = longer[j - 1].end + 1
  BY <1>1, <1>3
<1>6. CASE j <= Len(seq)
  BY <1>1, <1>4, <1>6
<1>7. \A k \in 1..Len(seq) : i <= k => longer[i].end <= longer[k].end
  <2> SUFFICES ASSUME NEW k \in 1..Len(seq), i <= k PROVE longer[i].end <= longer[k].end
    OBVIOUS
  <2>1. k \in 1..Len(longer)
    BY <1>1 DEF Extends
  <2> QED BY <1>1, <1>2, <1>3, <1>4, <2>1
<1>8. CASE j = Len(seq) + 1
  <2>1. j - 1 \in 1..Len(seq) /\ i <= j - 1
    BY <1>1, <1>5, <1>8
  <2>2. longer[i].end <= longer[j - 1].end
    BY <1>7, <2>1
  <2> QED BY <1>2, <1>5, <2>2
<1>9. CASE j = Len(seq) + 2
  <2>1. CASE i = j - 1
    BY <1>2, <1>5, <2>1
  <2>2. CASE i # j - 1
    <3>1. j - 2 \in 1..Len(seq) /\ i <= j - 2 /\ j - 1 # 1 /\ (j - 1) - 1 = j - 2
      BY <1>1, <1>9, <2>2
    <3>2. longer[i].end <= longer[j - 2].end
      BY <1>7, <3>1
    <3>3. longer[j - 1].start = longer[j - 2].end + 1 /\ longer[j - 1].start <= longer[j - 1].end
      BY <1>3, <1>5, <3>1
    <3>4. j - 2 \in 1..Len(longer)
      BY <1>1, <1>5, <3>1
    <3>5. \A k \in 1..Len(longer) : longer[k].start \in Nat /\ longer[k].end \in Nat
      BY <1>2
    <3> DEFINE a == longer[i].end
               b == longer[j - 2].end
               c == longer[j - 1].start
               d == longer[j - 1].end
    <3>6. a \in Nat /\ b \in Nat /\ c \in Nat /\ d \in Nat
      BY <1>5, <3>4, <3>5
    <3>7. a <= b /\ c = b + 1 /\ c <= d
      BY <3>2, <3>3
    <3> HIDE DEF a, b, c, d
    <3>8. a < d + 1
      BY <3>6, <3>7
    <3> QED BY <1>5, <3>8 DEF a, d
  <2> QED BY <2>1, <2>2
<1> QED BY SMTT(30), <1>1, <1>6, <1>8, <1>9 DEF Extends

LEMMA AppendExtends ==
    ASSUME NEW S, NEW seq \in Seq(S), NEW b, NEW c
    PROVE  /\ Extends(seq, seq) /\ Extends(Append(seq, b), seq)
           /\ Extends(Append(Append(seq, b), c), seq)
<1> DEFINE T == S \union {b, c}
           one == Append(seq, b)
<1>1. seq \in Seq(T) /\ b \in T /\ c \in T
  BY SeqMonotonic
<1> HIDE DEF T
<1>2. /\ one \in Seq(T) /\ Len(one) = Len(seq) + 1 /\ Len(seq) \in Nat
      /\ \A i \in 1..Len(seq) : one[i] = seq[i]
  BY <1>1, AppendProperties, LenProperties
<1> HIDE DEF one
<1>3. /\ Len(Append(one, c)) = Len(one) + 1
      /\ \A i \in 1..Len(one) : Append(one, c)[i] = one[i]
  BY <1>1, <1>2, AppendProperties
<1>4. \A i \in 1..Len(seq) : i \in 1..Len(one)
  BY <1>2
<1> QED BY <1>2, <1>3, <1>4 DEF Extends, one

LEMMA ChunksGrow ==
    ASSUME ChunkingInv, Next
    PROVE  Extends(chunks', chunks)
<1> DEFINE Spread == [start : 1..Reach, end : 1..Reach]
<1>1. chunks \in Seq(Spread)
  BY DEF ChunkingInv, TypeInv
<1> HIDE DEF Spread
<1>2. CASE ParseFails
  <2>1. chunks = <<>> /\ chunks' = <<Chunk(1, Total)>>
    BY <1>2 DEF ParseFails, ChunkingInv, InBounds
  <2>2. chunks' = Append(chunks, Chunk(1, Total))
    BY <2>1
  <2> QED BY <1>1, <2>2, AppendExtends
<1>3. CASE \E i \in DOMAIN found : CoverChunk(i)
  <2>1. PICK i \in DOMAIN found : CoverChunk(i)
    BY <1>3
  <2> DEFINE start == Max({found[i].start, cursor})
  <2>2. \/ chunks' = chunks
        \/ chunks' = Append(chunks, Chunk(start, found[i].end))
        \/ chunks' = Append(Append(chunks, Chunk(cursor, start - 1)),
                            Chunk(start, found[i].end))
    BY <2>1 DEF CoverChunk
  <2> HIDE DEF start
  <2> QED BY <1>1, <2>2, AppendExtends
<1>4. CASE CoverEnd
  BY <1>1, <1>4, AppendExtends DEF CoverEnd
<1>5. CASE chunks' = chunks
  BY <1>1, <1>5, AppendExtends
<1> QED BY <1>2, <1>3, <1>4, <1>5
        DEF Next, ScanDefinition, ScanOther, ScanEnd, SplitEnter, SplitLine, SplitCrashes,
            SplitLeave, SplitEnd, Pack, PackEnd, Ended, vars

LEMMA OrderStep ==
    ASSUME PiecesInv, Next, ChunkingInv'
    PROVE  InOrder(chunks)'
<1>1. chunks \in Seq(Spans(Reach)) /\ chunks' \in Seq(Spans(Reach)) /\ Reach \in Nat
  <2>1. length' = length
    BY DEF Next, ScanDefinition, ScanOther, ScanEnd, ParseFails, CoverChunk, CoverEnd,
           SplitEnter, SplitLine, SplitCrashes, SplitLeave, SplitEnd, Pack, PackEnd, Ended, vars
  <2>2. Reach \in Nat /\ Reach' = Reach
    BY <2>1, ReachIsNear DEF PiecesInv, ChunkingInv
  <2> QED BY <2>2 DEF PiecesInv, ChunkingInv, TypeInv, Spans
<1>2. Extends(chunks', chunks)
  BY ChunksGrow DEF PiecesInv
<1>3. CASE chunks' = chunks
  BY <1>3 DEF PiecesInv, InOrder
<1>4. CASE chunks' # chunks
  <2>1. PICK last : Tile(chunks', last)
    <3>1. phase' \in {"cover", "split"}
      BY <1>4 DEF Next, ScanDefinition, ScanOther, ScanEnd, ParseFails, CoverChunk, CoverEnd,
           SplitEnter, SplitLine, SplitCrashes, SplitLeave, SplitEnd, Pack, PackEnd, Ended, vars
    <3>2. CASE phase' = "cover"
      BY <3>2 DEF ChunkingInv, CoveredSoFar, Tile
    <3>3. CASE phase' = "split"
      BY <3>3 DEF ChunkingInv, ChunksReach, Tile
    <3> QED BY <3>1, <3>2, <3>3
  <2>2. InOrder(chunks)
    BY DEF PiecesInv
  <2> QED BY <1>1, <1>2, <2>1, <2>2, OrderKept
<1> QED BY <1>3, <1>4

LEMMA CutAppend ==
    ASSUME TypeInv, Cut, phase = "split", NEW piece \in [start : 1..Total, end : 1..Total],
           NEW c \in 1..Len(chunks), Within(piece, chunks[c]),
           pieces' = Append(pieces, piece), chunks' = chunks
    PROVE  Cut'
<1>1. /\ Len(pieces') = Len(pieces) + 1 /\ Len(pieces) \in Nat
      /\ \A i \in 1..Len(pieces) : pieces'[i] = pieces[i]
      /\ pieces'[Len(pieces) + 1] = piece
  BY AppendProperties, LenProperties DEF TypeInv
<1>2. \A i \in 1..Len(pieces') : \E d \in 1..Len(chunks) : Within(pieces'[i], chunks[d])
  <2> SUFFICES ASSUME NEW i \in 1..Len(pieces')
               PROVE  \E d \in 1..Len(chunks) : Within(pieces'[i], chunks[d])
    OBVIOUS
  <2>1. CASE i \in 1..Len(pieces)
    BY <1>1, <2>1 DEF Cut
  <2>2. CASE i = Len(pieces) + 1
    BY <1>1, <2>2
  <2> QED BY <1>1, <2>1, <2>2
<1> QED BY <1>2 DEF Cut

LEMMA CutStep ==
    ASSUME PiecesInv, Next
    PROVE  Cut'
<1>t. TypeInv /\ Total \in Nat /\ Reach \in Nat /\ Len(chunks) \in Nat
  BY ReachIsNear, LenProperties DEF PiecesInv, ChunkingInv, TypeInv
<1>u. \A c \in 1..Len(chunks) : chunks[c].start \in 1..Reach /\ chunks[c].end \in 1..Reach
  <2>1. \A c \in 1..Len(chunks) : chunks[c] \in [start : 1..Reach, end : 1..Reach]
    BY <1>t, ElementOfSeq DEF TypeInv
  <2> QED BY <2>1
<1>v. ASSUME phase = "split", line # 0
      PROVE  /\ at \in 1..Len(chunks) /\ from \in Nat /\ line \in Nat
             /\ chunks[at].start <= from /\ from <= chunks[at].end /\ from <= line
             /\ line <= Total + 1
  BY <1>t, <1>v DEF PiecesInv, ChunkingInv, TypeInv, InBounds
<1>1. CASE phase \in {"scan", "cover"}
  <2>1. pieces' = <<>>
    BY <1>1 DEF PiecesInv, ChunkingInv, InBounds,
           Next, ScanDefinition, ScanOther, ScanEnd, ParseFails, CoverChunk, CoverEnd,
           SplitEnter, SplitLine, SplitCrashes, InChunk, SplitLeave, SplitEnd, Pack, PackEnd,
           Ended, vars
  <2> QED BY <2>1 DEF Cut
<1>2. CASE SplitLine
  <2> DEFINE full == size + length[line] + 9 > MaxChars /\ line > from
  <2>1. CASE full
    <3>1. /\ phase = "split" /\ line # 0 /\ line <= chunks[at].end /\ line <= Total
          /\ pieces' = Append(pieces, Chunk(from, line - 1)) /\ line > from /\ chunks' = chunks
      BY <1>2, <2>1 DEF SplitLine, InChunk
    <3>2. /\ at \in 1..Len(chunks) /\ from \in Nat /\ line \in Nat
          /\ chunks[at].start <= from /\ from <= chunks[at].end /\ from <= line
      BY <1>v, <3>1
    <3>3. /\ Chunk(from, line - 1) \in [start : 1..Total, end : 1..Total]
          /\ Within(Chunk(from, line - 1), chunks[at])
      BY <1>t, <1>u, <3>1, <3>2 DEF Chunk, Within
    <3> HIDE DEF full
    <3> QED BY <1>t, <3>1, <3>2, <3>3, CutAppend DEF PiecesInv
  <2>2. CASE ~full
    BY <1>2, <2>2 DEF SplitLine, InChunk, PiecesInv, Cut
  <2> QED BY <2>1, <2>2
<1>3. CASE SplitLeave
  <2>1. /\ phase = "split" /\ line # 0 /\ line > chunks[at].end
        /\ pieces' = Append(pieces, Chunk(from, chunks[at].end)) /\ chunks' = chunks
    BY <1>3 DEF SplitLeave
  <2>2. /\ at \in 1..Len(chunks) /\ from \in Nat /\ line \in Nat
        /\ chunks[at].start <= from /\ from <= chunks[at].end /\ from <= line
        /\ line <= Total + 1
    BY <1>v, <2>1
  <2>3. /\ Chunk(from, chunks[at].end) \in [start : 1..Total, end : 1..Total]
        /\ Within(Chunk(from, chunks[at].end), chunks[at])
    BY <1>t, <1>u, <2>1, <2>2 DEF Chunk, Within
  <2> QED BY <1>t, <2>1, <2>2, <2>3, CutAppend DEF PiecesInv
<1>4. CASE phase \in {"split", "pack", "done"} /\ UNCHANGED <<pieces, chunks>>
  BY <1>4 DEF PiecesInv, Cut
<1>5. CASE SplitCrashes
  BY <1>5 DEF SplitCrashes, Cut
<1>6. CASE phase = "crashed"
  BY <1>6 DEF Cut, Next, ScanDefinition, ScanOther, ScanEnd, ParseFails, CoverChunk, CoverEnd,
           SplitEnter, SplitLine, SplitCrashes, InChunk, SplitLeave, SplitEnd, Pack, PackEnd,
           Ended, vars
<1>7. phase \in {"scan", "cover", "split", "pack", "done", "crashed"}
  BY <1>t DEF TypeInv
<1> QED BY <1>1, <1>2, <1>3, <1>4, <1>5, <1>6, <1>7
        DEF Next, ScanDefinition, ScanOther, ScanEnd, ParseFails, CoverChunk, CoverEnd,
            SplitEnter, SplitEnd, Pack, PackEnd, Ended, vars

LEMMA PiecesInvHolds == Spec => []PiecesInv
<1>1. Init => InOrder(chunks) /\ Cut
  BY DEF Init, InOrder, Cut
<1>2. PiecesInv /\ ChunkingInv' /\ [Next]_vars => PiecesInv'
  <2>1. CASE UNCHANGED vars
    BY <2>1 DEF vars, PiecesInv, InOrder, Cut
  <2> QED BY <2>1, OrderStep, CutStep DEF PiecesInv
<1>3. ChunkingInv /\ InOrder(chunks) /\ Cut <=> PiecesInv
  BY DEF PiecesInv
<1> QED BY <1>1, <1>2, <1>3, ChunkingInvHolds, PTL DEF Spec

LEMMA MinOfOne ==
    ASSUME NEW n \in Nat
    PROVE  Min({n}) = n
<1>1. \A x \in {n} : x = n
  OBVIOUS
<1> QED BY <1>1 DEF Min

\* The rules a piece is reviewed with were retrieved for the chunk that all its
\* lines are from: the chunk is found by the piece's first line, of which there
\* is one, since chunks are in order (_index_of).
THEOREM PiecesAlwaysHaveTheirChunk == Spec => []PiecesHaveTheirChunk
<1>1. PiecesInv => PiecesHaveTheirChunk
  <2> SUFFICES ASSUME PiecesInv, phase \in {"pack", "done"}, NEW i \in DOMAIN pieces
               PROVE  LinesOf(pieces[i]) \subseteq LinesOf(chunks[IndexOf(pieces[i])])
    BY DEF PiecesHaveTheirChunk
  <2> DEFINE piece == pieces[i]
  <2>t. /\ Total \in Nat /\ Reach \in Nat /\ Len(chunks) \in Nat
        /\ DOMAIN chunks = 1..Len(chunks) /\ DOMAIN pieces = 1..Len(pieces)
    BY ReachIsNear, LenProperties DEF PiecesInv, ChunkingInv, TypeInv
  <2>1. PICK c \in 1..Len(chunks) : Within(piece, chunks[c])
    BY <2>t DEF PiecesInv, Cut
  <2>2. piece.start \in Nat /\ piece.end \in Nat
    <3>1. piece \in [start : 1..Total, end : 1..Total]
      BY <2>t, ElementOfSeq DEF PiecesInv, ChunkingInv, TypeInv
    <3> QED BY <2>t, <3>1
  <2>3. \A d \in 1..Len(chunks) : chunks[d].start \in Nat /\ chunks[d].end \in Nat
    <3>1. \A d \in 1..Len(chunks) : chunks[d] \in [start : 1..Reach, end : 1..Reach]
      BY <2>t, ElementOfSeq DEF PiecesInv, ChunkingInv, TypeInv
    <3> QED BY <2>t, <3>1
  <2> HIDE DEF piece
  <2>4. Holds(chunks[c], piece)
    BY <2>1, <2>2, <2>3 DEF Within, Holds
  <2>5. \A d \in 1..Len(chunks) : Holds(chunks[d], piece) => d = c
    <3> SUFFICES ASSUME NEW d \in 1..Len(chunks), Holds(chunks[d], piece), d # c PROVE FALSE
      OBVIOUS
    <3>1. /\ d < c => chunks[d].end < chunks[c].start
          /\ c < d => chunks[c].end < chunks[d].start
      BY DEF PiecesInv, InOrder
    <3>2. d < c \/ c < d
      BY <2>t
    <3> QED BY <2>2, <2>3, <2>4, <3>1, <3>2 DEF Holds
  <2>6. {d \in DOMAIN chunks : Holds(chunks[d], piece)} = {c}
    BY <2>t, <2>4, <2>5
  <2>7. IndexOf(piece) = c
    <3>1. \E d \in DOMAIN chunks : Holds(chunks[d], piece)
      BY <2>6
    <3>2. c \in Nat
      BY <2>t
    <3> QED BY <2>6, <3>1, <3>2, MinOfOne DEF IndexOf
  <2>8. LinesOf(piece) \subseteq LinesOf(chunks[c])
    BY <2>1, <2>2, <2>3 DEF Within, LinesOf
  <2> QED BY <2>7, <2>8 DEF piece
<1> QED BY <1>1, PiecesInvHolds, PTL

-----------------------------------------------------------------------------
(* Definitions *)

\* A definition that shares no line with one before it.
Apart(i) ==
    /\ parse[i].defines
    /\ \A j \in 1..i - 1 : parse[j].defines => parse[j].end < parse[i].start

Own(i) == Chunk(parse[i].start, parse[i].end)

\* Its chunk is among those _cover has yet to see.  Those before it end before
\* it, and none after it starts before it.
IsAt(i, k, some) ==
    /\ some[k] = Own(i)
    /\ \A j \in 1..k - 1 : some[j].end < parse[i].start
    /\ \A j \in k + 1..Len(some) : parse[i].start <= some[j].start

AtHand(i, some) == \E k \in 1..Len(some) : IsAt(i, k, some)

Has(seq, c) == \E k \in 1..Len(seq) : seq[k] = c

Taken(i) == Has(chunks, Own(i))

ParseInOrder ==
    \A i \in 1..Len(parse) :
        /\ parse[i].start <= parse[i].end
        /\ i > 1 => parse[i - 1].end <= parse[i].start

\* What has been found so far is from the nodes so far.
FoundSoFar(some) ==
    \A k \in 1..Len(some) : \E i \in 1..at - 1 :
        \/ parse[i].defines /\ some[k].end = parse[i].end
        \/ some[k].end < parse[i].start

Scanned ==
    phase = "scan" =>
        /\ at <= Len(parse) + 1
        /\ at <= Len(parse) => \A i \in 1..at - 1 : parse[i].end <= parse[at].start
        /\ gap # 0 => \A i \in 1..at - 1 : parse[i].defines => parse[i].end <= gap
        /\ FoundSoFar(found)
        /\ \A i \in 1..at - 1 : Apart(i) => AtHand(i, found)

NotPassed ==
    phase = "cover" =>
        \A i \in 1..Len(parse) :
            Apart(i) => Taken(i) \/ (AtHand(i, found) /\ cursor <= parse[i].start)

AllTaken ==
    phase \in {"split", "pack", "done"} /\ cursor > 1 =>
        \A i \in 1..Len(parse) : Apart(i) => Taken(i)

DefinitionsInv == ParseInOrder /\ Scanned /\ NotPassed /\ AllTaken

\* A chunk that starts no earlier does not displace it.
LEMMA AtHandAppend ==
    ASSUME NEW S, NEW some \in Seq(S), NEW c \in S, NEW i,
           AtHand(i, some), parse[i].start <= c.start
    PROVE  AtHand(i, Append(some, c))
<1>1. /\ Len(Append(some, c)) = Len(some) + 1 /\ Len(some) \in Nat
      /\ \A k \in 1..Len(some) : Append(some, c)[k] = some[k]
      /\ Append(some, c)[Len(some) + 1] = c
  BY AppendProperties, LenProperties
<1>2. PICK k \in 1..Len(some) : IsAt(i, k, some)
  BY DEF AtHand
<1> DEFINE more == Append(some, c)
<1> HIDE DEF more
<1>3. more[k] = Own(i) /\ k \in 1..Len(more)
  BY <1>1, <1>2 DEF more, IsAt
<1>4. \A j \in 1..k - 1 : more[j].end < parse[i].start
  <2>1. \A j \in 1..k - 1 : j \in 1..Len(some)
    BY <1>1
  <2> QED BY <1>1, <1>2, <2>1 DEF more, IsAt
<1>5. \A j \in k + 1..Len(more) : parse[i].start <= more[j].start
  <2>1. \A j \in k + 1..Len(more) :
            j = Len(some) + 1 \/ (j \in 1..Len(some) /\ j \in k + 1..Len(some))
    BY <1>1 DEF more
  <2> QED BY <1>1, <1>2, <2>1 DEF more, IsAt
<1> QED BY <1>3, <1>4, <1>5 DEF AtHand, IsAt, more

\* A chunk behind those that end before it is found.
LEMMA AtHandNew ==
    ASSUME NEW S, NEW some \in Seq(S), NEW i, Own(i) \in S,
           \A k \in 1..Len(some) : some[k].end < parse[i].start
    PROVE  AtHand(i, Append(some, Own(i)))
<1> DEFINE c == Own(i)
           more == Append(some, c)
           k == Len(some) + 1
<1> HIDE DEF c
<1>1. /\ Len(more) = k /\ Len(some) \in Nat
      /\ \A j \in 1..Len(some) : more[j] = some[j]
      /\ more[k] = c
  BY AppendProperties, LenProperties DEF c
<1>2. k \in 1..Len(more) /\ 1..k - 1 = 1..Len(some) /\ k + 1..Len(more) = {}
  BY <1>1
<1> HIDE DEF more, k
<1>3. IsAt(i, k, more)
  BY <1>1, <1>2 DEF IsAt, c
<1> QED BY <1>2, <1>3 DEF AtHand, more, c

LEMMA NodeTypes ==
    ASSUME TypeInv
    PROVE  /\ Total \in Nat /\ Reach \in Nat /\ Len(parse) \in Nat /\ at \in Nat \ {0}
           /\ gap \in 0..Total
           /\ \A i \in 1..Len(parse) : parse[i].start \in 1..Total /\ parse[i].end \in 1..Reach
  BY NodeInFile, ReachIsNear, LenProperties DEF TypeInv

\* The next node starts where the last one ends or later.
LEMMA NextNode ==
    ASSUME TypeInv, ParseInOrder, Scanned, phase = "scan", at <= Len(parse)
    PROVE  at + 1 <= Len(parse) => \A i \in 1..at : parse[i].end <= parse[at + 1].start
<1> SUFFICES ASSUME at + 1 <= Len(parse), NEW i \in 1..at
             PROVE  parse[i].end <= parse[at + 1].start
  OBVIOUS
<1>0. at \in 1..Len(parse) /\ at + 1 \in 1..Len(parse) /\ (at + 1) - 1 = at /\ i \in 1..Len(parse)
  BY NodeTypes
<1>1. parse[at].end <= parse[at + 1].start
  BY <1>0 DEF ParseInOrder
<1>2. parse[at].start <= parse[at].end
  BY <1>0 DEF ParseInOrder
<1>3. i = at \/ parse[i].end <= parse[at].start
  BY <1>0 DEF Scanned
<1>4. /\ parse[i].end \in Nat /\ parse[at].start \in Nat /\ parse[at].end \in Nat
      /\ parse[at + 1].start \in Nat
  BY <1>0, NodeTypes
<1> QED BY <1>1, <1>2, <1>3, <1>4

LEMMA ScanDefinitionKeeps ==
    ASSUME TypeInv, DefinitionsInv, ScanDefinition
    PROVE  DefinitionsInv'
<1> DEFINE Interval == [start : 1..Total, end : 1..Reach]
           node == parse[at]
           between == Chunk(gap, node.start - 1)
           before == IF gap # 0 /\ gap < node.start THEN Append(found, between) ELSE found
<1>t. /\ Total \in Nat /\ Reach \in Nat /\ Total <= Reach /\ Len(parse) \in Nat
      /\ at \in 1..Len(parse)
      /\ \A i \in 1..Len(parse) : parse[i].start \in 1..Total /\ parse[i].end \in 1..Reach
      /\ found \in Seq(Interval)
  BY NodeTypes, ReachIsNear DEF ScanDefinition, TypeInv
<1>s. /\ phase = "scan" /\ phase' = "scan" /\ parse' = parse /\ at' = at + 1 /\ gap' = 0
      /\ found' = Append(before, Chunk(node.start, node.end)) /\ node.defines
  BY DEF ScanDefinition
<1>i. /\ ParseInOrder /\ at <= Len(parse)
      /\ \A i \in 1..at - 1 : parse[i].end <= node.start
      /\ gap # 0 => \A i \in 1..at - 1 : parse[i].defines => parse[i].end <= gap
      /\ FoundSoFar(found)
      /\ \A i \in 1..at - 1 : Apart(i) => AtHand(i, found)
  BY <1>s, <1>t DEF DefinitionsInv, Scanned
<1>o. node.start \in 1..Total /\ node.end \in 1..Reach /\ Own(at) = Chunk(node.start, node.end)
  BY <1>t DEF Own
<1>b. gap # 0 /\ gap < node.start =>
        between \in Interval /\ between.start = gap /\ between.end = node.start - 1
  <2>1. gap \in 0..Total
    BY NodeTypes
  <2> HIDE DEF node
  <2> QED BY <1>t, <1>o, <2>1 DEF Chunk
<1> HIDE DEF between
<1>1. /\ before \in Seq(Interval)
      /\ \A k \in 1..Len(before) :
            \/ (before[k] = between /\ gap # 0 /\ gap < node.start)
            \/ (k \in 1..Len(found) /\ before[k] = found[k])
  <2>1. CASE gap # 0 /\ gap < node.start
    <3>1. /\ Append(found, between) \in Seq(Interval) /\ Len(found) \in Nat
          /\ Len(Append(found, between)) = Len(found) + 1
          /\ \A k \in 1..Len(found) : Append(found, between)[k] = found[k]
          /\ Append(found, between)[Len(found) + 1] = between
      BY <1>b, <1>t, <2>1, AppendProperties, LenProperties
    <3> HIDE DEF node
    <3> QED BY <2>1, <3>1
  <2>2. CASE ~(gap # 0 /\ gap < node.start)
    BY <1>t, <2>2
  <2> QED BY <2>1, <2>2
<1>2. \A i \in 1..at - 1 : Apart(i) => AtHand(i, before)
  <2> SUFFICES ASSUME NEW i \in 1..at - 1, Apart(i) PROVE AtHand(i, before)
    OBVIOUS
  <2>1. AtHand(i, found)
    BY <1>i
  <2>2. CASE gap # 0 /\ gap < node.start
    <3>1. parse[i].end <= gap /\ i \in 1..Len(parse)
      BY <1>i, <1>t, <2>2 DEF Apart
    <3>2. parse[i].start <= parse[i].end
      BY <3>1 DEF DefinitionsInv, ParseInOrder
    <3>3. parse[i].start \in Nat /\ parse[i].end \in Nat /\ gap \in Nat
      BY <1>t, <3>1, NodeTypes
    <3>4. parse[i].start <= between.start
      <4>1. parse[i].start <= gap
        BY <3>1, <3>2, <3>3
      <4> QED BY <1>b, <2>2, <4>1
    <3> HIDE DEF Interval
    <3> QED BY <1>b, <1>t, <2>1, <2>2, <3>4, AtHandAppend
  <2>3. CASE ~(gap # 0 /\ gap < node.start)
    BY <2>1, <2>3
  <2> QED BY <2>2, <2>3
<1> HIDE DEF before
<1>3. \A i \in 1..at - 1 : Apart(i) => AtHand(i, Append(before, Own(at)))
  <2> SUFFICES ASSUME NEW i \in 1..at - 1, Apart(i)
               PROVE  AtHand(i, Append(before, Own(at)))
    OBVIOUS
  <2>1. i \in 1..Len(parse) /\ parse[i].start <= parse[i].end /\ parse[i].end <= node.start
    <3>1. i \in 1..Len(parse)
      BY <1>t
    <3> QED BY <1>i, <3>1 DEF ParseInOrder
  <2>2. parse[i].start <= Own(at).start /\ Own(at) \in Interval
    <3>1. parse[i].start \in Nat /\ parse[i].end \in Nat /\ node.start \in Nat
      BY <1>o, <1>t, <2>1
    <3>2. parse[i].start <= node.start
      <4> HIDE DEF node
      <4> QED BY <2>1, <3>1
    <3> QED BY <1>o, <3>2 DEF Chunk
  <2> HIDE DEF Interval
  <2> QED BY <1>1, <1>2, <2>2, AtHandAppend
<1>4. Apart(at) => AtHand(at, Append(before, Own(at)))
  <2> SUFFICES ASSUME Apart(at) PROVE AtHand(at, Append(before, Own(at)))
    OBVIOUS
  <2>1. \A k \in 1..Len(found) : found[k].end < node.start
    <3> SUFFICES ASSUME NEW k \in 1..Len(found) PROVE found[k].end < node.start
      OBVIOUS
    <3>1. PICK i \in 1..at - 1 : \/ parse[i].defines /\ found[k].end = parse[i].end
                                 \/ found[k].end < parse[i].start
      BY <1>i DEF FoundSoFar
    <3>2. CASE parse[i].defines /\ found[k].end = parse[i].end
      BY <3>2 DEF Apart
    <3>3. CASE found[k].end < parse[i].start
      <4>1. i \in 1..Len(parse) /\ parse[i].end <= node.start
        BY <1>t, <1>i
      <4>2. parse[i].start <= parse[i].end /\ parse[i].start \in Nat /\ parse[i].end \in Nat
        <5>1. parse[i].start \in 1..Total /\ parse[i].end \in 1..Reach
          BY <1>t, <4>1
        <5>2. parse[i].start <= parse[i].end
          BY <1>i, <4>1 DEF ParseInOrder
        <5>3. Total \in Nat /\ Reach \in Nat
          BY <1>t
        <5> QED BY <5>1, <5>2, <5>3
      <4>3. found[k].end \in Nat /\ node.start \in Nat
        <5>1. found[k] \in Interval
          BY <1>t, ElementOfSeq
        <5>2. found[k].end \in 1..Reach
          BY <5>1
        <5>3. node.start \in 1..Total /\ Total \in Nat /\ Reach \in Nat
          BY <1>o, <1>t
        <5> HIDE DEF node
        <5> QED BY <5>2, <5>3
      <4> HIDE DEF node
      <4> QED BY <3>3, <4>1, <4>2, <4>3
    <3> QED BY <3>1, <3>2, <3>3
  <2>2. \A k \in 1..Len(before) : before[k].end < node.start
    <3>1. gap # 0 /\ gap < node.start => between.end < node.start
      <4> HIDE DEF node
      <4> QED BY <1>b, <1>o, <1>t
    <3> QED BY <1>1, <2>1, <3>1
  <2>3. Own(at) \in Interval
    BY <1>o DEF Chunk
  <2> HIDE DEF Interval
  <2> QED BY <1>1, <2>2, <2>3, AtHandNew
<1>5. FoundSoFar(found)'
  <2>1. /\ Len(found') = Len(before) + 1 /\ Len(before) \in Nat
        /\ \A k \in 1..Len(before) : found'[k] = before[k]
        /\ found'[Len(before) + 1] = Own(at)
    <3>1. Own(at) \in Interval
      BY <1>o DEF Chunk
    <3> HIDE DEF Interval
    <3> QED BY <1>1, <1>o, <1>s, <3>1, AppendProperties, LenProperties
  <2>2. at \in 1..at' - 1 /\ \A i \in 1..at - 1 : i \in 1..at' - 1
    BY <1>s, <1>t
  <2> SUFFICES ASSUME NEW k \in 1..Len(found')
               PROVE  \E i \in 1..at' - 1 : \/ parse[i].defines /\ found'[k].end = parse[i].end
                                            \/ found'[k].end < parse[i].start
    BY <1>s DEF FoundSoFar
  <2>3. CASE k = Len(before) + 1
    <3>1. found'[k].end = parse[at].end /\ parse[at].defines
      BY <1>o, <1>s, <2>1, <2>3 DEF Chunk
    <3> QED BY <2>2, <3>1
  <2>4. CASE k \in 1..Len(before)
    <3>1. found'[k] = before[k]
      BY <2>1, <2>4
    <3>2. CASE before[k] = between /\ gap # 0 /\ gap < node.start
      <4>1. before[k].end < parse[at].start
        <5>1. between.end = node.start - 1 /\ node.start \in Nat
          BY <1>b, <1>o, <3>2
        <5>2. between.end < node.start
          <6> HIDE DEF node
          <6> QED BY <5>1
        <5> QED BY <3>2, <5>2
      <4> QED BY <2>2, <3>1, <4>1
    <3>3. CASE k \in 1..Len(found) /\ before[k] = found[k]
      <4>1. PICK i \in 1..at - 1 : \/ parse[i].defines /\ found[k].end = parse[i].end
                                   \/ found[k].end < parse[i].start
        BY <1>i, <3>3 DEF FoundSoFar
      <4> QED BY <2>2, <3>1, <3>3, <4>1
    <3> QED BY <1>1, <2>4, <3>2, <3>3
  <2> QED BY <2>1, <2>3, <2>4
<1>6. \A i \in 1..at : Apart(i) => AtHand(i, found')
  <2>1. \A i \in 1..at : i = at \/ i \in 1..at - 1
    BY <1>t
  <2> QED BY <1>3, <1>4, <1>o, <1>s, <2>1
<1>7. /\ (\A i : Apart(i)' <=> Apart(i)) /\ at' - 1 = at /\ ParseInOrder'
      /\ \A i : AtHand(i, found)' <=> AtHand(i, found')
  BY <1>i, <1>s, <1>t DEF Apart, AtHand, IsAt, Own, Chunk, ParseInOrder
<1>8. at' <= Len(parse') => \A i \in 1..at' - 1 : parse'[i].end <= parse'[at'].start
  <2>1. at + 1 <= Len(parse) => \A i \in 1..at : parse[i].end <= parse[at + 1].start
    BY <1>i, <1>s, NextNode DEF DefinitionsInv
  <2> QED BY <1>7, <1>s, <2>1
<1>9. Scanned'
  BY <1>5, <1>6, <1>7, <1>8, <1>s, <1>t DEF Scanned
<1> QED BY <1>7, <1>9, <1>s DEF DefinitionsInv, NotPassed, AllTaken

LEMMA ScanOtherKeeps ==
    ASSUME TypeInv, DefinitionsInv, ScanOther
    PROVE  DefinitionsInv'
<1>s. /\ phase = "scan" /\ phase' = "scan" /\ UNCHANGED <<parse, found>> /\ at' = at + 1
      /\ ~parse[at].defines /\ gap' = IF gap = 0 THEN parse[at].start ELSE gap
      /\ at <= Len(parse)
  BY DEF ScanOther
<1>t. at \in 1..Len(parse) /\ Len(parse) \in Nat /\ at' - 1 = at
  BY <1>s, NodeTypes
<1>i. /\ ParseInOrder
      /\ \A i \in 1..at - 1 : parse[i].end <= parse[at].start
      /\ gap # 0 => \A i \in 1..at - 1 : parse[i].defines => parse[i].end <= gap
      /\ FoundSoFar(found)
      /\ \A i \in 1..at - 1 : Apart(i) => AtHand(i, found)
  BY <1>s DEF DefinitionsInv, Scanned
<1>1. \A i \in 1..at : i = at \/ i \in 1..at - 1
  BY <1>t
<1>2. \A i \in 1..at : parse[i].defines => parse[i].end <= gap'
  <2>1. CASE gap = 0
    BY <1>1, <1>i, <1>s, <2>1
  <2>2. CASE gap # 0
    BY <1>1, <1>i, <1>s, <2>2
  <2> QED BY <2>1, <2>2
<1>3. FoundSoFar(found)'
  <2>1. \A i \in 1..at - 1 : i \in 1..at' - 1
    BY <1>t
  <2> SUFFICES ASSUME NEW k \in 1..Len(found)
               PROVE  \E i \in 1..at' - 1 : \/ parse[i].defines /\ found[k].end = parse[i].end
                                            \/ found[k].end < parse[i].start
    BY <1>s DEF FoundSoFar
  <2> QED BY <1>i, <2>1 DEF FoundSoFar
<1>4. \A i \in 1..at : Apart(i) => AtHand(i, found)
  BY <1>1, <1>i, <1>s DEF Apart
<1>5. /\ (\A i : Apart(i)' <=> Apart(i)) /\ ParseInOrder'
      /\ \A i : AtHand(i, found)' <=> AtHand(i, found)
  BY <1>i, <1>s DEF Apart, AtHand, IsAt, Own, Chunk, ParseInOrder
<1>6. at' <= Len(parse') => \A i \in 1..at' - 1 : parse'[i].end <= parse'[at'].start
  <2>1. at + 1 <= Len(parse) => \A i \in 1..at : parse[i].end <= parse[at + 1].start
    BY <1>i, <1>s, NextNode DEF DefinitionsInv
  <2> QED BY <1>s, <1>t, <2>1
<1>7. Scanned'
  BY <1>2, <1>3, <1>4, <1>5, <1>6, <1>s, <1>t DEF Scanned
<1> QED BY <1>5, <1>7, <1>s DEF DefinitionsInv, NotPassed, AllTaken

LEMMA ScanEndKeeps ==
    ASSUME TypeInv, DefinitionsInv, phase = "scan" => cursor = 1, ScanEnd
    PROVE  DefinitionsInv'
<1> DEFINE Interval == [start : 1..Total, end : 1..Reach]
           rest == Chunk(gap, Total)
<1>s. /\ phase = "scan" /\ phase' = "cover" /\ UNCHANGED <<parse, cursor, chunks>> /\ cursor = 1
      /\ at > Len(parse)
      /\ found' = IF gap # 0 THEN Append(found, rest) ELSE found
  BY DEF ScanEnd
<1>t. /\ Total \in Nat /\ Reach \in Nat /\ Total <= Reach /\ Len(parse) \in Nat
      /\ at \in Nat /\ gap \in 0..Total /\ found \in Seq(Interval)
      /\ \A i \in 1..Len(parse) : parse[i].start \in 1..Total /\ parse[i].end \in 1..Reach
  BY NodeTypes, ReachIsNear DEF TypeInv
<1>1. at - 1 = Len(parse)
  BY <1>s, <1>t DEF DefinitionsInv, Scanned
<1>2. \A i \in 1..Len(parse) : Apart(i) => AtHand(i, found')
  <2> SUFFICES ASSUME NEW i \in 1..Len(parse), Apart(i) PROVE AtHand(i, found')
    OBVIOUS
  <2>1. AtHand(i, found)
    BY <1>1, <1>s DEF DefinitionsInv, Scanned
  <2>2. CASE gap # 0
    <3>1. parse[i].end <= gap /\ parse[i].start <= parse[i].end
      BY <1>1, <1>s, <2>2 DEF DefinitionsInv, Scanned, ParseInOrder, Apart
    <3>2. rest \in Interval /\ parse[i].start <= rest.start
      BY <1>t, <2>2, <3>1 DEF Chunk
    <3> HIDE DEF Interval, rest
    <3> QED BY <1>s, <1>t, <2>1, <2>2, <3>2, AtHandAppend
  <2>3. CASE gap = 0
    BY <1>s, <2>1, <2>3
  <2> QED BY <2>2, <2>3
<1>3. /\ (\A i : Apart(i)' <=> Apart(i)) /\ (ParseInOrder => ParseInOrder')
      /\ \A i : AtHand(i, found)' <=> AtHand(i, found')
  BY <1>s DEF Apart, AtHand, IsAt, Own, Chunk, ParseInOrder
<1>4. NotPassed'
  <2>1. \A i \in 1..Len(parse) : cursor <= parse[i].start
    BY <1>s, <1>t
  <2> QED BY <1>2, <1>3, <1>s, <2>1 DEF NotPassed
<1> QED BY <1>3, <1>4, <1>s DEF DefinitionsInv, Scanned, AllTaken


\* Taking one chunk out leaves the others in their order.
LEMMA WithoutKeeps ==
    ASSUME NEW S, NEW some \in Seq(S), NEW m \in 1..Len(some)
    PROVE  /\ Len(Without(some, m)) = Len(some) - 1
           /\ \A j \in 1..Len(some) - 1 :
                Without(some, m)[j] = IF j < m THEN some[j] ELSE some[j + 1]
<1> DEFINE len == Len(some)
           left == SubSeq(some, 1, m - 1)
           right == SubSeq(some, m + 1, len)
<1>1. len \in Nat /\ m \in 1..len
  BY LenProperties
<1>2. \A i \in 1..len : some[i] \in S
  BY ElementOfSeq
<1> HIDE DEF len
<1>3. (\A i \in 1..m - 1 : i \in 1..len) /\ (\A i \in m + 1..len : i \in 1..len)
  BY <1>1
<1>4. /\ left \in Seq(S) /\ Len(left) = m - 1
      /\ \A i \in 1..m - 1 : left[i] = some[i]
  <2>1. /\ left \in Seq(S) /\ Len(left) = IF 1 <= m - 1 THEN (m - 1) - 1 + 1 ELSE 0
        /\ \A i \in 1..(m - 1) - 1 + 1 : left[i] = some[1 + i - 1]
    BY <1>1, <1>2, <1>3, SubSeqProperties
  <2>2. (m - 1) - 1 + 1 = m - 1 /\ \A i \in 1..m - 1 : 1 + i - 1 = i
    BY <1>1
  <2> HIDE DEF left
  <2> QED BY <1>1, <2>1, <2>2
<1>5. /\ right \in Seq(S) /\ Len(right) = len - m
      /\ \A i \in 1..len - m : right[i] = some[m + i]
  <2>1. /\ right \in Seq(S) /\ Len(right) = IF m + 1 <= len THEN len - (m + 1) + 1 ELSE 0
        /\ \A i \in 1..len - (m + 1) + 1 : right[i] = some[(m + 1) + i - 1]
    BY <1>1, <1>2, <1>3, SubSeqProperties
  <2>2. len - (m + 1) + 1 = len - m /\ \A i \in 1..len - m : (m + 1) + i - 1 = m + i
    BY <1>1
  <2> HIDE DEF right
  <2> QED BY <1>1, <2>1, <2>2
<1>6. Without(some, m) = left \o right
  BY DEF Without, len
<1> HIDE DEF left, right
<1>7. /\ Len(left \o right) = (m - 1) + (len - m)
      /\ \A j \in 1..(m - 1) + (len - m) :
            (left \o right)[j] = IF j <= m - 1 THEN left[j] ELSE right[j - (m - 1)]
  <2>1. /\ Len(left \o right) = Len(left) + Len(right)
        /\ \A j \in 1..Len(left) + Len(right) :
              (left \o right)[j] = IF j <= Len(left) THEN left[j] ELSE right[j - Len(left)]
    BY <1>4, <1>5, ConcatProperties
  <2>2. Len(left) = m - 1 /\ Len(right) = len - m
    BY <1>4, <1>5
  <2> QED BY <2>1, <2>2
<1>8. (m - 1) + (len - m) = len - 1
  BY <1>1
<1>9. ASSUME NEW j \in 1..len - 1
      PROVE  (left \o right)[j] = IF j < m THEN some[j] ELSE some[j + 1]
  <2>1. CASE j < m
    <3>1. j \in 1..m - 1 /\ j <= m - 1
      BY <1>1, <2>1
    <3> QED BY <1>4, <1>7, <1>8, <2>1, <3>1
  <2>2. CASE ~(j < m)
    <3>1. j - (m - 1) \in 1..len - m /\ m + (j - (m - 1)) = j + 1 /\ ~(j <= m - 1)
      BY <1>1, <2>2
    <3> QED BY <1>5, <1>7, <1>8, <2>2, <3>1
  <2> QED BY <2>1, <2>2
<1> QED BY <1>6, <1>7, <1>8, <1>9 DEF len

\* Covering another chunk first passes no definition.
LEMMA AtHandWithout ==
    ASSUME NEW S, NEW some \in Seq(S), NEW m \in 1..Len(some), NEW i,
           NEW k \in 1..Len(some), IsAt(i, k, some), m < k
    PROVE  AtHand(i, Without(some, m))
<1>1. /\ Len(Without(some, m)) = Len(some) - 1 /\ Len(some) \in Nat
      /\ \A j \in 1..Len(some) - 1 :
            Without(some, m)[j] = IF j < m THEN some[j] ELSE some[j + 1]
  BY WithoutKeeps, LenProperties
<1> DEFINE less == Without(some, m)
           n == k - 1
<1> HIDE DEF less
<1>2. n \in 1..Len(less) /\ n + 1 = k /\ ~(n < m)
  BY <1>1 DEF less
<1>3. less[n] = Own(i)
  BY <1>1, <1>2 DEF less, IsAt
<1>4. \A j \in 1..n - 1 : less[j].end < parse[i].start
  <2> SUFFICES ASSUME NEW j \in 1..n - 1 PROVE less[j].end < parse[i].start
    OBVIOUS
  <2>1. j \in 1..Len(some) - 1 /\ j \in 1..k - 1 /\ j + 1 \in 1..k - 1
    BY <1>1, <1>2 DEF less
  <2>2. less[j] = some[j] \/ less[j] = some[j + 1]
    BY <1>1, <2>1 DEF less
  <2> QED BY <2>1, <2>2 DEF IsAt
<1>5. \A j \in n + 1..Len(less) : parse[i].start <= less[j].start
  <2> SUFFICES ASSUME NEW j \in n + 1..Len(less) PROVE parse[i].start <= less[j].start
    OBVIOUS
  <2>1. j \in 1..Len(some) - 1 /\ ~(j < m) /\ j + 1 \in k + 1..Len(some)
    BY <1>1, <1>2 DEF less
  <2>2. less[j] = some[j + 1]
    BY <1>1, <2>1 DEF less
  <2> QED BY <2>1, <2>2 DEF IsAt
<1> HIDE DEF n
<1>6. IsAt(i, n, less)
  BY <1>3, <1>4, <1>5 DEF IsAt
<1> QED BY <1>2, <1>6 DEF AtHand, less

LEMMA TakenStays ==
    ASSUME ChunkingInv, Next, parse' = parse, NEW i, Taken(i)
    PROVE  Taken(i)'
<1>1. Extends(chunks', chunks)
  BY ChunksGrow
<1>2. PICK c \in 1..Len(chunks) : chunks[c] = Own(i)
  BY DEF Taken, Has
<1>3. Len(chunks) \in Nat /\ Len(chunks') \in Nat
  <2>1. TypeInv /\ TypeInv'
    BY ChunkingStep DEF ChunkingInv
  <2> QED BY <2>1, LenProperties DEF TypeInv
<1>4. c \in 1..Len(chunks') /\ chunks'[c] = Own(i)
  BY <1>1, <1>2, <1>3 DEF Extends
<1>5. Own(i)' = Own(i)
  BY DEF Own, Chunk
<1> QED BY <1>4, <1>5 DEF Taken, Has

LEMMA AppendTakes ==
    ASSUME NEW S, NEW seq \in Seq(S), NEW b, NEW c
    PROVE  Has(Append(seq, c), c) /\ Has(Append(Append(seq, b), c), c)
<1> DEFINE T == S \union {b, c}
<1>1. seq \in Seq(T) /\ b \in T /\ c \in T
  BY SeqMonotonic
<1> HIDE DEF T
<1>2. \A s \in Seq(T) : Has(Append(s, c), c)
  <2> SUFFICES ASSUME NEW s \in Seq(T)
               PROVE  Has(Append(s, c), c)
    OBVIOUS
  <2>1. Len(Append(s, c)) = Len(s) + 1 /\ Append(s, c)[Len(s) + 1] = c /\ Len(s) \in Nat
    BY <1>1, AppendProperties, LenProperties
  <2>2. Len(s) + 1 \in 1..Len(Append(s, c))
    BY <2>1
  <2> QED BY <2>1, <2>2 DEF Has
<1>3. Append(seq, b) \in Seq(T)
  BY <1>1, AppendProperties
<1> QED BY <1>1, <1>2, <1>3

LEMMA CoverChunkKeeps ==
    ASSUME ChunkingInv, DefinitionsInv, NEW m \in DOMAIN found, CoverChunk(m)
    PROVE  DefinitionsInv'
<1> DEFINE Interval == [start : 1..Total, end : 1..Reach]
           start == Max({found[m].start, cursor})
           end == found[m].end
<1>s. /\ phase = "cover" /\ phase' = "cover" /\ parse' = parse /\ found' = Without(found, m)
      /\ IsNext(m)
      /\ IF start > end THEN UNCHANGED <<chunks, cursor>>
         ELSE /\ cursor' = end + 1
              /\ \/ chunks' = Append(chunks, Chunk(start, end))
                 \/ chunks' = Append(Append(chunks, Chunk(cursor, start - 1)),
                                     Chunk(start, end))
  BY DEF CoverChunk
<1>t. /\ Total \in Nat /\ Reach \in Nat /\ Len(parse) \in Nat /\ Len(found) \in Nat
      /\ m \in 1..Len(found) /\ DOMAIN found = 1..Len(found)
      /\ found \in Seq(Interval) /\ cursor \in Nat
      /\ \A i \in 1..Len(parse) : parse[i].start \in 1..Total /\ parse[i].end \in 1..Reach
  <2>1. TypeInv
    BY DEF ChunkingInv
  <2> QED BY SMTT(30), <2>1, NodeTypes, LenProperties DEF TypeInv
<1>f. \A k \in 1..Len(found) : found[k].start \in Nat /\ found[k].end \in Nat
  <2>1. \A k \in 1..Len(found) : found[k] \in Interval
    BY <1>t, ElementOfSeq
  <2>2. \A k \in 1..Len(found) : found[k].start \in 1..Total /\ found[k].end \in 1..Reach
    BY <2>1
  <2> QED BY <1>t, <2>2
<1>g. start = IF found[m].start >= cursor THEN found[m].start ELSE cursor
  BY <1>f, <1>t, MaxOfTwo
<1> HIDE DEF start
<1>1. ASSUME NEW i \in 1..Len(parse), Apart(i)
      PROVE  Taken(i)' \/ (AtHand(i, found') /\ cursor' <= parse[i].start)
  <2>1. CASE Taken(i)
    BY <1>s, <2>1, TakenStays DEF Next
  <2>2. CASE ~Taken(i)
    <3>1. AtHand(i, found) /\ cursor <= parse[i].start
      BY <1>1, <1>s, <2>2 DEF DefinitionsInv, NotPassed
    <3>2. PICK k \in 1..Len(found) : IsAt(i, k, found)
      BY <3>1 DEF AtHand
    <3>3. found[k].start = parse[i].start /\ found[k].end = parse[i].end
      BY <3>2 DEF IsAt, Own, Chunk
    <3>4. parse[i].start <= parse[i].end /\ parse[i].start \in Nat /\ parse[i].end \in Nat
      <4>1. parse[i].start <= parse[i].end
        BY DEF DefinitionsInv, ParseInOrder
      <4>2. parse[i].start \in 1..Total /\ parse[i].end \in 1..Reach
        BY <1>t
      <4>3. Total \in Nat /\ Reach \in Nat
        BY <1>t
      <4> QED BY <4>1, <4>2, <4>3
    <3>5. CASE m = k
      <4>1. start = parse[i].start /\ end = parse[i].end
        BY <1>g, <1>t, <3>1, <3>3, <3>4, <3>5
      <4>2. ~(start > end) /\ Chunk(start, end) = Own(i)
        BY <3>4, <4>1 DEF Own
      <4>3. chunks \in Seq([start : 1..Reach, end : 1..Reach])
        BY DEF ChunkingInv, TypeInv
      <4>4. Has(chunks', Own(i))
        <5>1. \/ chunks' = Append(chunks, Own(i))
              \/ chunks' = Append(Append(chunks, Chunk(cursor, start - 1)), Own(i))
          BY <1>s, <4>2
        <5>2. CASE chunks' = Append(chunks, Own(i))
          BY <4>3, <5>2, AppendTakes
        <5>3. CASE chunks' = Append(Append(chunks, Chunk(cursor, start - 1)), Own(i))
          BY <4>3, <5>3, AppendTakes
        <5> QED BY <5>1, <5>2, <5>3
      <4>5. Own(i)' = Own(i)
        BY <1>s DEF Own, Chunk
      <4> QED BY <4>4, <4>5 DEF Taken
    <3>6. CASE m < k
      <4>1. AtHand(i, found')
        <5> HIDE DEF Interval
        <5> QED BY <1>s, <1>t, <3>2, <3>6, AtHandWithout
      <4>2. end < parse[i].start
        <5>1. m \in 1..k - 1
          BY <1>t, <3>6
        <5> QED BY <3>2, <5>1 DEF IsAt
      <4>3. cursor' <= parse[i].start
        <5>1. end \in Nat
          BY <1>f, <1>t
        <5>2. cursor' = cursor \/ cursor' = end + 1
          BY <1>s
        <5> HIDE DEF end
        <5> QED BY <3>1, <3>4, <4>2, <5>1, <5>2
      <4> QED BY <4>1, <4>3
    <3>7. CASE k < m
      <4>1. found[m].start < found[k].start
        BY <1>s, <1>t, <3>7 DEF IsNext
      <4>2. found[k].start <= found[m].start
        <5>1. m \in k + 1..Len(found)
          BY <1>t, <3>7
        <5> QED BY <3>2, <3>3, <5>1 DEF IsAt
      <4> QED BY SMTT(30), <1>f, <1>t, <4>1, <4>2
    <3> QED BY <1>t, <3>5, <3>6, <3>7
  <2> QED BY <2>1, <2>2
<1>2. /\ (\A i : Apart(i)' <=> Apart(i)) /\ ParseInOrder'
      /\ \A i : AtHand(i, found)' <=> AtHand(i, found')
  BY <1>s DEF DefinitionsInv, Apart, AtHand, IsAt, Own, Chunk, ParseInOrder
<1>3. NotPassed'
  BY <1>1, <1>2, <1>s DEF NotPassed
<1> QED BY <1>2, <1>3, <1>s DEF DefinitionsInv, Scanned, AllTaken

LEMMA DefinitionsStep ==
    ASSUME ChunkingInv, DefinitionsInv, Next
    PROVE  DefinitionsInv'
<1>t. TypeInv /\ (phase = "scan" => cursor = 1)
  BY DEF ChunkingInv, InBounds
<1>1. CASE ScanDefinition
  BY <1>1, <1>t, ScanDefinitionKeeps
<1>2. CASE ScanOther
  BY <1>2, <1>t, ScanOtherKeeps
<1>3. CASE ScanEnd
  BY <1>3, <1>t, ScanEndKeeps
<1>4. CASE ParseFails
  <2>1. parse' = parse /\ phase' = "split" /\ cursor' = 1
    BY <1>4, <1>t DEF ParseFails
  <2> QED BY <2>1 DEF DefinitionsInv, ParseInOrder, Scanned, NotPassed, AllTaken
<1>5. CASE \E m \in DOMAIN found : CoverChunk(m)
  BY <1>5, CoverChunkKeeps
<1>6. CASE CoverEnd
  <2>1. /\ phase = "cover" /\ phase' = "split" /\ found = <<>> /\ parse' = parse
    BY <1>6 DEF CoverEnd
  <2>2. \A i : ~AtHand(i, found)
    <3>1. Len(found) = 0
      BY <2>1, EmptySeq
    <3> QED BY <3>1 DEF AtHand
  <2>3. \A i \in 1..Len(parse) : Apart(i) => Taken(i)'
    <3>1. \A i \in 1..Len(parse) : Apart(i) => Taken(i)
      BY <2>1, <2>2 DEF DefinitionsInv, NotPassed
    <3> QED BY <2>1, <3>1, TakenStays
  <2>4. (\A i : Apart(i)' <=> Apart(i)) /\ ParseInOrder'
    BY <2>1 DEF DefinitionsInv, Apart, ParseInOrder
  <2> QED BY <2>1, <2>3, <2>4 DEF DefinitionsInv, Scanned, NotPassed, AllTaken
<1>7. CASE SplitEnter \/ SplitLine \/ SplitCrashes \/ SplitLeave \/ SplitEnd \/ Pack \/ PackEnd
  <2>1. /\ phase \in {"split", "pack"} /\ phase' \in {"split", "pack", "done", "crashed"}
        /\ UNCHANGED <<parse, chunks, cursor>>
    BY <1>7 DEF SplitEnter, SplitLine, SplitCrashes, InChunk, SplitLeave, SplitEnd, Pack, PackEnd
  <2> QED BY <2>1 DEF DefinitionsInv, ParseInOrder, Scanned, NotPassed, AllTaken, Taken, Has,
                      Apart, Own, Chunk
<1>8. CASE Ended
  <2>1. UNCHANGED vars /\ phase \in {"done", "crashed"}
    BY <1>8 DEF Ended
  <2> QED BY <2>1 DEF vars, DefinitionsInv, ParseInOrder, Scanned, NotPassed, AllTaken, Taken,
                      Has, Apart, Own, Chunk
<1> QED BY <1>1, <1>2, <1>3, <1>4, <1>5, <1>6, <1>7, <1>8 DEF Next

LEMMA DefinitionsInit == Init => DefinitionsInv
<1> SUFFICES ASSUME Init PROVE DefinitionsInv
  OBVIOUS
<1>1. TypeInv
  BY ChunkingInit DEF ChunkingInv
<1>2. /\ Len(parse) \in Nat /\ DOMAIN parse = 1..Len(parse) /\ parse \in Seq(Nodes(Total))
  BY <1>1, LenProperties DEF TypeInv
<1>3. \A i \in 1..Len(parse) : i > 1 => parse[i - 1].end <= parse[i].start
  BY <1>2 DEF Init, Parses
<1>4. \A i \in 1..Len(parse) : parse[i].start <= parse[i].end
  BY <1>2, ElementOfSeq DEF Nodes
<1>5. phase = "scan" /\ at = 1 /\ gap = 0 /\ found = <<>> /\ Len(found) = 0
  BY EmptySeq DEF Init
<1> QED BY <1>2, <1>3, <1>4, <1>5
        DEF DefinitionsInv, ParseInOrder, Scanned, NotPassed, AllTaken, FoundSoFar

\* A definition that shares no line with the one before it is a chunk of its
\* own, wherever nodes that define nothing stand: until it is covered, it is
\* found, and what is covered before it ends before it (chunk_source, _cover).
THEOREM DefinitionsAreAlwaysChunks == Spec => []DefinitionsAreChunks
<1>1. Init => DefinitionsInv
  BY DefinitionsInit
<1>2. ChunkingInv /\ DefinitionsInv /\ [Next]_vars => DefinitionsInv'
  <2>1. ASSUME DefinitionsInv, UNCHANGED vars PROVE DefinitionsInv'
    <3>1. /\ UNCHANGED <<phase, parse, at, gap, found, cursor, chunks>>
      BY <2>1 DEF vars
    <3>2. FoundSoFar(found)' <=> FoundSoFar(found)
      BY <3>1 DEF FoundSoFar
    <3>3. \A i : /\ Apart(i)' <=> Apart(i)
                 /\ Taken(i)' <=> Taken(i)
                 /\ AtHand(i, found)' <=> AtHand(i, found)
      BY <3>1 DEF Apart, Taken, Has, AtHand, IsAt, Own, Chunk
    <3> QED BY <2>1, <3>1, <3>2, <3>3 DEF DefinitionsInv, ParseInOrder, Scanned, NotPassed, AllTaken
  <2> QED BY <2>1, DefinitionsStep
<1>3. ChunkingInv /\ DefinitionsInv => DefinitionsAreChunks
  <2> SUFFICES ASSUME ChunkingInv, DefinitionsInv, phase \in {"split", "pack", "done"},
                      cursor > 1, NEW i \in DOMAIN parse, Apart(i)
               PROVE  \E c \in DOMAIN chunks :
                        chunks[c] = Chunk(parse[i].start, parse[i].end)
    BY DEF DefinitionsAreChunks, Apart
  <2>1. DOMAIN parse = 1..Len(parse) /\ DOMAIN chunks = 1..Len(chunks)
    BY LenProperties DEF ChunkingInv, TypeInv
  <2>2. Taken(i)
    BY <2>1 DEF DefinitionsInv, AllTaken
  <2> QED BY <2>1, <2>2 DEF Taken, Has, Own
<1> QED BY <1>1, <1>2, <1>3, ChunkingInvHolds, PTL DEF Spec

-----------------------------------------------------------------------------
(* Sizes *)

\* What _split_oversized counts for the lines first .. last.
Weight(some, first, last) == SumOf(some, first..last) + 9 * (last + 1 - first)

PieceFits(piece) == ChunkSize(piece) <= MaxChars \/ piece.start = piece.end

BatchFits(batch) ==
    \/ ChunkSize(batch) <= MaxChars + Len(batch.chunks) - 1
    \/ batch.start = batch.end

\* The piece at hand is within the limit, or is one line at most.
SplitSize ==
    phase = "split" /\ line # 0 =>
        size = Weight(length, from, line - 1) /\ (size <= MaxChars \/ line <= from + 1)

\* So is the batch at hand.  Of each piece, the last newline is not counted.
PackSize ==
    phase = "pack" =>
        IF from = at THEN size = 0
        ELSE /\ size = Weight(length, pieces[from].start, pieces[at - 1].end) - (at - from)
             /\ size <= MaxChars \/ (at = from + 1 /\ pieces[from].start = pieces[from].end)

SizesInv ==
    /\ SplitSize /\ PackSize
    /\ \A i \in 1..Len(pieces) : PieceFits(pieces[i])
    /\ \A i \in 1..Len(batches) : BatchFits(batches[i])

LEMMA Lengths ==
    ASSUME TypeInv
    PROVE  Total \in Nat /\ \A n \in 1..Total : length[n] \in Nat
<1>1. Len(length) \in Nat /\ \A n \in 1..Len(length) : length[n] \in LineLengths
  BY LenProperties, ElementOfSeq DEF TypeInv
<1> QED BY <1>1, ChunkingAssumption DEF Total

LEMMA WeightOfNone ==
    ASSUME NEW some, NEW n \in Nat
    PROVE  Weight(some, n, n - 1) = 0
<1>1. n..n - 1 = {} /\ 9 * ((n - 1) + 1 - n) = 0
  OBVIOUS
<1> QED BY <1>1, SumOfNone DEF Weight

LEMMA WeightOfMore ==
    ASSUME TypeInv, NEW i \in 1..Total, NEW j \in 1..Total, i <= j
    PROVE  Weight(length, i, j) = Weight(length, i, j - 1) + length[j] + 9 /\ Weight(length, i, j - 1) \in Nat
<1> DEFINE k == j - 1
<1>1. k \in Nat /\ k + 1 = j /\ i \in Nat /\ i <= k + 1
  BY Lengths
<1>2. \A n \in i..k + 1 : length[n] \in Nat
  <2>1. \A n \in i..k + 1 : n \in 1..Total
    BY Lengths, <1>1
  <2> QED BY <2>1, Lengths
<1> HIDE DEF k
<1>3. SumOf(length, i..k + 1) = SumOf(length, i..k) + length[k + 1] /\ SumOf(length, i..k) \in Nat
  BY <1>1, <1>2, SumOfLonger
<1>4. length[k + 1] \in Nat
  BY <1>1, <1>2
<1> DEFINE sum == SumOf(length, i..k)
<1>5. Weight(length, i, k + 1) = (sum + length[k + 1]) + 9 * ((k + 1) + 1 - i)
  BY <1>3 DEF Weight
<1>6. Weight(length, i, k) = sum + 9 * (k + 1 - i) /\ sum \in Nat
  BY <1>3 DEF Weight
<1> HIDE DEF sum
<1>7. Weight(length, i, k + 1) = Weight(length, i, k) + length[k + 1] + 9 /\ Weight(length, i, k) \in Nat
  BY <1>1, <1>4, <1>5, <1>6
<1> QED BY <1>1, <1>7 DEF k

LEMMA WeightOfBoth ==
    ASSUME TypeInv, NEW i \in 1..Total, NEW j \in 1..Total, i <= j, NEW k \in 1..Total, j <= k
    PROVE  Weight(length, i, k) = Weight(length, i, j) + Weight(length, j + 1, k)
<1>0. i \in Nat /\ j \in Nat /\ k \in Nat /\ Total \in Nat
  BY Lengths
<1>1. \A n \in i..k : length[n] \in Nat
  <2>1. \A n \in i..k : n \in 1..Total
    BY <1>0
  <2> QED BY <2>1, Lengths
<1>2. SumOf(length, i..k) = SumOf(length, i..j) + SumOf(length, j + 1..k)
  BY <1>0, <1>1, SumOfIntervals
<1>3. SumOf(length, i..j) \in Nat /\ SumOf(length, j + 1..k) \in Nat
  <2>1. \A n \in i..j : length[n] \in Nat
    BY <1>0, <1>1
  <2>2. \A n \in j + 1..k : length[n] \in Nat
    BY <1>0, <1>1
  <2>3. IsFiniteSet(i..j) /\ IsFiniteSet(j + 1..k)
    BY <1>0, FS_Interval
  <2> QED BY <2>1, <2>2, <2>3, SumIsNatural
<1> QED BY <1>0, <1>2, <1>3 DEF Weight

\* pack_batches does not count the newline after the chunk.
LEMMA SizeIsWeight ==
    ASSUME TypeInv, NEW c, c.start \in 1..Total, c.end \in 1..Total, c.start <= c.end
    PROVE  ChunkSize(c) = Weight(length, c.start, c.end) - 1 /\ Weight(length, c.start, c.end) \in Nat
<1> DEFINE sum == SumOf(length, c.start..c.end)
<1>1. ChunkSize(c) = (sum + (c.end + 1 - c.start) - 1) + (c.end + 1 - c.start) * 8
  BY DEF ChunkSize, LinesOf, SumOf
<1>2. Weight(length, c.start, c.end) = sum + 9 * (c.end + 1 - c.start)
  BY DEF Weight
<1>0. c.start \in Nat /\ c.end \in Nat
  BY Lengths
<1>3. sum \in Nat
  <2>1. \A n \in c.start..c.end : length[n] \in Nat
    <3>1. \A n \in c.start..c.end : n \in 1..Total
      BY Lengths
    <3> QED BY <3>1, Lengths
  <2>2. IsFiniteSet(c.start..c.end)
    BY SMTT(30), <1>0, FS_Interval
  <2> QED BY <2>1, <2>2, SumIsNatural
<1> HIDE DEF sum
<1> QED BY <1>0, <1>1, <1>2, <1>3


LEMMA PieceFitsWhen ==
    ASSUME TypeInv, NEW first \in 1..Total, NEW last \in 1..Total, first <= last,
           Weight(length, first, last) <= MaxChars \/ first = last
    PROVE  PieceFits(Chunk(first, last))
<1> DEFINE c == Chunk(first, last)
<1>1. c.start = first /\ c.end = last
  BY DEF Chunk
<1> HIDE DEF c
<1>2. ChunkSize(c) = Weight(length, first, last) - 1 /\ Weight(length, first, last) \in Nat
  BY <1>1, SizeIsWeight
<1>3. ChunkSize(c) <= MaxChars \/ first = last
  BY <1>2, ChunkingAssumption
<1> QED BY <1>1, <1>3 DEF PieceFits, c

LEMMA AppendAll ==
    ASSUME NEW S, NEW seq \in Seq(S), NEW e \in S
    PROVE  \A i \in 1..Len(Append(seq, e)) :
              \/ Append(seq, e)[i] = e
              \/ i \in 1..Len(seq) /\ Append(seq, e)[i] = seq[i]
<1>1. /\ Len(Append(seq, e)) = Len(seq) + 1 /\ Len(seq) \in Nat
      /\ \A i \in 1..Len(seq) : Append(seq, e)[i] = seq[i]
      /\ Append(seq, e)[Len(seq) + 1] = e
  BY AppendProperties, LenProperties
<1>2. \A i \in 1..Len(seq) + 1 : i \in 1..Len(seq) \/ i = Len(seq) + 1
  BY <1>1
<1> QED BY <1>1, <1>2

\* Sizes of the same file are the same.
LEMMA SameSizes ==
    ASSUME length' = length
    PROVE  /\ \A c : PieceFits(c)' <=> PieceFits(c)
           /\ \A c : BatchFits(c)' <=> BatchFits(c)
  BY DEF PieceFits, BatchFits, ChunkSize, LinesOf, MapThenSumSet, MapThenFoldSet

LEMMA SplitSizes ==
    ASSUME ChunkingInv, SizesInv,
           SplitEnter \/ SplitLine \/ SplitCrashes \/ SplitLeave \/ SplitEnd
    PROVE  SizesInv'
<1>a. /\ phase = "split" /\ UNCHANGED <<length, batches>> /\ TypeInv
      /\ Total \in Nat /\ \A n \in 1..Total : length[n] \in Nat
  BY Lengths DEF ChunkingInv, SplitEnter, SplitLine, SplitCrashes, InChunk, SplitLeave, SplitEnd
<1>b. /\ \A i \in 1..Len(pieces) : PieceFits(pieces[i])
      /\ \A i \in 1..Len(batches) : BatchFits(batches[i])
  BY DEF SizesInv
<1>c. Len(chunks) \in Nat /\ at \in Nat \ {0} /\ from \in Nat /\ line \in Nat
  BY <1>a, LenProperties DEF TypeInv
<1>d. \A c \in 1..Len(chunks) : chunks[c].start \in Nat /\ chunks[c].start >= 1 /\ chunks[c].end \in Nat
  <2>1. \A c \in 1..Len(chunks) : chunks[c] \in [start : 1..Reach, end : 1..Reach]
    BY <1>a, ElementOfSeq DEF TypeInv
  <2>2. \A c \in 1..Len(chunks) : chunks[c].start \in 1..Reach /\ chunks[c].end \in 1..Reach
    BY <2>1
  <2>3. Reach \in Nat
    BY <1>a, ReachIsNear
  <2> QED BY <2>2, <2>3
<1>e. line # 0 =>
        /\ at \in 1..Len(chunks) /\ from >= 1
        /\ from <= chunks[at].end /\ from <= line
        /\ line <= chunks[at].end + 1 /\ line <= Total + 1
        /\ size = Weight(length, from, line - 1) /\ (size <= MaxChars \/ line <= from + 1)
  <2> SUFFICES ASSUME line # 0
               PROVE  /\ at \in 1..Len(chunks) /\ from >= 1
                      /\ from <= chunks[at].end /\ from <= line
                      /\ line <= chunks[at].end + 1 /\ line <= Total + 1
                      /\ size = Weight(length, from, line - 1) /\ (size <= MaxChars \/ line <= from + 1)
    OBVIOUS
  <2>1. /\ at <= Len(chunks)
        /\ chunks[at].start <= from /\ from <= chunks[at].end
        /\ from <= line /\ line <= chunks[at].end + 1 /\ line <= Total + 1
    BY <1>a DEF ChunkingInv, InBounds
  <2>2. at \in 1..Len(chunks)
    BY <1>c, <2>1
  <2>3. from >= 1
    BY <1>c, <1>d, <2>1, <2>2
  <2> QED BY <1>a, <2>1, <2>2, <2>3 DEF SizesInv, SplitSize
<1>1. ASSUME SplitEnter PROVE SizesInv'
  <2>1. /\ at \in 1..Len(chunks) /\ line' = chunks[at].start /\ from' = line' /\ size' = 0
        /\ phase' = "split" /\ pieces' = pieces
    BY <1>a, <1>c, <1>1 DEF SplitEnter
  <2>2. line' \in Nat
    BY <1>d, <2>1
  <2>3. Weight(length', line', line' - 1) = 0
    BY <2>2, WeightOfNone
  <2>4. SplitSize'
    <3>1. line' <= from' + 1
      BY <2>1, <2>2
    <3> QED BY <2>1, <2>3, <3>1 DEF SplitSize
  <2>5. PackSize'
    BY <2>1 DEF PackSize
  <2> QED BY <1>a, <1>b, <2>1, <2>4, <2>5, SameSizes DEF SizesInv
<1>2. ASSUME SplitLine PROVE SizesInv'
  <2> DEFINE longer == size + length[line] + 9
             piece == Chunk(from, line - 1)
  <2>1. /\ line # 0 /\ line <= chunks[at].end /\ line <= Total /\ line' = line + 1
        /\ phase' = "split"
        /\ IF longer > MaxChars /\ line > from
           THEN pieces' = Append(pieces, piece) /\ from' = line /\ size' = length[line] + 9
           ELSE size' = longer /\ UNCHANGED <<pieces, from>>
    BY <1>a, <1>2 DEF SplitLine, InChunk
  <2>2. /\ from \in 1..Total /\ line \in 1..Total /\ from <= line /\ (line + 1) - 1 = line
        /\ size = Weight(length, from, line - 1) /\ (size <= MaxChars \/ line <= from + 1)
    BY SMTT(30), <1>a, <1>c, <1>e, <2>1
  <2>3. longer = Weight(length, from, line) /\ Weight(length, from, line - 1) \in Nat
    BY <1>a, <2>2, WeightOfMore
  <2>4. MaxChars \in Nat /\ length[line] \in Nat
    BY <1>a, <2>2, ChunkingAssumption
  <2>5. CASE longer > MaxChars /\ line > from
    <3>1. pieces' = Append(pieces, piece) /\ from' = line /\ size' = length[line] + 9
      BY <2>1, <2>5
    <3>2. /\ line - 1 \in 1..Total /\ from <= line - 1
          /\ Weight(length, from, line - 1) <= MaxChars \/ from = line - 1
      BY <1>a, <2>2, <2>5
    <3>3. PieceFits(piece)
      BY <1>a, <2>2, <3>2, PieceFitsWhen
    <3>4. \A i \in 1..Len(pieces') : PieceFits(pieces'[i])
      <4>1. piece \in [start : 1..Total, end : 1..Total]
        BY <2>2, <3>2 DEF Chunk
      <4> DEFINE S == [start : 1..Total, end : 1..Total]
      <4>3. pieces \in Seq(S) /\ piece \in S
        BY <1>a, <4>1 DEF TypeInv
      <4> HIDE DEF piece, longer, S
      <4>2. \A i \in 1..Len(pieces') :
                pieces'[i] = piece \/ (i \in 1..Len(pieces) /\ pieces'[i] = pieces[i])
        BY <3>1, <4>3, AppendAll
      <4> QED BY <1>b, <3>3, <4>2
    <3>5. size' = Weight(length, line, line)
      <4>1. Weight(length, line, line) = Weight(length, line, line - 1) + length[line] + 9
        BY <1>a, <2>2, WeightOfMore
      <4>2. Weight(length, line, line - 1) = 0
        BY <1>c, WeightOfNone
      <4> QED BY <2>4, <3>1, <4>1, <4>2
    <3>6. line' - 1 = line /\ line' <= from' + 1
      BY <1>c, <2>1, <3>1
    <3>7. SplitSize'
      BY <1>a, <3>1, <3>5, <3>6 DEF SplitSize
    <3>8. PackSize'
      BY <2>1 DEF PackSize
    <3> QED BY <1>a, <1>b, <3>4, <3>7, <3>8, SameSizes DEF SizesInv
  <2>6. CASE ~(longer > MaxChars /\ line > from)
    <3>1. size' = longer /\ UNCHANGED <<pieces, from>>
      BY <2>1, <2>6
    <3>2. longer <= MaxChars \/ line' <= from + 1
      <4>1. longer \in Nat
        BY <2>2, <2>3, <2>4
      <4> HIDE DEF longer
      <4> QED BY <1>c, <2>1, <2>2, <2>4, <2>6, <4>1
    <3>3. line' - 1 = line
      BY <1>c, <2>1
    <3> HIDE DEF longer
    <3>4. SplitSize'
      BY <1>a, <2>3, <3>1, <3>2, <3>3 DEF SplitSize
    <3>5. PackSize'
      BY <2>1 DEF PackSize
    <3> QED BY <1>a, <1>b, <3>1, <3>4, <3>5, SameSizes DEF SizesInv
  <2> QED BY <2>5, <2>6
<1>3. ASSUME SplitCrashes PROVE SizesInv'
  BY <1>a, <1>b, <1>3, SameSizes DEF SizesInv, SplitSize, PackSize, SplitCrashes
<1>4. ASSUME SplitLeave PROVE SizesInv'
  <2> DEFINE piece == Chunk(from, chunks[at].end)
             last == chunks[at].end
  <2>1. /\ line # 0 /\ line > last /\ pieces' = Append(pieces, piece) /\ line' = 0
        /\ phase' = "split"
    BY <1>a, <1>4 DEF SplitLeave
  <2>2. /\ from \in 1..Total /\ last \in 1..Total /\ from <= last /\ line - 1 = last
        /\ size = Weight(length, from, line - 1) /\ (size <= MaxChars \/ line <= from + 1)
    <3>1. last \in Nat
      BY <1>d, <1>e, <2>1
    <3>2. /\ from >= 1 /\ from <= last /\ line <= last + 1 /\ line <= Total + 1
          /\ size = Weight(length, from, line - 1) /\ (size <= MaxChars \/ line <= from + 1)
      BY <1>e, <2>1
    <3> HIDE DEF last
    <3> QED BY <1>a, <1>c, <2>1, <3>1, <3>2
  <2>3. PieceFits(piece)
    <3>1. Weight(length, from, last) <= MaxChars \/ from = last
      <4> HIDE DEF last
      <4>1. size <= MaxChars => Weight(length, from, last) <= MaxChars
        BY <2>2
      <4>2. line <= from + 1 => from = last
        BY <1>a, <1>c, <2>2
      <4> QED BY <2>2, <4>1, <4>2
    <3> HIDE DEF last
    <3>2. PieceFits(Chunk(from, last))
      BY <1>a, <2>2, <3>1, PieceFitsWhen
    <3> QED BY <3>2 DEF last
  <2>4. \A i \in 1..Len(pieces') : PieceFits(pieces'[i])
    <3>1. piece \in [start : 1..Total, end : 1..Total]
      BY <2>2 DEF Chunk
    <3> HIDE DEF piece, last
    <3>2. \A i \in 1..Len(pieces') :
              pieces'[i] = piece \/ (i \in 1..Len(pieces) /\ pieces'[i] = pieces[i])
      BY <1>a, <2>1, <3>1, AppendAll DEF TypeInv
    <3> QED BY <1>b, <2>3, <3>2
  <2>5. SplitSize' /\ PackSize'
    BY <2>1 DEF SplitSize, PackSize
  <2> QED BY <1>a, <1>b, <2>4, <2>5, SameSizes DEF SizesInv
<1>5. ASSUME SplitEnd PROVE SizesInv'
  <2>1. phase' = "pack" /\ at' = 1 /\ from' = 1 /\ size' = 0 /\ pieces' = pieces
    BY <1>5 DEF SplitEnd
  <2>2. SplitSize' /\ PackSize'
    BY <2>1 DEF SplitSize, PackSize
  <2> QED BY <1>a, <1>b, <2>1, <2>2, SameSizes DEF SizesInv
<1> QED BY <1>1, <1>2, <1>3, <1>4, <1>5

\* A batch that is closed.
LEMMA BatchFitsWhen ==
    ASSUME ChunkingInv, SizesInv, phase = "pack", from < at
    PROVE  BatchFits(Batch(from, at - 1))
<1> DEFINE batch == Batch(from, at - 1)
<1>1. /\ batch.start = pieces[from].start /\ batch.end = pieces[at - 1].end
      /\ batch.chunks = SubSeq(pieces, from, at - 1)
  BY DEF Batch
<1>2. TypeInv /\ Len(pieces) \in Nat /\ from \in 1..Len(pieces) /\ at - 1 \in 1..Len(pieces)
      /\ at \in Nat
  BY LenProperties DEF ChunkingInv, TypeInv, InBounds
<1>3. Len(batch.chunks) = at - from
  <2>1. \A i \in from..at - 1 : pieces[i] \in [start : 1..Total, end : 1..Total]
    <3>1. \A i \in from..at - 1 : i \in 1..Len(pieces)
      BY <1>2
    <3> QED BY <1>2, <3>1, ElementOfSeq DEF TypeInv
  <2>2. Len(SubSeq(pieces, from, at - 1)) = IF from <= at - 1 THEN (at - 1) - from + 1 ELSE 0
    <3> DEFINE S == [start : 1..Total, end : 1..Total]
    <3> HIDE DEF S
    <3>1. \A i \in from..at - 1 : pieces[i] \in S
      BY <2>1 DEF S
    <3>2. from \in Int /\ at - 1 \in Int
      BY <1>2
    <3> QED BY <3>1, <3>2, SubSeqProperties
  <2> HIDE DEF batch
  <2> QED BY <1>1, <1>2, <2>2
<1>4. /\ batch.start \in 1..Total /\ batch.end \in 1..Total /\ batch.start <= batch.end
  <2>1. /\ pieces[from] \in [start : 1..Total, end : 1..Total]
        /\ pieces[at - 1] \in [start : 1..Total, end : 1..Total]
    BY <1>2, ElementOfSeq DEF TypeInv
  <2>2. pieces[from].start <= pieces[at - 1].end
    BY DEF ChunkingInv, InBounds
  <2> HIDE DEF batch
  <2> QED BY <1>1, <2>1, <2>2
<1>5. /\ size = Weight(length, batch.start, batch.end) - (at - from)
      /\ size <= MaxChars \/ (at = from + 1 /\ pieces[from].start = pieces[from].end)
  <2>1. from # at
    BY <1>2
  <2> HIDE DEF batch
  <2> QED BY <1>1, <2>1 DEF SizesInv, PackSize
<1> HIDE DEF batch
<1>6. /\ ChunkSize(batch) = Weight(length, batch.start, batch.end) - 1
      /\ Weight(length, batch.start, batch.end) \in Nat
  BY <1>2, <1>4, SizeIsWeight
<1>7. CASE size <= MaxChars
  <2>1. ChunkSize(batch) <= MaxChars + Len(batch.chunks) - 1
    BY <1>2, <1>3, <1>5, <1>6, <1>7, ChunkingAssumption
  <2> QED BY <2>1 DEF BatchFits, batch
<1>8. CASE at = from + 1 /\ pieces[from].start = pieces[from].end
  <2>1. at - 1 = from
    BY <1>2, <1>8
  <2>2. batch.start = batch.end
    BY <1>1, <1>8, <2>1
  <2> QED BY <2>2 DEF BatchFits, batch
<1> QED BY <1>5, <1>7, <1>8

LEMMA PackSizes ==
    ASSUME ChunkingInv, SizesInv, Pack \/ PackEnd
    PROVE  SizesInv'
<1>a. /\ phase = "pack" /\ UNCHANGED <<length, pieces>> /\ TypeInv
      /\ Total \in Nat /\ MaxChars \in Nat
  BY Lengths, ChunkingAssumption DEF ChunkingInv, Pack, PackEnd
<1>b. /\ \A i \in 1..Len(pieces) : PieceFits(pieces[i])
      /\ \A i \in 1..Len(batches) : BatchFits(batches[i])
  BY DEF SizesInv
<1>c. /\ Len(pieces) \in Nat /\ at \in Nat /\ from \in Nat
      /\ 1 <= from /\ from <= at
  BY <1>a, LenProperties DEF TypeInv, ChunkingInv, InBounds
<1>d. ASSUME from < at, batches' = Append(batches, Batch(from, at - 1))
      PROVE  \A i \in 1..Len(batches') : BatchFits(batches'[i])
  <2> DEFINE batch == Batch(from, at - 1)
             S == [start : 1..Total, end : 1..Total, chunks : Seq(Chunks)] \union {batch}
  <2>1. BatchFits(batch)
    BY <1>a, <1>d, BatchFitsWhen
  <2>2. batches \in Seq(S) /\ batch \in S
    BY <1>a, SeqMonotonic DEF TypeInv
  <2>3. batches' = Append(batches, batch)
    BY <1>d
  <2> HIDE DEF batch, S
  <2>4. \A i \in 1..Len(batches') :
            batches'[i] = batch \/ (i \in 1..Len(batches) /\ batches'[i] = batches[i])
    BY <2>2, <2>3, AppendAll
  <2> QED BY <1>b, <2>1, <2>4
<1>1. ASSUME Pack PROVE SizesInv'
  <2> DEFINE more == ChunkSize(pieces[at])
             full == from < at /\ size + more > MaxChars
  <2>1. /\ at \in 1..Len(pieces) /\ phase' = "pack" /\ at' = at + 1
        /\ batches' = IF full THEN Append(batches, Batch(from, at - 1)) ELSE batches
        /\ from' = IF full THEN at ELSE from
        /\ size' = (IF full THEN 0 ELSE size) + more
    BY <1>1, <1>c DEF Pack
  <2>2. pieces[at].start \in 1..Total /\ pieces[at].end \in 1..Total
    <3>1. pieces[at] \in [start : 1..Total, end : 1..Total]
      BY <1>a, <2>1, ElementOfSeq DEF TypeInv
    <3> QED BY <3>1
  <2>3. pieces[at].start <= pieces[at].end
    BY <1>a, <2>1 DEF ChunkingInv, CoveredSoFar, Tile
  <2>4. /\ more = Weight(length, pieces[at].start, pieces[at].end) - 1
        /\ Weight(length, pieces[at].start, pieces[at].end) \in Nat
    BY <1>a, <2>2, <2>3, SizeIsWeight
  <2>5. more <= MaxChars \/ pieces[at].start = pieces[at].end
    BY <1>b, <2>1 DEF PieceFits
  <2>6. \A i \in 1..Len(batches') : BatchFits(batches'[i])
    BY <1>b, <1>d, <2>1
  <2>7. SplitSize'
    BY <2>1 DEF SplitSize
  <2>8. at' - 1 = at /\ from' # at' /\ more \in Int
    BY <1>c, <2>1, <2>4
  <2> HIDE DEF more
  <2>9. CASE full \/ from = at
    <3>1. from' = at /\ size' = more
      <4>1. from = at => size = 0
        BY <1>a DEF SizesInv, PackSize
      <4> QED BY <2>1, <2>8, <2>9, <4>1
    <3>2. at' - from' = 1 /\ at' = from' + 1
      BY <1>c, <2>1, <3>1
    <3>3. PackSize'
      BY <1>a, <2>1, <2>4, <2>5, <2>8, <3>1, <3>2 DEF PackSize
    <3> QED BY <1>a, <1>b, <2>6, <2>7, <3>3, SameSizes DEF SizesInv
  <2>10. CASE ~(full \/ from = at)
    <3>1. from' = from /\ size' = size + more /\ from < at
      BY <1>c, <2>1, <2>10
    <3>2. from \in 1..Len(pieces) /\ at - 1 \in 1..Len(pieces) /\ at # 1
      BY <1>c, <2>1, <3>1
    <3>3. /\ pieces[from].start \in 1..Total
          /\ pieces[at - 1].end \in 1..Total
      <4>1. /\ pieces[from] \in [start : 1..Total, end : 1..Total]
            /\ pieces[at - 1] \in [start : 1..Total, end : 1..Total]
        BY <1>a, <3>2, ElementOfSeq DEF TypeInv
      <4> QED BY <4>1
    <3>4. pieces[from].start <= pieces[at - 1].end
      BY <1>a, <3>1 DEF ChunkingInv, InBounds
    <3>5. pieces[at].start = pieces[at - 1].end + 1
      BY <1>a, <2>1, <3>2 DEF ChunkingInv, CoveredSoFar, Tile
    <3>6. /\ size = Weight(length, pieces[from].start, pieces[at - 1].end) - (at - from)
          /\ size + more <= MaxChars
      <4>1. size = Weight(length, pieces[from].start, pieces[at - 1].end) - (at - from)
        BY <1>a, <2>10 DEF SizesInv, PackSize
      <4>2. Weight(length, pieces[from].start, pieces[at - 1].end) \in Nat
        <5> DEFINE c == Chunk(pieces[from].start, pieces[at - 1].end)
        <5>1. c.start = pieces[from].start /\ c.end = pieces[at - 1].end
          BY DEF Chunk
        <5> HIDE DEF c
        <5> QED BY <1>a, <3>3, <3>4, <5>1, SizeIsWeight
      <4>3. size + more \in Int
        BY <1>c, <2>8, <4>1, <4>2
      <4> QED BY <1>a, <2>10, <3>1, <4>1, <4>3
    <3>7. Weight(length, pieces[from].start, pieces[at].end)
            = Weight(length, pieces[from].start, pieces[at - 1].end)
                + Weight(length, pieces[at].start, pieces[at].end)
      <4>1. pieces[at - 1].end <= pieces[at].end
        BY <1>a, <2>2, <2>3, <3>3, <3>5
      <4> QED BY <1>a, <2>2, <3>3, <3>4, <3>5, <4>1, WeightOfBoth
    <3> DEFINE W == Weight(length, pieces[from].start, pieces[at - 1].end)
               V == Weight(length, pieces[at].start, pieces[at].end)
    <3>8. W \in Nat
      <4> DEFINE c == Chunk(pieces[from].start, pieces[at - 1].end)
      <4>1. c.start = pieces[from].start /\ c.end = pieces[at - 1].end
        BY DEF Chunk
      <4> HIDE DEF c
      <4> QED BY <1>a, <3>3, <3>4, <4>1, SizeIsWeight
    <3>9. size' = Weight(length, pieces[from'].start, pieces[at' - 1].end) - (at' - from')
      <4>1. size + more = (W + V) - ((at + 1) - from)
        <5>1. size = W - (at - from) /\ more = V - 1 /\ V \in Nat
          BY <2>4, <3>6
        <5> HIDE DEF W, V
        <5> QED BY <1>c, <3>8, <5>1
      <4>2. Weight(length, pieces[from].start, pieces[at].end) = W + V
        BY <3>7
      <4> HIDE DEF W, V
      <4> QED BY <2>1, <2>8, <3>1, <4>1, <4>2
    <3>10. PackSize'
      BY <1>a, <2>1, <2>8, <3>1, <3>6, <3>9 DEF PackSize
    <3> QED BY <1>a, <1>b, <2>6, <2>7, <3>10, SameSizes DEF SizesInv
  <2> QED BY <2>9, <2>10
<1>2. ASSUME PackEnd PROVE SizesInv'
  <2>1. /\ phase' = "done"
        /\ batches' = IF from < at THEN Append(batches, Batch(from, at - 1)) ELSE batches
    BY <1>2 DEF PackEnd
  <2>2. \A i \in 1..Len(batches') : BatchFits(batches'[i])
    BY <1>b, <1>d, <2>1
  <2>3. SplitSize' /\ PackSize'
    BY <2>1 DEF SplitSize, PackSize
  <2> QED BY <1>a, <1>b, <2>2, <2>3, SameSizes DEF SizesInv
<1> QED BY <1>1, <1>2

LEMMA SizesStep == ChunkingInv /\ SizesInv /\ [Next]_vars => SizesInv'
<1> SUFFICES ASSUME ChunkingInv, SizesInv, [Next]_vars PROVE SizesInv'
  OBVIOUS
<1>a. /\ \A i \in 1..Len(pieces) : PieceFits(pieces[i])
      /\ \A i \in 1..Len(batches) : BatchFits(batches[i])
  BY DEF SizesInv
<1>1. ASSUME phase \in {"scan", "cover"}, phase' \in {"scan", "cover", "split"},
             UNCHANGED <<length, line, pieces, batches>>
      PROVE  SizesInv'
  <2>1. line = 0
    BY <1>1 DEF ChunkingInv, InBounds
  <2>2. SplitSize' /\ PackSize'
    BY <1>1, <2>1 DEF SplitSize, PackSize
  <2> QED BY <1>a, <1>1, <2>2, SameSizes DEF SizesInv
<1>2. CASE ScanDefinition \/ ScanOther \/ ScanEnd \/ ParseFails
  BY <1>1, <1>2 DEF ScanDefinition, ScanOther, ScanEnd, ParseFails
<1>3. ASSUME NEW i \in DOMAIN found, CoverChunk(i) PROVE SizesInv'
  BY <1>1, <1>3 DEF CoverChunk
<1>4. CASE CoverEnd
  BY <1>1, <1>4 DEF CoverEnd
<1>5. CASE SplitEnter \/ SplitLine \/ SplitCrashes \/ SplitLeave \/ SplitEnd
  BY <1>5, SplitSizes
<1>6. CASE Pack \/ PackEnd
  BY <1>6, PackSizes
<1>7. CASE UNCHANGED vars
  <2>1. UNCHANGED <<phase, length, at, from, line, size, pieces, batches>>
    BY <1>7 DEF vars
  <2>2. SplitSize' /\ PackSize'
    BY <2>1 DEF SizesInv, SplitSize, PackSize, Weight, SumOf, MapThenSumSet, MapThenFoldSet
  <2> QED BY <1>a, <2>1, <2>2, SameSizes DEF SizesInv
<1> QED BY <1>2, <1>3, <1>4, <1>5, <1>6, <1>7 DEF Next, Ended

\* No batch is larger than the limit, but for the newlines between its pieces,
\* unless it is one line (_split_oversized, pack_batches): for every file, every
\* parse and every limit, although the two loops count in different ways.
THEOREM BatchesAlwaysFit == Spec => []BatchesFit
<1>1. Init => SizesInv
  <2> SUFFICES ASSUME Init PROVE SizesInv
    OBVIOUS
  <2>1. phase = "scan" /\ Len(pieces) = 0 /\ Len(batches) = 0
    BY EmptySeq DEF Init
  <2> QED BY <2>1 DEF SizesInv, SplitSize, PackSize
<1>2. ChunkingInv /\ SizesInv => BatchesFit
  <2> SUFFICES ASSUME ChunkingInv, SizesInv PROVE BatchesFit
    OBVIOUS
  <2>1. DOMAIN batches = 1..Len(batches)
    BY LenProperties DEF ChunkingInv, TypeInv
  <2> QED BY <2>1 DEF BatchesFit, SizesInv, BatchFits
<1> QED BY <1>1, <1>2, SizesStep, ChunkingInvHolds, PTL DEF Spec

=============================================================================
