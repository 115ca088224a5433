------------------------------- MODULE Chunking -------------------------------
(***************************************************************************)
(* How a submitted file becomes batches (review/chunking.py): the          *)
(* top-level nodes of the parse tree become chunks (chunk_source), the     *)
(* chunks are made to cover the file (_cover), chunks too large for a      *)
(* batch are split by lines (_split_oversized), and the pieces are packed  *)
(* into batches (pack_batches).  Each action is one turn of one of these   *)
(* loops.                                                                  *)
(*                                                                         *)
(* A line is its length, a chunk its first and last line.  The parse is    *)
(* tree-sitter's: any sequence of nodes in file order.                     *)
(***************************************************************************)
EXTENDS Naturals, Sequences, FiniteSetsExt

CONSTANTS
    MaxLines,     \* bound: lines of the file
    MaxNodes,     \* bound: top-level nodes of its parse tree
    LineLengths,  \* lengths a line may have
    MaxChars,     \* batch_max_chars
    PastEnd       \* may a definition include the newline after the last line?

ASSUME ChunkingAssumption ==
    /\ MaxLines \in Nat /\ MaxNodes \in Nat
    /\ LineLengths \subseteq Nat
    /\ MaxChars \in Nat
    /\ PastEnd \in BOOLEAN

VARIABLES
    phase,    \* "scan", "cover", "split", "pack", "done", or "crashed"
    length,   \* the file: the length of each line
    parse,    \* the top-level nodes
    at,       \* index into parse, chunks or pieces: where the loop is
    gap,      \* gap_start: first line of the nodes that define nothing, or 0
    found,    \* chunks of chunk_source, that _cover has yet to see
    cursor,   \* the first line _cover has not covered
    chunks,   \* what chunk_source returns
    from,     \* first line of the piece, or first piece of the batch, at hand
    line,     \* the line _split_oversized is at, or 0 between chunks
    size,     \* characters of the piece or batch at hand
    pieces,   \* what _split_oversized returns
    batches   \* what pack_batches returns

vars == <<phase, length, parse, at, gap, found, cursor, chunks, from, line, size,
          pieces, batches>>

-----------------------------------------------------------------------------
Total == Len(length)

Chunk(start, end) == [start |-> start, end |-> end]

Chunks == [start : Nat, end : Nat]

\* Nodes come in rows, which chunk_source takes for lines; rows are never more than
\* lines, and fewer only where splitlines breaks at more than newlines (MCChunking).
\* A node that ends with its newline ends in the first column of the next row.
Nodes(total) ==
    {node \in [start : 1..total, end : 1..total + 1, defines : BOOLEAN] :
        /\ node.start <= node.end
        /\ node.end <= total \/ (PastEnd /\ node.defines)}

Parses(total) ==
    {nodes \in UNION {[1..n -> Nodes(total)] : n \in 0..MaxNodes} :
        \A i \in DOMAIN nodes : i > 1 => nodes[i - 1].end <= nodes[i].start}

Init ==
    /\ phase = "scan"
    /\ length \in UNION {[1..n -> LineLengths] : n \in 0..MaxLines}
    /\ parse \in Parses(Total)
    /\ at = 1
    /\ gap = 0 /\ found = <<>>
    /\ cursor = 1 /\ chunks = <<>>
    /\ from = 0 /\ line = 0 /\ size = 0 /\ pieces = <<>>
    /\ batches = <<>>

-----------------------------------------------------------------------------
(* chunk_source *)

\* Bug: the gap is not closed.
ScanDefinitionInGap ==
    /\ phase = "scan" /\ at <= Len(parse) /\ parse[at].defines
    /\ LET node == parse[at]
           before == IF gap # 0 /\ gap < node.start
                     THEN Append(found, Chunk(gap, node.start - 1)) ELSE found IN
        found' = Append(before, Chunk(node.start, node.end))
    /\ at' = at + 1
    /\ UNCHANGED <<phase, length, parse, gap, cursor, chunks, from, line, size, pieces,
                   batches>>

ScanDefinition ==
    /\ phase = "scan" /\ at <= Len(parse) /\ parse[at].defines
    /\ LET node == parse[at]
           before == IF gap # 0 /\ gap < node.start
                     THEN Append(found, Chunk(gap, node.start - 1)) ELSE found IN
        found' = Append(before, Chunk(node.start, node.end))
    /\ gap' = 0
    /\ at' = at + 1
    /\ UNCHANGED <<phase, length, parse, cursor, chunks, from, line, size, pieces, batches>>

ScanOther ==
    /\ phase = "scan" /\ at <= Len(parse) /\ ~parse[at].defines
    /\ gap' = IF gap = 0 THEN parse[at].start ELSE gap
    /\ at' = at + 1
    /\ UNCHANGED <<phase, length, parse, found, cursor, chunks, from, line, size, pieces,
                   batches>>

ScanEnd ==
    /\ phase = "scan" /\ at > Len(parse)
    /\ found' = IF gap # 0 THEN Append(found, Chunk(gap, Total)) ELSE found
    /\ phase' = "cover"
    /\ UNCHANGED <<length, parse, at, gap, cursor, chunks, from, line, size, pieces, batches>>

\* No grammar, or the parser raises: the whole file is one chunk.
ParseFails ==
    /\ phase = "scan" /\ at = 1 /\ Total > 0
    /\ chunks' = <<Chunk(1, Total)>>
    /\ phase' = "split"
    /\ UNCHANGED <<length, parse, at, gap, found, cursor, from, line, size, pieces, batches>>

-----------------------------------------------------------------------------
(* _cover *)

\* The first of those with the least start: the order of a stable sort.
IsNext(i) ==
    /\ i \in DOMAIN found
    /\ \A j \in DOMAIN found :
        /\ found[i].start <= found[j].start
        /\ j < i => found[i].start < found[j].start

Without(chunk, i) == SubSeq(chunk, 1, i - 1) \o SubSeq(chunk, i + 1, Len(chunk))

CoverChunk(i) ==
    /\ phase = "cover" /\ IsNext(i)
    /\ found' = Without(found, i)
    /\ LET start == Max({found[i].start, cursor})
           end == found[i].end
           before == IF start > cursor
                     THEN Append(chunks, Chunk(cursor, start - 1)) ELSE chunks IN
        IF start > end
        THEN UNCHANGED <<chunks, cursor>>
        ELSE chunks' = Append(before, Chunk(start, end)) /\ cursor' = end + 1
    /\ UNCHANGED <<phase, length, parse, at, gap, from, line, size, pieces, batches>>

\* Bug: what follows the last chunk is left out.
CoverEndShort ==
    /\ phase = "cover" /\ found = <<>>
    /\ phase' = "split"
    /\ at' = 1
    /\ UNCHANGED <<length, parse, gap, found, cursor, chunks, from, line, size, pieces, batches>>

CoverEnd ==
    /\ phase = "cover" /\ found = <<>>
    /\ chunks' = IF cursor <= Total THEN Append(chunks, Chunk(cursor, Total)) ELSE chunks
    /\ phase' = "split"
    /\ at' = 1
    /\ UNCHANGED <<length, parse, gap, found, cursor, from, line, size, pieces, batches>>

-----------------------------------------------------------------------------
(* _split_oversized *)

SplitEnter ==
    /\ phase = "split" /\ line = 0 /\ at <= Len(chunks)
    /\ from' = chunks[at].start
    /\ line' = chunks[at].start
    /\ size' = 0
    /\ UNCHANGED <<phase, length, parse, at, gap, found, cursor, chunks, pieces, batches>>

InChunk == phase = "split" /\ line # 0 /\ line <= chunks[at].end

\* Bug: the line that did not fit is not counted in the piece it starts.
SplitLineUncounted ==
    /\ InChunk /\ line <= Total
    /\ LET longer == size + length[line] + 9 IN
        IF longer > MaxChars /\ line > from
        THEN /\ pieces' = Append(pieces, Chunk(from, line - 1))
             /\ from' = line
             /\ size' = 0
        ELSE size' = longer /\ UNCHANGED <<pieces, from>>
    /\ line' = line + 1
    /\ UNCHANGED <<phase, length, parse, at, gap, found, cursor, chunks, batches>>

SplitLine ==
    /\ InChunk /\ line <= Total
    /\ LET longer == size + length[line] + 9 IN
        IF longer > MaxChars /\ line > from
        THEN /\ pieces' = Append(pieces, Chunk(from, line - 1))
             /\ from' = line
             /\ size' = length[line] + 9
        ELSE size' = longer /\ UNCHANGED <<pieces, from>>
    /\ line' = line + 1
    /\ UNCHANGED <<phase, length, parse, at, gap, found, cursor, chunks, batches>>

\* IndexError: the chunk has a line the file does not have.
SplitCrashes ==
    /\ InChunk /\ line > Total
    /\ phase' = "crashed"
    /\ UNCHANGED <<length, parse, at, gap, found, cursor, chunks, from, line, size, pieces,
                   batches>>

SplitLeave ==
    /\ phase = "split" /\ line # 0 /\ line > chunks[at].end
    /\ pieces' = Append(pieces, Chunk(from, chunks[at].end))
    /\ at' = at + 1
    /\ line' = 0
    /\ UNCHANGED <<phase, length, parse, gap, found, cursor, chunks, from, size, batches>>

SplitEnd ==
    /\ phase = "split" /\ line = 0 /\ at > Len(chunks)
    /\ phase' = "pack"
    /\ at' = 1 /\ from' = 1 /\ size' = 0
    /\ UNCHANGED <<length, parse, gap, found, cursor, chunks, line, pieces, batches>>

-----------------------------------------------------------------------------
(* pack_batches: the batch at hand is of the pieces from .. at - 1. *)

LinesOf(chunk) == chunk.start..chunk.end

\* The text, its lines joined by newlines, and 8 for each line number.
ChunkSize(chunk) ==
    LET lines == chunk.end + 1 - chunk.start IN
    (MapThenSumSet(LAMBDA n : length[n], LinesOf(chunk)) + lines - 1) + lines * 8

Batch(first, last) ==
    [start |-> pieces[first].start, end |-> pieces[last].end,
     chunks |-> SubSeq(pieces, first, last)]

Pack ==
    /\ phase = "pack" /\ at <= Len(pieces)
    /\ LET full == from < at /\ size + ChunkSize(pieces[at]) > MaxChars IN
        /\ batches' = IF full THEN Append(batches, Batch(from, at - 1)) ELSE batches
        /\ from' = IF full THEN at ELSE from
        /\ size' = (IF full THEN 0 ELSE size) + ChunkSize(pieces[at])
    /\ at' = at + 1
    /\ UNCHANGED <<phase, length, parse, gap, found, cursor, chunks, line, pieces>>

PackEnd ==
    /\ phase = "pack" /\ at > Len(pieces)
    /\ batches' = IF from < at THEN Append(batches, Batch(from, at - 1)) ELSE batches
    /\ phase' = "done"
    /\ UNCHANGED <<length, parse, at, gap, found, cursor, chunks, from, line, size, pieces>>

Ended == phase \in {"done", "crashed"} /\ UNCHANGED vars

Next ==
    \/ ScanDefinition \/ ScanOther \/ ScanEnd \/ ParseFails
    \/ (\E i \in DOMAIN found : CoverChunk(i)) \/ CoverEnd
    \/ SplitEnter \/ SplitLine \/ SplitCrashes \/ SplitLeave \/ SplitEnd
    \/ Pack \/ PackEnd
    \/ Ended

Spec == Init /\ [][Next]_vars

-----------------------------------------------------------------------------
(* Which chunk a piece belongs to (worker/orchestrator.py) *)

Holds(chunk, piece) == chunk.start <= piece.start /\ piece.start <= chunk.end

\* Bug: it is not asked whether the chunk ends before the piece.
IndexOfStarted(piece) ==
    IF \E i \in DOMAIN chunks : chunks[i].start <= piece.start
    THEN Min({i \in DOMAIN chunks : chunks[i].start <= piece.start})
    ELSE 1

\* _index_of: the first chunk that holds the first line, or the first of all.
IndexOf(piece) ==
    IF \E i \in DOMAIN chunks : Holds(chunks[i], piece)
    THEN Min({i \in DOMAIN chunks : Holds(chunks[i], piece)})
    ELSE 1

-----------------------------------------------------------------------------
(* Properties *)

\* Intervals in order, without overlap or hole, that cover 1..last.
Tile(seq, last) ==
    /\ \A i \in 1..Len(seq) :
        /\ seq[i].start <= seq[i].end
        /\ seq[i].start = IF i = 1 THEN 1 ELSE seq[i - 1].end + 1
    /\ last = IF seq = <<>> THEN 0 ELSE seq[Len(seq)].end

\* Every line of the file is in exactly one chunk (_cover).
ChunksCover == phase \in {"split", "pack", "done"} => Tile(chunks, Total)

\* Every line of the file is in exactly one batch, so the models see all of it
\* and no line twice (pack_batches).
BatchesCover == phase = "done" => Tile(batches, Total)

\* A batch is no larger than batch_max_chars, unless it is a single line, but
\* for the newlines between its pieces (_split_oversized and pack_batches, which
\* count in different ways; neither counts these).
BatchesFit ==
    phase = "done" =>
        \A i \in DOMAIN batches :
            \/ ChunkSize(batches[i]) <= MaxChars + Len(batches[i].chunks) - 1
            \/ batches[i].start = batches[i].end

\* A batch that is more than a line is no larger than batch_max_chars.  The loops
\* do not count the newlines between pieces (_split_oversized, pack_batches).
BatchesWithinLimit ==
    phase = "done" =>
        \A i \in DOMAIN batches :
            ChunkSize(batches[i]) <= MaxChars \/ batches[i].start = batches[i].end

\* The rules a piece is reviewed with were retrieved for the chunk that all its
\* lines are from (_index_of).
PiecesHaveTheirChunk ==
    phase \in {"pack", "done"} =>
        \A i \in DOMAIN pieces :
            LinesOf(pieces[i]) \subseteq LinesOf(chunks[IndexOf(pieces[i])])

\* A definition that shares no line with the one before it is a chunk of its
\* own (chunk_source), when the file could be parsed.
DefinitionsAreChunks ==
    phase \in {"split", "pack", "done"} /\ cursor > 1 =>
        \A i \in DOMAIN parse :
            /\ parse[i].defines
            /\ \A j \in 1..i - 1 : parse[j].defines => parse[j].end < parse[i].start
            => \E c \in DOMAIN chunks : chunks[c] = Chunk(parse[i].start, parse[i].end)

-----------------------------------------------------------------------------
(* Why they hold *)

\* Each loop has covered the file up to where it is, once (_cover,
\* _split_oversized, pack_batches).
CoveredSoFar ==
    /\ phase \in {"scan", "cover"} => Tile(chunks, cursor - 1)
    /\ phase = "split" =>
        Tile(pieces, IF line # 0 THEN from - 1 ELSE IF at = 1 THEN 0 ELSE chunks[at - 1].end)
    /\ phase = "pack" =>
        /\ Tile(pieces, Total)
        /\ Tile(batches, IF from = 1 THEN 0 ELSE pieces[from - 1].end)

\* Where the loops can be.
InBounds ==
    /\ phase = "scan" => cursor = 1 /\ chunks = <<>>
    /\ phase \in {"scan", "cover"} => line = 0 /\ pieces = <<>> /\ batches = <<>>
    /\ phase = "split" =>
        /\ batches = <<>>
        /\ at <= Len(chunks) + 1
        /\ at > 1 => chunks[at - 1].end <= Total
        /\ line # 0 =>
            /\ at <= Len(chunks)
            /\ chunks[at].start <= from /\ from <= chunks[at].end
            /\ from <= line /\ line <= chunks[at].end + 1 /\ line <= Total + 1
    /\ phase = "pack" =>
        /\ 1 <= from /\ from <= at /\ at <= Len(pieces) + 1
        /\ from = at => at = 1
        /\ from < at => pieces[from].start <= pieces[at - 1].end

=============================================================================
