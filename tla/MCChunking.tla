------------------------------ MODULE MCChunking ------------------------------
(***************************************************************************)
(* Chunking with files whose lines end in more ways than one: chunk_source *)
(* takes the rows of the parse tree for lines of the file, but tree-sitter *)
(* starts a row at a newline only, and str.splitlines a line also at form  *)
(* feeds, line separators and the like.                                    *)
(***************************************************************************)
EXTENDS Chunking

CONSTANT OtherBreaks  \* the lines that end in a break of the second kind

\* The row a line is on.
RowOf(n) == n - Cardinality({b \in OtherBreaks : b < n})

\* Nodes only name rows the file has.
ParseIsOfTheFile == \A i \in DOMAIN parse : parse[i].end <= RowOf(Total)

\* A chunk for each definition, of the lines the definition is on, if no other
\* node shares a line with it (chunk_source).
DefinitionsKeepTheirLines ==
    phase = "split" /\ cursor > 1 /\ ParseIsOfTheFile =>
        \A i \in DOMAIN parse :
            /\ parse[i].defines
            /\ \A j \in 1..i - 1 : parse[j].end < parse[i].start
            => \E c \in DOMAIN chunks :
                LinesOf(chunks[c]) = {n \in 1..Total : RowOf(n) \in parse[i].start..parse[i].end}

=============================================================================
