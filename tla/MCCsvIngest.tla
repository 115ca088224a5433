----------------------------- MODULE MCCsvIngest -----------------------------
(***************************************************************************)
(* Instances of CsvIngest for TLC.  Files are uploaded of two kinds: a     *)
(* clean one for each corpus, and every short one that is about a single   *)
(* id, faulty, doubled and breaking rows included.                         *)
(***************************************************************************)
EXTENDS CsvIngest

CONSTANT MaxRows  \* bound: rows of a file about one id

\* The order of the rows of a clean file: what could be a header does not come first.
InOrder == SetToSeq(Rule \ HeaderIds) \o SetToSeq(HeaderIds)

SoundRow(r, t) == [cells |-> "enough", id |-> r, text |-> t]

CleanFile(corpus) ==
    LET ids == SelectSeq(InOrder, LAMBDA r : corpus[r] # None) IN
    [i \in DOMAIN ids |-> SoundRow(ids[i], corpus[ids[i]])]

\* Blank rows, and those whose id is missing or too long, are left to the proofs.
RowsAbout(r) ==
    {[cells |-> "broken"], [cells |-> "few", id |-> r]}
    \union {SoundRow(r, t) : t \in Text \union {"missing"}}

MCFile ==
    {CleanFile(c) : c \in Corpus} \union BoundedSeq(RowsAbout(Head(InOrder)), MaxRows)

MCAccepts == [file \in MCFile |-> Csv!Accepted(file, None)]

TextSymmetry == Permutations(Text)

=============================================================================
