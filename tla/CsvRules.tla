------------------------------- MODULE CsvRules -------------------------------
(***************************************************************************)
(* What an uploaded file comes to (rules/csv_parser.py).  A file is the    *)
(* sequence of rows csv.reader yields; a row is what the parser tells      *)
(* apart: whether it has cells and three of them, its id, and its text,    *)
(* which stands for type and description, rejoined and stripped.           *)
(***************************************************************************)
EXTENDS Naturals, SequencesExt

CONSTANTS
    Rule,       \* the first cells that can be rule ids
    HeaderIds,  \* those of them a header begins with ("id", "no", ...)
    Text        \* types and descriptions

\* blank: a line without content.  broken: csv.reader raises here.
Row ==
    [cells : {"blank", "broken"}]
    \union [cells : {"few"}, id : Rule]
    \union [cells : {"enough"}, id : Rule \union {"missing", "long"},
            text : Text \union {"missing", "long"}]

\* What parse_rules_csv has gathered, as numbers of rows.
Start == [first |-> TRUE, broken |-> FALSE, header |-> {}, rules |-> <<>>, rejected |-> <<>>]

IsHeader(p, row) == p.first /\ row.cells \in {"few", "enough"} /\ row.id \in HeaderIds

\* Bug: the id of a row that was rejected counts as seen.
SeenBefore(p, file, row) ==
    \E i \in ToSet(p.rules) \union ToSet(p.rejected) :
        file[i].cells = "enough" /\ file[i].id = row.id

Seen(p, file, row) == \E i \in ToSet(p.rules) : file[i].id = row.id

\* The checks a row passes, whatever the others are.
Sound(row) == row.cells = "enough" /\ row.id \in Rule /\ row.text \in Text

\* One turn of the loop, for row i.
ParseRow(p, file, i) ==
    LET row == file[i] IN
    CASE p.broken \/ row.cells = "blank" -> p
      [] ~p.broken /\ row.cells = "broken" ->
            [p EXCEPT !.broken = TRUE, !.rejected = Append(@, i)]
      [] ~p.broken /\ IsHeader(p, row) ->
            [p EXCEPT !.first = FALSE, !.header = {i}]
      [] OTHER ->
            IF Sound(row) /\ ~Seen(p, file, row)
            THEN [p EXCEPT !.first = FALSE, !.rules = Append(@, i)]
            ELSE [p EXCEPT !.first = FALSE, !.rejected = Append(@, i)]

Parse(file) ==
    LET upTo[n \in 0..Len(file)] ==
            IF n = 0 THEN Start ELSE ParseRow(upTo[n - 1], file, n)
    IN  upTo[Len(file)]

\* The accepted rules of a file, by id; absent stands for no text.
Accepted(file, absent) ==
    LET kept(r) == {i \in ToSet(Parse(file).rules) : file[i].id = r} IN
    [r \in Rule |-> IF kept(r) = {} THEN absent ELSE file[CHOOSE i \in kept(r) : TRUE].text]

-----------------------------------------------------------------------------
(* What a file should come to, row by row and without a history *)

\* The rows with content that csv.reader comes to: none after the one it breaks at.
Reached(file) ==
    {i \in DOMAIN file : /\ file[i].cells # "blank"
                         /\ \A k \in 1..(i - 1) : file[k].cells # "broken"}

Header(file) ==
    {i \in Reached(file) : /\ \A k \in Reached(file) : i <= k
                           /\ file[i].cells # "broken"
                           /\ file[i].id \in HeaderIds}

\* The first sound row of each id.
Kept(file) ==
    LET sound == {i \in Reached(file) \ Header(file) : Sound(file[i])} IN
    {i \in sound : \A k \in sound : file[k].id = file[i].id => i <= k}

\* The sequence names the rows, in order and each once.
Lists(seq, rows) ==
    ToSet(seq) = rows /\ \A i, j \in DOMAIN seq : i < j => seq[i] < seq[j]

\* Every row with content that the reader comes to is the header, a rule or
\* reported, once and in order; and of the rows with one id the first sound one
\* is the rule, so that no faulty row costs a good one its place and the merge
\* never meets an id twice (parse_rules_csv).
EveryRowCounts(file) ==
    /\ Parse(file).header = Header(file)
    /\ Lists(Parse(file).rules, Kept(file))
    /\ Lists(Parse(file).rejected, Reached(file) \ (Header(file) \union Kept(file)))

=============================================================================
