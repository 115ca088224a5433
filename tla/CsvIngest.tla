------------------------------- MODULE CsvIngest -------------------------------
(***************************************************************************)
(* The ingest jobs of RulesCorpus on files of rows: each attempt of a job  *)
(* parses the file at its source_path, and what CsvRules accepts of the    *)
(* rows is what the attempts merge.                                        *)
(***************************************************************************)
EXTENDS RulesCorpus, SequencesExt

CONSTANT HeaderIds  \* first cells that begin a header

Csv == INSTANCE CsvRules

ASSUME FileAssumption ==
    /\ HeaderIds \subseteq Rule
    /\ File \subseteq Seq(Csv!Row)
    /\ Accepts = [file \in File |-> Csv!Accepted(file, None)]

-----------------------------------------------------------------------------
(* Properties *)

\* What a job reports when it is done is true of its own file, whatever its
\* attempts went through: the first sound row of each id is in the table as the
\* file has it, and the rows reported as rejected are all the others that the
\* reader came to, but for the header (parse_rules_csv, ingest, run).
DoneHasItsRows ==
    [][\A j \in Job : job[j] # "done" /\ job'[j] = "done" =>
        LET file == blob[j] IN
        /\ \A i \in Csv!Kept(file) : table[file[i].id] = file[i].text
        /\ ToSet(Csv!Parse(file).rejected) =
             Csv!Reached(file) \ (Csv!Header(file) \union Csv!Kept(file))]_vars

\* The rows of a file a done job says anything of.
Told(file) ==
    Csv!Parse(file).header \union ToSet(Csv!Parse(file).rules)
        \union ToSet(Csv!Parse(file).rejected)

\* A job that is done has taken or reported every row of its file that has
\* content.  The parser stops at the row csv.reader breaks at, and those after
\* it are neither (parse_rules_csv).
BadRowsAreNeverFatal ==
    \A j \in Job : job[j] = "done" =>
        \A i \in DOMAIN blob[j] : blob[j][i].cells # "blank" => i \in Told(blob[j])

-----------------------------------------------------------------------------
(* Why DoneHasItsRows holds *)

\* What a job merges is what the parser accepts of its file.
UploadsAreParsed ==
    \A j \in Job : job[j] # "absent" =>
        blob[j] \in Seq(Csv!Row) /\ upload[j] = Csv!Accepted(blob[j], None)

=============================================================================
