---------------------------- MODULE MCRulesCorpus ----------------------------
(* Instances of RulesCorpus for TLC: a file may come to any rules. *)
EXTENDS RulesCorpus

MCFile == Corpus
MCAccepts == [file \in MCFile |-> file]

=============================================================================
