----------------------------- MODULE MCWarehouse -----------------------------
(* An instance of Warehouse for TLC. *)
EXTENDS Warehouse, TLC

CONSTANT TheServer

\* All threads are of one process, and share its cache and its schema flag.
HomeOfAll == [x \in Writer \union Reader |-> TheServer]

\* A review with findings, or one that failed.
Outcomes == {[status |-> "done", found |-> TRUE], [status |-> "failed", found |-> FALSE]}

\* Threads of one kind, reviews and runs are interchangeable.
WarehouseSymmetry ==
    Permutations(Writer) \union Permutations(Reader) \union Permutations(Review)
    \union Permutations(Run)

=============================================================================
