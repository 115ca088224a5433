-------------------------- MODULE MCReviewLifecycle --------------------------
(* Instances of ReviewLifecycle for TLC. *)
EXTENDS ReviewLifecycle, TLC

\* Handlers and workers are interchangeable; so are users and reviews where a
\* run says so.
ProcessSymmetry == Permutations(Handler) \union Permutations(Worker)
ReviewSymmetry == ProcessSymmetry \union Permutations(Review)

=============================================================================
