------------------------------- MODULE ReviewRun -------------------------------
(***************************************************************************)
(* What the worker counts on when it runs a review (worker/jobs.py): one   *)
(* outcome, each call paid once, no result for a file of which some batch  *)
(* was never reviewed, and nothing paid once there is an outcome, since    *)
(* the worker writes the cost of the review from the ledger at that point. *)
(* Only a run that fails may leave calls behind that are still paid.       *)
(***************************************************************************)
CONSTANTS
    Call,     \* the calls that can be paid
    Late,     \* those a failed run may still have under way
    Part,     \* the parts of the file
    Reviews(_, _)  \* does this call review this part?

VARIABLES paid, outcome

runVars == <<paid, outcome>>

Outcomes == {"done", "unparseable", "transient", "broken"}

RunInit == paid = {} /\ outcome = "none"

Pay ==
    /\ \E c \in Call \ paid :
        /\ outcome = "none" \/ (outcome # "done" /\ c \in Late)
        /\ paid' = paid \union {c}
    /\ UNCHANGED outcome

End ==
    /\ outcome = "none"
    /\ outcome' \in Outcomes
    /\ outcome' = "done" => \A p \in Part : \E c \in paid : Reviews(c, p)
    /\ UNCHANGED paid

RunSpec == RunInit /\ [][Pay \/ End]_runVars

=============================================================================
