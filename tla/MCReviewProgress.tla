--------------------------- MODULE MCReviewProgress ---------------------------
(***************************************************************************)
(* ReviewLifecycle with a history variable: whether a process died or a    *)
(* delivery was repeated.  Until then a review has to settle without       *)
(* anyone's help; afterwards its user may have to retry it.                *)
(***************************************************************************)
EXTENDS ReviewLifecycle

VARIABLE mishap

progressVars == <<vars, mishap>>

Mishap ==
    \/ \E h \in Handler : HandlerAborts(h)
    \/ \E w \in Worker : WorkerAborts(w)
    \/ \E r \in Review, g \in Generation : Redeliver(r, g)

ProgressInit == Init /\ mishap = FALSE

ProgressNext == Next /\ mishap' = (mishap \/ Mishap)

\* The fairness is about the variables of the system only.
ProgressSpec ==
    /\ ProgressInit
    /\ [][ProgressNext]_progressVars
    /\ Fairness
    /\ UsersRetry

Unsettled(r) == review[r].status \in {"queued", "running"}

\* Every review that is queued or running is done or failed at last.  It takes
\* nobody's help until a process dies or a delivery is repeated; from then on
\* it takes users who retry what is stalled, and a retry finds an unused
\* generation whatever the earlier ones left behind (process, retry, _enqueue).
\* At MaxGeneration the bound, not the code, ends the retries.
EventuallySettles ==
    \A r \in Review :
        Unsettled(r) ~> ~Unsettled(r) \/ (mishap /\ review[r].generation = MaxGeneration)

\* Only a dead process or a repeated delivery leaves a review for its user to
\* find stalled: a queued one that no request holds has a task, and a running
\* one has a worker (_enqueue, _retry_or_fail, Cloud Tasks).
NeverStalledUnprovoked == \A r \in Review : IsStalled(r) => mishap

=============================================================================
