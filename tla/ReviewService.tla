----------------------------- MODULE ReviewService -----------------------------
(***************************************************************************)
(* What the service promises whoever submits files to it, whatever queues, *)
(* leases, deliveries and retries it takes: a review is accepted within    *)
(* the daily cap or served at once with the result of an equal one; once   *)
(* accepted it is pending until it shows a result of its own or has        *)
(* failed; a failed one may be retried, and a done one stays as it is.     *)
(***************************************************************************)
EXTENDS Naturals, FiniteSets

CONSTANTS
    User, Content, Review, None, Exempt, DailyLimit, TenantScope,
    RunOf(_, _)  \* is this the result of running this review?

VARIABLE shown  \* what its user is shown of each review

NotThere ==
    [status |-> "absent", owner |-> None, content |-> None, fresh |-> FALSE, result |-> None]

ServiceInit == shown = [r \in Review |-> NotThere]

FreshOf(u) == {r \in Review : shown[r].fresh /\ shown[r].owner = u}

WithinCap(u) ==
    DailyLimit = 0 \/ u \in Exempt \/ Cardinality(FreshOf(u)) < DailyLimit

Accept(r, u, c) ==
    /\ shown[r].status = "absent"
    /\ WithinCap(u)
    /\ shown' = [shown EXCEPT ![r] =
                    [status |-> "pending", owner |-> u, content |-> c, fresh |-> TRUE,
                     result |-> None]]

\* A submission like this one, in this user's scope, is done.
MayServe(s, u, c) ==
    /\ shown[s].status = "done"
    /\ shown[s].content = c
    /\ TenantScope => shown[s].owner = u

Serve(r, u, c) ==
    /\ shown[r].status = "absent"
    /\ \E s \in Review :
        /\ MayServe(s, u, c)
        /\ shown' = [shown EXCEPT ![r] =
                        [status |-> "done", owner |-> u, content |-> c, fresh |-> FALSE,
                         result |-> shown[s].result]]

Finish(r) ==
    LET run == shown'[r].result IN
    /\ shown[r].status = "pending"
    /\ shown' = [shown EXCEPT ![r].status = "done", ![r].result = run]
    /\ RunOf(run, r)

GiveUp(r) ==
    /\ shown[r].status = "pending"
    /\ shown' = [shown EXCEPT ![r].status = "failed"]

Retry(r) ==
    /\ shown[r].status = "failed"
    /\ shown' = [shown EXCEPT ![r].status = "pending"]

ServiceNext ==
    \E r \in Review :
        \/ \E u \in User, c \in Content : Accept(r, u, c) \/ Serve(r, u, c)
        \/ Finish(r) \/ GiveUp(r) \/ Retry(r)

ServiceSpec == ServiceInit /\ [][ServiceNext]_shown

=============================================================================
