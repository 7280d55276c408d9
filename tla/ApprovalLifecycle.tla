-------------------------- MODULE ApprovalLifecycle --------------------------
(***************************************************************************)
(* What the approval hub promises about the status of a request: it is     *)
(* proposed once, resolved once, and the reviewer recorded with the        *)
(* resolution never changes afterwards.                                    *)
(***************************************************************************)
CONSTANTS Requests, Users, None

VARIABLES status, reviewer

vars == <<status, reviewer>>

Init ==
  /\ status = [r \in Requests |-> "absent"]
  /\ reviewer = [r \in Requests |-> None]

Propose(r) ==
  /\ status[r] = "absent"
  /\ status' = [status EXCEPT ![r] = "pending"]
  /\ UNCHANGED reviewer

\* A reviewer resolves some of the pending requests: one of them, or all when
\* the queue is cleared.
Resolve(R, outcome, u) ==
  /\ \A r \in R : status[r] = "pending"
  /\ status' = [r \in Requests |-> IF r \in R THEN outcome ELSE status[r]]
  /\ reviewer' = [r \in Requests |-> IF r \in R THEN u ELSE reviewer[r]]

Next ==
  \/ \E r \in Requests : Propose(r)
  \/ \E R \in SUBSET Requests, outcome \in {"approved", "rejected"}, u \in Users :
       Resolve(R, outcome, u)

Spec == Init /\ [][Next]_vars
=============================================================================
