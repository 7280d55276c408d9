---------------------------- MODULE RunLifecycle ----------------------------
(***************************************************************************)
(* What the kill switch, the sweep and the review of requests promise      *)
(* about agent sessions, with every handler in one step: a session ends    *)
(* once; a kill ends a running session and rejects all that is pending of  *)
(* it; a request is mailed while it is pending, and resolved once.         *)
(***************************************************************************)
CONSTANTS Sessions, Requests, None

VARIABLES
  status,  \* status[s]: the state of the session
  req,     \* req[r]: the state of the request, and its session
  killed,  \* sessions a super admin killed
  mailed   \* requests whose reply was mailed

vars == <<status, req, killed, mailed>>

Init ==
  /\ status = [s \in Sessions |-> "none"]
  /\ req = [r \in Requests |-> [status |-> "none", of |-> None]]
  /\ killed = {}
  /\ mailed = {}

Ended(S, end) == [s \in Sessions |-> IF s \in S THEN end ELSE status[s]]
Resolved(R, end) ==
  [r \in Requests |-> IF r \in R THEN [req[r] EXCEPT !.status = end] ELSE req[r]]

Start(s) ==
  /\ status[s] = "none"
  /\ status' = Ended({s}, "running")
  /\ UNCHANGED <<req, killed, mailed>>

Propose(s, r) ==
  /\ status[s] = "running"
  /\ req[r].status = "none"
  /\ req' = [req EXCEPT ![r] = [status |-> "pending", of |-> s]]
  /\ UNCHANGED <<status, killed, mailed>>

End(s, end) ==
  /\ status[s] = "running"
  /\ status' = Ended({s}, end)
  /\ UNCHANGED <<req, killed, mailed>>

Kill(s) ==
  /\ status[s] = "running"
  /\ status' = Ended({s}, "terminated")
  /\ req' = Resolved({r \in Requests : req[r].status = "pending" /\ req[r].of = s}, "rejected")
  /\ killed' = killed \cup {s}
  /\ UNCHANGED mailed

Sweep(S) ==
  /\ \A s \in S : status[s] = "running"
  /\ status' = Ended(S, "terminated")
  /\ UNCHANGED <<req, killed, mailed>>

Mail(r) ==
  /\ req[r].status = "pending"
  /\ mailed' = mailed \cup {r}
  /\ UNCHANGED <<status, req, killed>>

Resolve(r, end) ==
  /\ req[r].status = "pending"
  /\ req' = Resolved({r}, end)
  /\ UNCHANGED <<status, killed, mailed>>

Next ==
  \/ \E s \in Sessions :
       \/ Start(s) \/ Kill(s)
       \/ \E end \in {"completed", "failed"} : End(s, end)
       \/ \E r \in Requests : Propose(s, r)
  \/ \E S \in SUBSET Sessions : Sweep(S)
  \/ \E r \in Requests :
       Mail(r) \/ \E end \in {"approved", "rejected"} : Resolve(r, end)

Spec == Init /\ [][Next]_vars
=============================================================================
