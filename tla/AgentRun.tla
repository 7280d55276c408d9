------------------------------ MODULE AgentRun ------------------------------
(***************************************************************************)
(* Agent sessions and what may end them: the run itself, the super admin's *)
(* kill switch and the sweep of orphaned sessions, together with the       *)
(* approval requests a run leaves behind and the reviewers that act on     *)
(* them.                                                                   *)
(*                                                                         *)
(* A run is a process of a worker (proc) and a row (status).  Kill, sweep  *)
(* and review are handlers of other processes: each reads its rows first   *)
(* and commits what it decided later (op).                                 *)
(***************************************************************************)
EXTENDS Naturals, FiniteSets

CONSTANTS
  Sessions,  \* agent sessions
  Requests,  \* gmail_reply requests the runs may propose
  Ops,       \* handlers that may be in progress at once
  None       \* a request of no session

ASSUME ConstantsAssumption == None \notin Sessions

VARIABLES
  status,    \* agent_sessions.status, or "none"
  old,       \* sessions created more than STALE_SESSION_AFTER_MINUTES ago
  proc,      \* the process of the run: "none", "setup", "loop", "dead"
  req,       \* req[r]: the approval_requests row
  op,        \* op[o]: a handler between its reads and its commit
  killAudit, \* sessions with an admin.session_killed row
  late,      \* history: requests proposed after a kill had read the rows
  sent,      \* history: sent[r], whether Gmail took r, before or after a kill
  crossed    \* history: a handler began while another was at work, or a kill
             \* or sweep took a session whose run was alive

vars == <<status, old, proc, req, op, killAudit, late, sent, crossed>>

Ends == {"completed", "failed", "terminated"}
Resolved == {"approved", "rejected"}
Request == [status : {"none", "pending"} \cup Resolved, of : Sessions \cup {None}]
Reviews == {"execute", "approve", "reject"}
Op == [pc : {"idle", "kill", "sweep"} \cup Reviews,
       of : SUBSET Sessions, reqs : SUBSET Requests]
Idle == [pc |-> "idle", of |-> {}, reqs |-> {}]

TypeOK ==
  /\ status \in [Sessions -> {"none", "running"} \cup Ends]
  /\ old \subseteq Sessions
  /\ proc \in [Sessions -> {"none", "setup", "loop", "dead"}]
  /\ req \in [Requests -> Request]
  /\ op \in [Ops -> Op]
  /\ killAudit \subseteq Sessions
  /\ late \subseteq Requests
  /\ sent \in [Requests -> {"no", "open", "killed"}]
  /\ crossed \in BOOLEAN

Init ==
  /\ status = [s \in Sessions |-> "none"]
  /\ old = {}
  /\ proc = [s \in Sessions |-> "none"]
  /\ req = [r \in Requests |-> [status |-> "none", of |-> None]]
  /\ op = [o \in Ops |-> Idle]
  /\ killAudit = {}
  /\ late = {}
  /\ sent = [r \in Requests |-> "no"]
  /\ crossed = FALSE

Alive(s) == proc[s] \in {"setup", "loop"}

\* Variant: every request of the session.
RequestsOf(s) == {r \in Requests : req[r].of = s}

\* The pending requests of a session.
PendingOf(s) == {r \in Requests : req[r].status = "pending" /\ req[r].of = s}

\* Sessions whose pending requests some kill has already read.
BeingKilled == UNION {op[o].of : o \in {q \in Ops : op[q].pc = "kill"}}

-----------------------------------------------------------------------------
(* The run *)

\* The running row is committed before anything else.
Start(s) ==
  /\ proc[s] = "none"
  /\ proc' = [proc EXCEPT ![s] = "setup"]
  /\ status' = [status EXCEPT ![s] = "running"]
  /\ UNCHANGED <<old, req, op, killAudit, late, sent>>

\* Rules, tool servers and credentials are resolved ..
Setup(s) ==
  /\ proc[s] = "setup"
  /\ proc' = [proc EXCEPT ![s] = "loop"]
  /\ UNCHANGED <<status, old, req, op, killAudit, late, sent>>

\* .. outside the try block: an error here leaves the row running.
SetupFails(s) ==
  /\ proc[s] = "setup"
  /\ proc' = [proc EXCEPT ![s] = "dead"]
  /\ UNCHANGED <<status, old, req, op, killAudit, late, sent>>

\* The hook persists a pending request; it does not look at the session row.
Propose(s, r) ==
  /\ proc[s] = "loop"
  /\ req[r].status = "none"
  /\ req' = [req EXCEPT ![r] = [status |-> "pending", of |-> s]]
  /\ late' = IF status[s] = "terminated" \/ s \in BeingKilled
             THEN late \cup {r} ELSE late
  /\ UNCHANGED <<status, old, proc, op, killAudit, sent>>

\* The loop returned or raised: the run writes its end over the row.
Finish(s, end) ==
  /\ proc[s] = "loop"
  /\ end \in {"completed", "failed"}
  /\ proc' = [proc EXCEPT ![s] = "dead"]
  /\ status' = [status EXCEPT ![s] = end]
  /\ UNCHANGED <<old, req, op, killAudit, late, sent>>

WorkerCrash(s) ==
  /\ Alive(s)
  /\ proc' = [proc EXCEPT ![s] = "dead"]
  /\ UNCHANGED <<status, old, req, op, killAudit, late, sent>>

Age(s) ==
  /\ status[s] # "none"
  /\ s \notin old
  /\ old' = old \cup {s}
  /\ UNCHANGED <<status, proc, req, op, killAudit, late, sent>>

-----------------------------------------------------------------------------
(* The kill switch *)

\* 409 unless the session is running; then read its pending requests.
BeginKill(o, s) ==
  /\ op[o].pc = "idle"
  /\ status[s] = "running"
  /\ op' = [op EXCEPT ![o] = [pc |-> "kill", of |-> {s}, reqs |-> PendingOf(s)]]
  /\ UNCHANGED <<status, old, proc, req, killAudit, late, sent>>

\* Variant: only the session is terminated.
CommitKillSession(o) ==
  /\ op[o].pc = "kill"
  /\ status' = [s \in Sessions |-> IF s \in op[o].of THEN "terminated" ELSE status[s]]
  /\ killAudit' = killAudit \cup op[o].of
  /\ op' = [op EXCEPT ![o] = Idle]
  /\ UNCHANGED <<old, proc, req, late, sent>>

\* Variant: the audit row is written for kills that cancel something.
CommitKillQuietly(o) ==
  /\ op[o].pc = "kill"
  /\ status' = [s \in Sessions |-> IF s \in op[o].of THEN "terminated" ELSE status[s]]
  /\ req' = [r \in Requests |-> IF r \in op[o].reqs
               THEN [req[r] EXCEPT !.status = "rejected"] ELSE req[r]]
  /\ killAudit' = IF op[o].reqs = {} THEN killAudit ELSE killAudit \cup op[o].of
  /\ op' = [op EXCEPT ![o] = Idle]
  /\ UNCHANGED <<old, proc, late, sent>>

\* Terminate the session, reject the requests read, audit: one commit.
CommitKill(o) ==
  /\ op[o].pc = "kill"
  /\ status' = [s \in Sessions |-> IF s \in op[o].of THEN "terminated" ELSE status[s]]
  /\ req' = [r \in Requests |-> IF r \in op[o].reqs
               THEN [req[r] EXCEPT !.status = "rejected"] ELSE req[r]]
  /\ killAudit' = killAudit \cup op[o].of
  /\ op' = [op EXCEPT ![o] = Idle]
  /\ UNCHANGED <<old, proc, late, sent>>

-----------------------------------------------------------------------------
(* The sweep of orphaned sessions *)

Stale == {s \in Sessions : status[s] = "running" /\ s \in old}

BeginSweep(o) ==
  /\ op[o].pc = "idle"
  /\ Stale # {}
  /\ op' = [op EXCEPT ![o] = [pc |-> "sweep", of |-> Stale, reqs |-> {}]]
  /\ UNCHANGED <<status, old, proc, req, killAudit, late, sent>>

\* Variant: the sweep's session is closed without a commit.
CommitSweepNothing(o) ==
  /\ op[o].pc = "sweep"
  /\ op' = [op EXCEPT ![o] = Idle]
  /\ UNCHANGED <<status, old, proc, req, killAudit, late, sent>>

\* The requests of a swept session stay as they are.
CommitSweep(o) ==
  /\ op[o].pc = "sweep"
  /\ status' = [s \in Sessions |-> IF s \in op[o].of THEN "terminated" ELSE status[s]]
  /\ op' = [op EXCEPT ![o] = Idle]
  /\ UNCHANGED <<old, proc, req, killAudit, late, sent>>

-----------------------------------------------------------------------------
(* Reviewers: execute (approve_draft, approve_send), approve and reject *)

\* Variant: the status of the row is not looked at.
BeginReviewAny(o, r, pc) ==
  /\ op[o].pc = "idle"
  /\ pc \in Reviews
  /\ req[r].status # "none"
  /\ op' = [op EXCEPT ![o] = [pc |-> pc, of |-> {}, reqs |-> {r}]]
  /\ UNCHANGED <<status, old, proc, req, killAudit, late, sent>>

\* The row must be pending when it is read; nobody asks about its session.  An
\* approve resolves it without a call of Gmail.
BeginReview(o, r, pc) ==
  /\ op[o].pc = "idle"
  /\ pc \in Reviews
  /\ req[r].status = "pending"
  /\ op' = [op EXCEPT ![o] = [pc |-> pc, of |-> {}, reqs |-> {r}]]
  /\ UNCHANGED <<status, old, proc, req, killAudit, late, sent>>

\* Gmail takes the reply; what is left to do is what an approve does.
CallGmail(o) ==
  /\ op[o].pc = "execute"
  /\ sent' = [r \in Requests |->
       IF r \notin op[o].reqs THEN sent[r]
       ELSE IF req[r].of \in killAudit THEN "killed"
       ELSE IF sent[r] = "no" THEN "open" ELSE sent[r]]
  /\ op' = [op EXCEPT ![o].pc = "approve"]
  /\ UNCHANGED <<status, old, proc, req, killAudit, late>>

\* Gmail fails, or the process dies: nothing is written.
Abort(o) ==
  /\ op[o].pc # "idle"
  /\ op' = [op EXCEPT ![o] = Idle]
  /\ UNCHANGED <<status, old, proc, req, killAudit, late, sent>>

\* The request is resolved, whatever its row says by now.
CommitReview(o) ==
  /\ op[o].pc \in {"approve", "reject"}
  /\ req' = [r \in Requests |-> IF r \in op[o].reqs
               THEN [req[r] EXCEPT !.status =
                       IF op[o].pc = "reject" THEN "rejected" ELSE "approved"]
               ELSE req[r]]
  /\ op' = [op EXCEPT ![o] = Idle]
  /\ UNCHANGED <<status, old, proc, killAudit, late, sent>>

-----------------------------------------------------------------------------
RunNext(s) ==
  \/ Start(s) \/ Setup(s) \/ SetupFails(s) \/ WorkerCrash(s) \/ Age(s)
  \/ \E r \in Requests : Propose(s, r)
  \/ \E end \in {"completed", "failed"} : Finish(s, end)

OpNext(o) ==
  \/ \E s \in Sessions : BeginKill(o, s)
  \/ BeginSweep(o)
  \/ \E r \in Requests, pc \in Reviews : BeginReview(o, r, pc)
  \/ CommitKill(o) \/ CommitSweep(o) \/ CallGmail(o) \/ CommitReview(o) \/ Abort(o)

Step == (\E s \in Sessions : RunNext(s)) \/ (\E o \in Ops : OpNext(o))

\* What the step adds to the history.
Crosses(o) ==
  /\ op[o].pc = "idle" /\ op'[o].pc # "idle"
  /\ (\E q \in Ops : op[q].pc # "idle") \/ (\E s \in op'[o].of : Alive(s))
Observe == crossed' = (crossed \/ \E o \in Ops : Crosses(o))

Next == Step /\ Observe

Spec == Init /\ [][Next]_vars

\* Time passes, and the sweep runs every quarter of an hour: it starts again
\* and again, and a commit that keeps being tried succeeds.
Fairness ==
  /\ \A s \in Sessions : WF_vars(Age(s) /\ Observe)
  /\ \A o \in Ops :
       /\ SF_vars(BeginSweep(o) /\ Observe)
       /\ SF_vars(CommitSweep(o) /\ Observe)
       /\ WF_vars((CommitKill(o) \/ CommitReview(o) \/ CallGmail(o) \/ Abort(o)) /\ Observe)

FairSpec == Spec /\ Fairness

-----------------------------------------------------------------------------
(* Correctness *)

\* Once a session is killed, a request of it is open only if the run
\* proposed it after the kill had read the requests (kill_session).
KilledPendingIsLate ==
  \A r \in Requests :
    req[r].status = "pending" /\ req[r].of \in killAudit => r \in late

\* Every termination is accounted for: the super admin's audit row, or an age
\* at which the sweep may take the session (kill_session, the sweep).
TerminationIsExplained ==
  \A s \in Sessions : status[s] = "terminated" => s \in killAudit \/ s \in old

\* A session does not stay running for ever, whether its run ends, dies in
\* its setup or with its worker (sweep_stale_running_sessions).
RunningEnds == \A s \in Sessions : status[s] = "running" ~> status[s] # "running"

-----------------------------------------------------------------------------
(* What kill_session's documentation says of it, and how far it holds: as    *)
(* long as handlers do not overlap and kill and sweep meet orphans only.     *)

\* How a session ended never changes: neither does the run write its end over a
\* termination, nor does a kill or a sweep touch a session that ended itself
\* (kill_session's 409, the sweep's condition, "terminated" as a terminal value).
EndIsFinal ==
  [][\A s \in Sessions : status[s] \in Ends /\ status'[s] # status[s] => crossed]_vars

\* No gated call of a killed session proceeds.
KilledNeverProceeds == \A r \in Requests : sent[r] # "killed"

\* The same for orphans that are killed with no other handler at work.
KilledOrphansNeverProceed == crossed \/ KilledNeverProceeds

\* A kill leaves approved requests approved.
KillKeepsResolved ==
  [][\A r \in Requests :
       /\ req[r].status = "approved" /\ req'[r].status # "approved"
       /\ \E o \in Ops : op[o].pc = "kill" /\ op'[o].pc = "idle"
       => crossed]_vars

Lifecycle == INSTANCE RunLifecycle WITH
  killed <- killAudit,
  mailed <- {r \in Requests : sent[r] # "no"}

\* Until handlers cross each other or a live run, each of them might as well be
\* one step of RunLifecycle: what a kill, a sweep or a review read before its
\* commit still holds at the commit (kill_session, sweep_stale_running_sessions,
\* execute_and_approve_request, resolve_request).
HandlersAreAtomic ==
  Lifecycle!Init /\ [][crossed \/ Lifecycle!Next]_(Lifecycle!vars)
=============================================================================
