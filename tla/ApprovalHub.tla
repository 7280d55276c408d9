----------------------------- MODULE ApprovalHub -----------------------------
(***************************************************************************)
(* The approval hub: the approval_requests table, the API handlers that    *)
(* resolve, edit, schedule and execute its rows, and the worker's cron     *)
(* that sends the scheduled ones.                                          *)
(*                                                                         *)
(* Every handler reads the row it works on once, at its start (the         *)
(* SQLAlchemy identity map answers every later session.get), and writes it *)
(* at its end with an UPDATE by primary key: no row lock, no version       *)
(* column, READ COMMITTED.  A handler is therefore two actions or three:   *)
(* Begin.., the Gmail call if it makes one, and Commit..; between them the *)
(* handler is a record of "flight".                                        *)
(*                                                                         *)
(* A definition whose comment starts with "Variant" is the next definition *)
(* with a plausible defect; no specification uses it.  TLC finds the       *)
(* property named for it in PROJECT.json violated when it takes the place  *)
(* of the original.                                                        *)
(***************************************************************************)
EXTENDS Naturals, FiniteSets

CONSTANTS
  Requests,     \* identities of approval_requests rows
  WithSource,   \* the requests whose arguments carry a source_message_id
  Users,        \* reviewers holding RESOLVE_APPROVAL in the workspace
  Bodies,       \* drafts a reply can carry
  NoDraft,      \* the arguments of a request with no body.message.raw
  None,         \* an absent reviewer, schedule or scheduling user
  Handlers,     \* API requests that may be in progress at once
  Sweeps,       \* runs of send_scheduled_replies that may overlap
  MaxTime,      \* bound: ticks of the clock
  MaxCalls      \* bound: API calls on existing requests in one behaviour

ASSUME ConstantsAssumption ==
  /\ WithSource \subseteq Requests
  /\ NoDraft \notin Bodies
  /\ None \notin Users
  /\ None \notin Nat
  /\ Handlers \cap Sweeps = {}
  /\ MaxTime \in Nat
  /\ MaxCalls \in Nat

VARIABLES
  row,      \* row[r]: the committed approval_requests row
  seen,     \* requests whose source message is in processed_messages
  mail,     \* replies Gmail accepted
  sends,    \* sends[r]: messages/send calls Gmail accepted, 2 meaning several
  audit,    \* system_audit_logs rows about approvals
  decided,  \* history: drafts a reviewer chose to draft, send or schedule
  flight,   \* handlers and sweep items between their first read and commit
  clock,    \* wall clock, in minutes of the cron
  calls,    \* API calls made so far
  overlapped \* history: some handler or sweep began while another was at work

vars == <<row, seen, mail, sends, audit, decided, flight, clock, calls, overlapped>>

Terminal == {"approved", "rejected"}
Resolutions == {"approve", "reject"}
Executions == {"draft", "send"}

\* The arguments column: the stored draft and the two schedule keys.
Arguments == [body : Bodies \cup {NoDraft}, at : Nat \cup {None},
              by : Users \cup {None}]
Unscheduled(b) == [body |-> b, at |-> None, by |-> None]

Row == [status   : {"absent", "pending"} \cup Terminal,
        args     : Arguments,
        reviewer : Users \cup {None}]

\* A handler in progress.  args is the value of the column it read, or for
\* "edit" and "schedule" the one it will write.
Flight == [id   : Handlers \cup Sweeps,
           op   : Resolutions \cup Executions \cup
                  {"edit", "schedule", "clear", "sweep"},
           req  : Requests,
           user : Users \cup {None},
           args : Arguments,
           pc   : {"queued", "loaded", "accepted"}]

Reply == [req : Requests, kind : Executions, body : Bodies \cup {NoDraft},
          by : Users \cup {None}]
AuditRow == [req : Requests, user : Users \cup {None},
             action : {"approved", "rejected", "scheduled"}]
Decision == [req : Requests, body : Bodies \cup {NoDraft},
             user : Users \cup {None}]

TypeOK ==
  /\ row \in [Requests -> Row]
  /\ seen \subseteq Requests
  /\ mail \subseteq Reply
  /\ sends \in [Requests -> 0..2]
  /\ audit \subseteq AuditRow
  /\ decided \subseteq Decision
  /\ flight \subseteq Flight
  /\ clock \in 0..MaxTime
  /\ calls \in 0..MaxCalls
  /\ overlapped \in BOOLEAN

Init ==
  /\ row = [r \in Requests |-> [status |-> "absent", args |-> Unscheduled(NoDraft),
                                reviewer |-> None]]
  /\ seen = {}
  /\ mail = {}
  /\ sends = [r \in Requests |-> 0]
  /\ audit = {}
  /\ decided = {}
  /\ flight = {}
  /\ clock = 0
  /\ calls = 0
  /\ overlapped = FALSE

-----------------------------------------------------------------------------
(* Helpers *)

Pending(r) == row[r].status = "pending"
Busy(h) == \E f \in flight : f.id = h
Of(h) == {f \in flight : f.id = h}

\* The row is due for the cron: scheduled, and its time has come.
Due(r) == Pending(r) /\ row[r].args.at # None /\ row[r].args.at <= clock
DueReply(r) == Due(r) /\ row[r].args.body # NoDraft

\* Variant: the pending check is forgotten.
EnterUnchecked(h, op, r, u, args) ==
  /\ calls < MaxCalls
  /\ ~Busy(h)
  /\ row[r].status # "absent"
  /\ flight' = flight \cup {[id |-> h, op |-> op, req |-> r, user |-> u,
                             args |-> args, pc |-> "loaded"]}
  /\ calls' = calls + 1

\* A new handler h of an API call; the call ends at once with an error, and
\* changes nothing, unless the row it reads is pending.
Enter(h, op, r, u, args) ==
  /\ calls < MaxCalls
  /\ ~Busy(h)
  /\ Pending(r)
  /\ flight' = flight \cup {[id |-> h, op |-> op, req |-> r, user |-> u,
                             args |-> args, pc |-> "loaded"]}
  /\ calls' = calls + 1

\* The handler goes on to its next step, or returns.
Advance(f, pc) == flight' = (flight \ {f}) \cup {[f EXCEPT !.pc = pc]}
Return(f) == flight' = flight \ {f}

-----------------------------------------------------------------------------
(* The before-tool-call hook *)

\* Persist a pending row for a gated tool call: a reply draft, or another
\* provider call, which carries no draft.
Propose(r, b) ==
  /\ row[r].status = "absent"
  /\ row' = [row EXCEPT ![r] = [status |-> "pending", args |-> Unscheduled(b),
                                reviewer |-> None]]
  /\ UNCHANGED <<seen, mail, sends, audit, decided, flight, clock, calls>>

-----------------------------------------------------------------------------
(* First part of each API handler: read the row, check it *)

BeginResolve(h, op, r, u) ==
  /\ Enter(h, op, r, u, row[r].args)
  /\ UNCHANGED <<row, seen, mail, sends, audit, decided, clock>>

\* Variant: the rebuilt arguments keep the schedule keys.
BeginEditKeepingSchedule(h, r, b) ==
  /\ Enter(h, "edit", r, None, [row[r].args EXCEPT !.body = b])
  /\ UNCHANGED <<row, seen, mail, sends, audit, decided, clock>>

\* edit_request and regenerate_request rebuild the arguments from scratch:
\* the schedule keys are not carried over.
BeginEdit(h, r, b) ==
  /\ Enter(h, "edit", r, None, Unscheduled(b))
  /\ UNCHANGED <<row, seen, mail, sends, audit, decided, clock>>

\* schedule_request copies the arguments it read and sets the schedule keys;
\* a time not in the future is refused.
BeginSchedule(h, r, u, t) ==
  /\ t > clock
  /\ Enter(h, "schedule", r, u, [row[r].args EXCEPT !.at = t, !.by = u])
  /\ decided' = decided \cup {[req |-> r, body |-> row[r].args.body, user |-> u]}
  /\ UNCHANGED <<row, seen, mail, sends, audit, clock>>

\* Variant: only the draft is looked at, not the status.
BeginExecuteUnchecked(h, op, r, u) ==
  /\ row[r].args.body # NoDraft
  /\ EnterUnchecked(h, op, r, u, row[r].args)
  /\ decided' = decided \cup {[req |-> r, body |-> row[r].args.body, user |-> u]}
  /\ UNCHANGED <<row, seen, mail, sends, audit, clock>>

\* execute_and_approve_request refuses a request that has no draft.
BeginExecute(h, op, r, u) ==
  /\ row[r].args.body # NoDraft
  /\ Enter(h, op, r, u, row[r].args)
  /\ decided' = decided \cup {[req |-> r, body |-> row[r].args.body, user |-> u]}
  /\ UNCHANGED <<row, seen, mail, sends, audit, clock>>

\* reject_all_pending loads every pending row of the workspace.
BeginClear(h, u) ==
  /\ calls < MaxCalls
  /\ ~Busy(h)
  /\ \E r \in Requests : Pending(r)
  /\ flight' = flight \cup
       {[id |-> h, op |-> "clear", req |-> r, user |-> u, args |-> row[r].args,
         pc |-> "loaded"] : r \in {q \in Requests : Pending(q)}}
  /\ calls' = calls + 1
  /\ UNCHANGED <<row, seen, mail, sends, audit, decided, clock>>

-----------------------------------------------------------------------------
(* send_scheduled_replies: one session for the whole sweep *)

\* Variant: strictly before the present time.
SweepLoadStrictly(s) ==
  /\ ~Busy(s)
  /\ \E r \in Requests : Due(r) /\ row[r].args.at < clock
  /\ flight' = flight \cup
       {[id |-> s, op |-> "sweep", req |-> r, user |-> row[r].args.by,
         args |-> row[r].args, pc |-> "queued"] :
          r \in {q \in Requests : Due(q) /\ row[q].args.at < clock}}
  /\ UNCHANGED <<row, seen, mail, sends, audit, decided, clock, calls>>

\* list_due_scheduled reads the due rows; the sweep works on these copies.
SweepLoad(s) ==
  /\ ~Busy(s)
  /\ \E r \in Requests : Due(r)
  /\ flight' = flight \cup
       {[id |-> s, op |-> "sweep", req |-> r, user |-> row[r].args.by,
         args |-> row[r].args, pc |-> "queued"] : r \in {q \in Requests : Due(q)}}
  /\ UNCHANGED <<row, seen, mail, sends, audit, decided, clock, calls>>

\* The sweep takes its next item, one at a time.  The session still holds the
\* status it loaded, so the item is executed whatever the row is now.
SweepNext(f) ==
  /\ f.pc = "queued"
  /\ \A g \in Of(f.id) : g.pc = "queued"
  /\ IF f.args.body = NoDraft THEN Return(f) ELSE Advance(f, "loaded")
  /\ UNCHANGED <<row, seen, mail, sends, audit, decided, clock, calls>>

-----------------------------------------------------------------------------
(* The Gmail call of an execution *)

CallsGmail(f) == f.pc = "loaded" /\ f.op \in Executions \cup {"sweep"}
Kind(f) == IF f.op = "draft" THEN "draft" ELSE "send"

\* Gmail creates the draft or sends the message.
Deliver(f) ==
  /\ mail' = mail \cup {[req |-> f.req, kind |-> Kind(f), body |-> f.args.body,
                         by |-> f.user]}
  /\ sends' = IF Kind(f) = "send" /\ sends[f.req] < 2
              THEN [sends EXCEPT ![f.req] = @ + 1] ELSE sends

GmailAccepts(f) ==
  /\ CallsGmail(f)
  /\ Deliver(f)
  /\ Advance(f, "accepted")
  /\ UNCHANGED <<row, seen, audit, decided, clock, calls>>

\* Variant: the result of the Gmail call is not checked.
GmailRefusalIgnored(f) ==
  /\ CallsGmail(f)
  /\ Advance(f, "accepted")
  /\ UNCHANGED <<row, seen, mail, sends, audit, decided, clock, calls>>

\* The credentials do not resolve or Gmail answers with an error: 502, the row
\* stays as it is.  A sweep goes on with its next item.
GmailRefuses(f) ==
  /\ CallsGmail(f)
  /\ Return(f)
  /\ UNCHANGED <<row, seen, mail, sends, audit, decided, clock, calls>>

\* Gmail did the work but its answer is lost to a timeout: the same 502.
GmailAnswerLost(f) ==
  /\ CallsGmail(f)
  /\ Deliver(f)
  /\ Return(f)
  /\ UNCHANGED <<row, seen, audit, decided, clock, calls>>

-----------------------------------------------------------------------------
(* Last part of each handler: write and commit *)

Outcome(f) == IF f.op \in {"reject", "clear"} THEN "rejected" ELSE "approved"

\* resolve_request decides on the status the handler loaded, which was pending.
Resolves(f) == \/ f.op \in Resolutions /\ f.pc = "loaded"
               \/ f.op \in Executions \cup {"sweep"} /\ f.pc = "accepted"

\* Variant: a reviewer already recorded is kept.
CommitResolveFirstReviewer(f) ==
  /\ Resolves(f)
  /\ row' = [row EXCEPT ![f.req].status = Outcome(f),
                        ![f.req].reviewer = IF @ = None THEN f.user ELSE @]
  /\ audit' = audit \cup {[req |-> f.req, user |-> f.user, action |-> Outcome(f)]}
  /\ seen' = IF f.pc = "accepted" THEN seen \cup ({f.req} \cap WithSource) ELSE seen
  /\ Return(f)
  /\ UNCHANGED <<mail, sends, decided, clock, calls>>

CommitResolve(f) ==
  /\ Resolves(f)
  /\ row' = [row EXCEPT ![f.req].status = Outcome(f), ![f.req].reviewer = f.user]
  /\ audit' = audit \cup {[req |-> f.req, user |-> f.user, action |-> Outcome(f)]}
  /\ seen' = IF f.pc = "accepted" THEN seen \cup ({f.req} \cap WithSource) ELSE seen
  /\ Return(f)
  /\ UNCHANGED <<mail, sends, decided, clock, calls>>

\* Variant: the whole row is written back as it was loaded.
CommitArgumentsAndStatus(f) ==
  /\ f.op \in {"edit", "schedule"}
  /\ row' = [row EXCEPT ![f.req] = [status |-> "pending", args |-> f.args,
                                    reviewer |-> None]]
  /\ audit' = IF f.op = "schedule"
              THEN audit \cup {[req |-> f.req, user |-> f.user, action |-> "scheduled"]}
              ELSE audit
  /\ Return(f)
  /\ UNCHANGED <<seen, mail, sends, decided, clock, calls>>

\* edit, regenerate and schedule write the arguments column only.
CommitArguments(f) ==
  /\ f.op \in {"edit", "schedule"}
  /\ row' = [row EXCEPT ![f.req].args = f.args]
  /\ audit' = IF f.op = "schedule"
              THEN audit \cup {[req |-> f.req, user |-> f.user, action |-> "scheduled"]}
              ELSE audit
  /\ Return(f)
  /\ UNCHANGED <<seen, mail, sends, decided, clock, calls>>

\* reject_all_pending writes all the rows it loaded in one transaction.
CommitClear(h) ==
  /\ \E f \in Of(h) : f.op = "clear"
  /\ row' = [r \in Requests |->
               IF \E f \in Of(h) : f.req = r
               THEN [row[r] EXCEPT !.status = "rejected",
                                   !.reviewer = (CHOOSE f \in Of(h) : f.req = r).user]
               ELSE row[r]]
  /\ audit' = audit \cup
       {[req |-> f.req, user |-> f.user, action |-> "rejected"] : f \in Of(h)}
  /\ flight' = flight \ Of(h)
  /\ UNCHANGED <<seen, mail, sends, decided, clock, calls>>

-----------------------------------------------------------------------------
(* The process dies, the client goes away or the commit fails: the handler,  *)
(* or the sweep with everything it had queued, is gone and wrote nothing.    *)
Abort(h) ==
  /\ Busy(h)
  /\ flight' = flight \ Of(h)
  /\ UNCHANGED <<row, seen, mail, sends, audit, decided, clock, calls>>

Tick ==
  /\ clock < MaxTime
  /\ clock' = clock + 1
  /\ UNCHANGED <<row, seen, mail, sends, audit, decided, flight, calls>>

-----------------------------------------------------------------------------
Step ==
  \/ \E r \in Requests, b \in Bodies \cup {NoDraft} : Propose(r, b)
  \/ \E h \in Handlers, r \in Requests :
       \/ \E op \in Resolutions, u \in Users : BeginResolve(h, op, r, u)
       \/ \E b \in Bodies : BeginEdit(h, r, b)
       \/ \E u \in Users, t \in 1..MaxTime : BeginSchedule(h, r, u, t)
       \/ \E op \in Executions, u \in Users : BeginExecute(h, op, r, u)
  \/ \E h \in Handlers, u \in Users : BeginClear(h, u)
  \/ \E h \in Handlers : CommitClear(h)
  \/ \E s \in Sweeps : SweepLoad(s)
  \/ \E f \in flight :
       \/ SweepNext(f)
       \/ GmailAccepts(f)
       \/ GmailRefuses(f)
       \/ GmailAnswerLost(f)
       \/ CommitResolve(f)
       \/ CommitArguments(f)
  \/ \E h \in Handlers \cup Sweeps : Abort(h)
  \/ Tick

\* What the step adds to the history.
Observe ==
  overlapped' = (overlapped \/ (flight # {} /\ \E f \in flight' : ~Busy(f.id)))

Next == Step /\ Observe

Spec == Init /\ [][Next]_vars

(* The worker is up: its cron fires every minute (arq) and an item of a sweep *)
(* goes on to its end.  Gmail, the database and the worker may fail any       *)
(* number of times, but not every time: hence strong fairness.                *)
SweepFairness ==
  \A s \in Sweeps :
    /\ WF_vars(SweepLoad(s) /\ Observe)
    /\ \A r \in Requests :
         /\ SF_vars((\E f \in Of(s) : f.req = r /\ SweepNext(f)) /\ Observe)
         /\ SF_vars((\E f \in Of(s) : f.req = r /\ GmailAccepts(f)) /\ Observe)
         /\ SF_vars((\E f \in Of(s) : f.req = r /\ CommitResolve(f)) /\ Observe)

FairSpec == Spec /\ SweepFairness

-----------------------------------------------------------------------------
(* Properties *)

\* What reaches Gmail is a draft that the reviewer it is sent for chose: the
\* draft execute_and_approve_request or schedule_request read when that
\* reviewer called it.  It holds across later edits because rebuilding the
\* arguments drops the schedule, and across overlapping handlers because the
\* draft and the schedule keys are written as one column.
SentDraftWasChosen ==
  \A m \in mail : [req |-> m.req, body |-> m.body, user |-> m.by] \in decided

\* A source message is recorded as replied to only if Gmail accepted a reply:
\* record_seen_one commits with the approval, after the Gmail call.
SeenOnlyAfterReply ==
  \A r \in seen : \E m \in mail : m.req = r

\* Whoever the row names as the reviewer of its resolution has an audit row
\* for that very resolution, also when two resolutions overlapped.
ResolutionIsAudited ==
  \A r \in Requests :
    row[r].status \in Terminal =>
      [req |-> r, user |-> row[r].reviewer, action |-> row[r].status] \in audit

\* A resolved request never returns to the queue, whatever edit, regeneration
\* or schedule commits after its resolution.
ResolvedNeverReopens ==
  [][\A r \in Requests : row[r].status \in Terminal => row'[r].status \in Terminal]_vars

\* A due reply does not stay due: the cron sends it, retrying after failures
\* and restarts, unless a reviewer resolves, edits or reschedules it first.  (A
\* schedule committed late can take the draft away again: that row stays due
\* and every sweep skips it.)
DueIsHandled ==
  \A r \in Requests : DueReply(r) ~> ~DueReply(r)

-----------------------------------------------------------------------------
(* Claims of the documentation, and how far they hold: as long as no handler *)
(* or sweep begins while another is at work.                                 *)

Lifecycle == INSTANCE ApprovalLifecycle
               WITH status <- [r \in Requests |-> row[r].status],
                    reviewer <- [r \in Requests |-> row[r].reviewer]

\* A request is resolved once: approving or rejecting a resolved one is a
\* conflict and leaves the row alone (resolve_request).  Until two handlers or
\* sweeps overlap the hub implements ApprovalLifecycle.
ResolvedOnce ==
  Lifecycle!Init /\ [][overlapped \/ Lifecycle!Next]_(Lifecycle!vars)

MailLeaves(r) ==
  {m \in mail' : m.req = r} # {m \in mail : m.req = r} \/ sends'[r] # sends[r]

\* An already resolved request is refused before any side effect
\* (execute_and_approve_request): no mail leaves for it.
NoMailOnceResolved ==
  [][\A r \in Requests : row[r].status \in Terminal => ~MailLeaves(r)]_vars

\* The same, as far as it holds: it takes an overlap to mail a reply for a
\* request that is resolved already.
NoMailUnlessOverlapped ==
  [][\A r \in Requests :
       row[r].status \in Terminal /\ MailLeaves(r) => overlapped]_vars
=============================================================================
