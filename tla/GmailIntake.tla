----------------------------- MODULE GmailIntake -----------------------------
(***************************************************************************)
(* How an unread message of one Gmail integration becomes at most one      *)
(* reply approval: the poll cron and the Gmail push webhook look for new   *)
(* messages under a Redis lock and hand them to an agent run through the   *)
(* job queue; the run proposes replies through the approval hook.          *)
(*                                                                         *)
(* A pass is one trip of poll_integrations through the integration, or one *)
(* call of _handle_gmail_push.  Its steps are the awaits of the code.  The *)
(* poll records the ids it takes in a transaction of its own; the push     *)
(* records them in the session of the request, which nobody commits.       *)
(***************************************************************************)
EXTENDS Naturals, FiniteSets

CONSTANTS
  LastMessage,  \* messages are 1..LastMessage, in the order they arrive
  Polls,        \* passes of the poll cron
  Pushes,       \* passes of the push webhook
  Jobs,         \* places in the job queue, those of running jobs included
  None,         \* a free lock; a run that is not between check and insert
  ListCap,      \* DEFAULT_UNREAD_CAP: ids one listing returns
  RunCap,       \* GMAIL_MAX_IDS_PER_RUN: ids one run is given
  LockExpires,  \* whether a working pass may lose the lock, or Redis fail
  MaxFaults     \* bound: failed enqueues and crashes in one behaviour

ASSUME ConstantsAssumption ==
  /\ LastMessage \in Nat
  /\ Polls \cap Pushes = {}
  /\ None \notin Polls \cup Pushes \cup Nat
  /\ ListCap \in Nat \ {0}
  /\ RunCap \in Nat \ {0}
  /\ LockExpires \in BOOLEAN
  /\ MaxFaults \in Nat

VARIABLES
  arrived,  \* messages 1..arrived have been delivered
  unread,   \* messages carrying the UNREAD label
  seen,     \* committed processed_messages rows
  lock,     \* value of the integration's poll lock key
  pass,     \* pass[p]: where the pass is, whether it owns the lock, its ids
  job,      \* job[j]: an agent run, queued or in progress
  handed,   \* history: handed[m][k], times m was enqueued by kind k, up to 2
  replies,  \* replies[m]: reply approvals created for m, 2 meaning several
  answered, \* messages a reviewer drafted or sent a reply to
  faults    \* faults so far

vars == <<arrived, unread, seen, lock, pass, job, handed, replies, answered, faults>>

Messages == 1..LastMessage
Passes == Polls \cup Pushes
Kinds == {"poll", "push"}
Kind(p) == IF p \in Polls THEN "poll" ELSE "push"

Pass == [pc : {"idle", "locked", "listed", "filtered", "recorded", "unlocking", "closing"},
         owns : BOOLEAN, ids : SUBSET Messages]
Idle == [pc |-> "idle", owns |-> FALSE, ids |-> {}]

\* ids: what the job carries; todo: what the run has not looked at yet;
\* checked: the message whose duplicate check has answered "no".
Job == [pc : {"free", "queued", "running"}, kind : Kinds, ids : SUBSET Messages,
        todo : SUBSET Messages, checked : Messages \cup {None}]
Free == [pc |-> "free", kind |-> "poll", ids |-> {}, todo |-> {}, checked |-> None]

TypeOK ==
  /\ arrived \in 0..LastMessage
  /\ unread \subseteq Messages
  /\ seen \subseteq Messages
  /\ lock \in Passes \cup {None}
  /\ pass \in [Passes -> Pass]
  /\ job \in [Jobs -> Job]
  /\ handed \in [Messages -> [Kinds -> 0..2]]
  /\ replies \in [Messages -> 0..2]
  /\ answered \subseteq Messages
  /\ faults \in 0..MaxFaults

Init ==
  /\ arrived = 0
  /\ unread = {}
  /\ seen = {}
  /\ lock = None
  /\ pass = [p \in Passes |-> Idle]
  /\ job = [j \in Jobs |-> Free]
  /\ handed = [m \in Messages |-> [k \in Kinds |-> 0]]
  /\ replies = [m \in Messages |-> 0]
  /\ answered = {}
  /\ faults = 0

Upto2(n) == IF n < 2 THEN n + 1 ELSE 2

\* The n newest messages of S: Gmail's order, cut by maxResults or a slice.
Newest(S, n) == {m \in S : Cardinality({k \in S : k > m}) < n}

-----------------------------------------------------------------------------
(* The mailbox, outside the program *)

Arrive ==
  /\ arrived < LastMessage
  /\ arrived' = arrived + 1
  /\ unread' = unread \cup {arrived + 1}
  /\ UNCHANGED <<seen, lock, pass, job, handed, replies, answered, faults>>

ReadByOwner(m) ==
  /\ m \in unread
  /\ unread' = unread \ {m}
  /\ UNCHANGED <<arrived, seen, lock, pass, job, handed, replies, answered, faults>>

-----------------------------------------------------------------------------
(* A pass over the integration *)

Goto(p, pc) == pass' = [pass EXCEPT ![p].pc = pc]

\* Variant: the lock is taken without NX.
LockAlways(p) ==
  /\ pass[p].pc = "idle"
  /\ lock' = p
  /\ pass' = [pass EXCEPT ![p] = [pc |-> "locked", owns |-> TRUE, ids |-> {}]]
  /\ UNCHANGED <<arrived, unread, seen, job, handed, replies, answered, faults>>

\* SET NX EX.  A pass that finds the key set returns at once.
Lock(p) ==
  /\ pass[p].pc = "idle"
  /\ lock = None
  /\ lock' = p
  /\ pass' = [pass EXCEPT ![p] = [pc |-> "locked", owns |-> TRUE, ids |-> {}]]
  /\ UNCHANGED <<arrived, unread, seen, job, handed, replies, answered, faults>>

\* Redis does not answer: the lock fails open.
LockUnavailable(p) ==
  /\ LockExpires
  /\ pass[p].pc = "idle"
  /\ pass' = [pass EXCEPT ![p] = [pc |-> "locked", owns |-> FALSE, ids |-> {}]]
  /\ UNCHANGED <<arrived, unread, seen, lock, job, handed, replies, answered, faults>>

\* POLL_LOCK_TTL_SECONDS pass: the holder is dead, or still at work.
LockExpiry ==
  /\ lock # None
  /\ LockExpires \/ pass[lock].pc = "idle"
  /\ lock' = None
  /\ UNCHANGED <<arrived, unread, seen, pass, job, handed, replies, answered, faults>>

\* messages.list?q=is:unread answers with its newest ids.
List(p) ==
  /\ pass[p].pc = "locked"
  /\ pass' = [pass EXCEPT ![p].pc = "listed", ![p].ids = Newest(unread, ListCap)]
  /\ UNCHANGED <<arrived, unread, seen, lock, job, handed, replies, answered, faults>>

\* No credentials, or the listing fails: the pass hands over nothing.
ListFails(p) ==
  /\ pass[p].pc = "locked"
  /\ Goto(p, "unlocking")
  /\ UNCHANGED <<arrived, unread, seen, lock, job, handed, replies, answered, faults>>

\* Variant: the ids already seen are not dropped.
FilterNothing(p) ==
  /\ pass[p].pc = "listed"
  /\ pass' = [pass EXCEPT
       ![p].pc = IF pass[p].ids = {} THEN "unlocking" ELSE "filtered",
       ![p].ids = Newest(pass[p].ids, RunCap)]
  /\ UNCHANGED <<arrived, unread, seen, lock, job, handed, replies, answered, faults>>

\* Variant: the listing is cut before it is filtered.
FilterSlice(p) ==
  LET new == Newest(pass[p].ids, RunCap) \ seen IN
  /\ pass[p].pc = "listed"
  /\ pass' = [pass EXCEPT
       ![p].pc = IF new = {} THEN "unlocking" ELSE "filtered",
       ![p].ids = new]
  /\ UNCHANGED <<arrived, unread, seen, lock, job, handed, replies, answered, faults>>

\* Drop the ids already seen, keep at most RunCap of the others.
Filter(p) ==
  LET new == pass[p].ids \ seen IN
  /\ pass[p].pc = "listed"
  /\ pass' = [pass EXCEPT
       ![p].pc = IF new = {} THEN "unlocking" ELSE "filtered",
       ![p].ids = Newest(new, RunCap)]
  /\ UNCHANGED <<arrived, unread, seen, lock, job, handed, replies, answered, faults>>

\* Rows another transaction has inserted and neither committed nor undone.
Uncommitted(p) ==
  p \in Pushes /\ pass[p].pc \in {"recorded", "unlocking", "closing"}

\* Variant: the poll leaves recording to the commit of a later request.
RecordUncommitted(p) ==
  /\ pass[p].pc = "filtered"
  /\ \A q \in Passes \ {p} : Uncommitted(q) => pass[q].ids \cap pass[p].ids = {}
  /\ Goto(p, "recorded")
  /\ UNCHANGED <<arrived, unread, seen, lock, job, handed, replies, answered, faults>>

\* Variant: the ids that did not fit are recorded too.
RecordInbox(p) ==
  /\ pass[p].pc = "filtered"
  /\ \A q \in Passes \ {p} : Uncommitted(q) => pass[q].ids \cap pass[p].ids = {}
  /\ seen' = IF p \in Polls THEN seen \cup Newest(unread, ListCap) ELSE seen
  /\ Goto(p, "recorded")
  /\ UNCHANGED <<arrived, unread, lock, job, handed, replies, answered, faults>>

\* INSERT .. ON CONFLICT DO NOTHING, which waits for a transaction that has
\* inserted the same key.  The poll's session commits here; the push's does
\* not commit.
Record(p) ==
  /\ pass[p].pc = "filtered"
  /\ \A q \in Passes \ {p} : Uncommitted(q) => pass[q].ids \cap pass[p].ids = {}
  /\ seen' = IF p \in Polls THEN seen \cup pass[p].ids ELSE seen
  /\ Goto(p, "recorded")
  /\ UNCHANGED <<arrived, unread, lock, job, handed, replies, answered, faults>>

\* Hand the ids to one agent run.
Enqueue(p) ==
  /\ pass[p].pc = "recorded"
  /\ \E j \in Jobs :
       /\ job[j].pc = "free"
       /\ job' = [job EXCEPT ![j] = [pc |-> "queued", kind |-> Kind(p), ids |-> pass[p].ids,
                                     todo |-> pass[p].ids, checked |-> None]]
  /\ handed' = [m \in Messages |->
       IF m \in pass[p].ids
       THEN [handed[m] EXCEPT ![Kind(p)] = Upto2(handed[m][Kind(p)])]
       ELSE handed[m]]
  /\ Goto(p, "unlocking")
  /\ UNCHANGED <<arrived, unread, seen, lock, replies, answered, faults>>

\* Redis refuses the job: the exception is logged, the pass is over.
EnqueueFails(p) ==
  /\ faults < MaxFaults
  /\ pass[p].pc = "recorded"
  /\ Goto(p, "unlocking")
  /\ faults' = faults + 1
  /\ UNCHANGED <<arrived, unread, seen, lock, job, handed, replies, answered>>

\* The owner deletes the key, whatever value it has by now.
Unlock(p) ==
  /\ pass[p].pc = "unlocking"
  /\ lock' = IF pass[p].owns THEN None ELSE lock
  /\ pass' = [pass EXCEPT ![p].pc = "closing", ![p].owns = FALSE]
  /\ UNCHANGED <<arrived, unread, seen, job, handed, replies, answered, faults>>

\* The pass ends; the session of a push is rolled back.
Close(p) ==
  /\ pass[p].pc = "closing"
  /\ pass' = [pass EXCEPT ![p] = Idle]
  /\ UNCHANGED <<arrived, unread, seen, lock, job, handed, replies, answered, faults>>

\* The process dies: the pass is gone, its lock stays until it expires.
PassCrash(p) ==
  /\ faults < MaxFaults
  /\ pass[p].pc # "idle"
  /\ pass' = [pass EXCEPT ![p] = Idle]
  /\ faults' = faults + 1
  /\ UNCHANGED <<arrived, unread, seen, lock, job, handed, replies, answered>>

-----------------------------------------------------------------------------
(* Agent runs *)

\* A worker takes the job.
Take(j) ==
  /\ job[j].pc = "queued"
  /\ job' = [job EXCEPT ![j].pc = "running"]
  /\ UNCHANGED <<arrived, unread, seen, lock, pass, handed, replies, answered, faults>>

\* The model proposes a reply to m; the hook looks for an approval request
\* for m, of any status, and goes on only if there is none.
Check(j, m) ==
  LET exists == replies[m] > 0 IN
  /\ job[j].pc = "running"
  /\ job[j].checked = None
  /\ m \in job[j].todo
  /\ job' = [job EXCEPT ![j].todo = @ \ {m},
                        ![j].checked = IF exists THEN None ELSE m]
  /\ UNCHANGED <<arrived, unread, seen, lock, pass, handed, replies, answered, faults>>

\* The hook persists the pending request, in another session.
Persist(j) ==
  /\ job[j].pc = "running"
  /\ job[j].checked # None
  /\ replies' = [replies EXCEPT ![job[j].checked] = Upto2(@)]
  /\ job' = [job EXCEPT ![j].checked = None]
  /\ UNCHANGED <<arrived, unread, seen, lock, pass, handed, answered, faults>>

\* No rule applies to m, or its sender takes no replies.
Leave(j, m) ==
  /\ job[j].pc = "running"
  /\ job[j].checked = None
  /\ m \in job[j].todo
  /\ job' = [job EXCEPT ![j].todo = @ \ {m}]
  /\ UNCHANGED <<arrived, unread, seen, lock, pass, handed, replies, answered, faults>>

\* The run ends: done, out of its budget of turns and tokens, or failed.
Finish(j) ==
  /\ job[j].pc = "running"
  /\ job' = [job EXCEPT ![j] = Free]
  /\ UNCHANGED <<arrived, unread, seen, lock, pass, handed, replies, answered, faults>>

\* The worker dies; the queue gives the job to a worker again.
WorkerCrash(j) ==
  /\ faults < MaxFaults
  /\ job[j].pc = "running"
  /\ job' = [job EXCEPT ![j].pc = "queued", ![j].todo = job[j].ids, ![j].checked = None]
  /\ faults' = faults + 1
  /\ UNCHANGED <<arrived, unread, seen, lock, pass, handed, replies, answered>>

\* A reviewer's draft or send succeeds: the label is removed if Gmail lets
\* it, and the commit that resolves the request records the message.
Answer(m) ==
  /\ replies[m] > 0
  /\ m \notin answered
  /\ answered' = answered \cup {m}
  /\ seen' = seen \cup {m}
  /\ unread' \in {unread, unread \ {m}}
  /\ UNCHANGED <<arrived, lock, pass, job, handed, replies, faults>>

-----------------------------------------------------------------------------
PassNext(p) ==
  \/ Lock(p) \/ LockUnavailable(p) \/ List(p) \/ ListFails(p) \/ Filter(p)
  \/ Record(p) \/ Enqueue(p) \/ EnqueueFails(p) \/ Unlock(p) \/ Close(p) \/ PassCrash(p)

JobNext(j) ==
  \/ Take(j) \/ Persist(j) \/ Finish(j) \/ WorkerCrash(j)
  \/ \E m \in Messages : Check(j, m) \/ Leave(j, m)

Next ==
  \/ Arrive \/ LockExpiry
  \/ \E m \in Messages : ReadByOwner(m) \/ Answer(m)
  \/ \E p \in Passes : PassNext(p)
  \/ \E j \in Jobs : JobNext(j)

Spec == Init /\ [][Next]_vars

\* The cron fires again and again and a pass that has begun goes on; Gmail
\* answers some of the listings; workers take jobs and finish them.
PollStep(p) ==
  Lock(p) \/ List(p) \/ ListFails(p) \/ Filter(p) \/ Record(p) \/ Enqueue(p)
  \/ Unlock(p) \/ Close(p)

Fairness ==
  /\ \A p \in Polls : WF_vars(PollStep(p))
  /\ SF_vars(\E p \in Polls : List(p))
  /\ \A j \in Jobs : WF_vars(Take(j)) /\ WF_vars(Finish(j))

FairSpec == Spec /\ Fairness

-----------------------------------------------------------------------------
(* Correctness *)

Handed(m) == handed[m]["poll"] + handed[m]["push"]

\* The lock keeps passes apart: while none of them loses the lock, at most
\* one is between acquiring it and releasing it (_integration_poll_lock).
Inside(p) == pass[p].pc \notin {"idle", "closing"}
OnePassAtATime == \A p, q \in Passes : Inside(p) /\ Inside(q) => p = q

\* The poll cron never hands a message to two runs, whatever pushes, crashes
\* and failed listings happen around it: it commits the ids it takes before
\* it enqueues them, and filters by them (poll_integrations).
PollHandsOnce == \A m \in Messages : handed[m]["poll"] <= 1

\* A run started by a poll works on recorded messages only: whoever lists the
\* inbox while the run is queued or in progress leaves them alone.
PolledIsRecorded ==
  \A j \in Jobs : job[j].pc # "free" /\ job[j].kind = "poll" => job[j].ids \subseteq seen

\* On record, so that nobody lists it as new again, and yet in no run, without
\* an answer, and in no poll that is about to enqueue it.
Forgotten ==
  {m \in seen :
    /\ Handed(m) = 0
    /\ m \notin answered
    /\ \A p \in Polls : ~(pass[p].pc = "recorded" /\ m \in pass[p].ids)}

\* The poll commits the record before it enqueues the run (poll_integrations):
\* a failed enqueue or a crash in between loses messages.  Nothing else does,
\* a lost lock or an overlapping pass neither, and a failure loses one run's.
LossIsBounded == Cardinality(Forgotten) <= RunCap * faults

\* One run is never given more messages than the configured cap, however
\* many are new (GMAIL_MAX_IDS_PER_RUN).
RunIsCapped == \A j \in Jobs : Cardinality(job[j].ids) <= RunCap

\* A message that only one run was given gets one reply, however often a dead
\* worker's job is run again: the hook finds the request it has persisted
\* before (_gmail_reply_already_exists).
OneReplyPerHandling == \A m \in Messages : Handed(m) <= 1 => replies[m] <= 1

\* Every unread message is handed to a run or gets read, as long as it fits
\* in the listing: each poll takes the newest ones that are left.
UnreadIsHanded ==
  \A m \in Messages : m \in unread ~> (Handed(m) > 0 \/ m \notin unread)

Ledger == INSTANCE IntakeLedger WITH
  recorded <- seen,
  polled <- [m \in Messages |-> handed[m]["poll"]],
  pushed <- [m \in Messages |-> handed[m]["push"]]

\* While the lock is kept the intake implements IntakeLedger: the poll hands a
\* message over once and only on record, whatever pushes, crashes and failed
\* calls happen around it, and the replies to a message never outnumber the
\* runs that were given it (poll_integrations, _gmail_reply_already_exists).
KeepsLedger == Ledger!Spec
=============================================================================
