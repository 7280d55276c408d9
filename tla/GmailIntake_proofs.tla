------------------------- MODULE GmailIntake_proofs -------------------------
(***************************************************************************)
(* Proofs about GmailIntake, for any numbers of messages, passes and jobs. *)
(***************************************************************************)
EXTENDS GmailIntake, FiniteSetTheorems, WellFoundedInduction, TLAPS

-----------------------------------------------------------------------------
(* Type correctness *)

LEMMA NewestSubset == \A S, n : Newest(S, n) \subseteq S
  BY DEF Newest

LEMMA IdleType == Idle \in Pass /\ Free \in Job
  BY DEF Idle, Pass, Free, Job, Kinds

LEMMA Upto2Type == \A n \in 0..2 : Upto2(n) \in 0..2
  BY DEF Upto2

THEOREM InitTypeOK == Init => TypeOK
  BY IdleType, ConstantsAssumption DEF Init, TypeOK

LEMMA PassTypeOK ==
  ASSUME TypeOK, NEW p \in Passes, PassNext(p) PROVE TypeOK'
  <1> USE DEF TypeOK
  <1>0. pass[p] \in Pass
    OBVIOUS
  <1>1. CASE Lock(p) \/ LockUnavailable(p)
    <2>1. \A b \in BOOLEAN : [pc |-> "locked", owns |-> b, ids |-> {}] \in Pass
      BY DEF Pass
    <2>2. CASE Lock(p)
      BY <2>1, <2>2 DEF Lock
    <2>3. CASE LockUnavailable(p)
      BY <2>1, <2>3 DEF LockUnavailable
    <2> QED
      BY <1>1, <2>2, <2>3
  <1>2. CASE List(p)
    BY <1>0, <1>2, NewestSubset DEF List, Pass
  <1>3. CASE ListFails(p)
    BY <1>0, <1>3 DEF ListFails, Goto, Pass
  <1>4. CASE Filter(p)
    <2>1. Newest(pass[p].ids \ seen, RunCap) \subseteq Messages
      BY <1>0, NewestSubset DEF Pass
    <2> QED
      BY <1>0, <1>4, <2>1 DEF Filter, Pass
  <1>5. CASE Record(p)
    BY <1>0, <1>5 DEF Record, Goto, Pass
  <1>6. CASE Enqueue(p)
    <2>1. job' \in [Jobs -> Job]
      BY <1>0, <1>6 DEF Enqueue, Pass, Job, Kind, Kinds
    <2>2. handed' \in [Messages -> [Kinds -> 0..2]]
      BY <1>6, Upto2Type DEF Enqueue, Kind, Kinds
    <2> QED
      BY <1>0, <1>6, <2>1, <2>2 DEF Enqueue, Goto, Pass
  <1>7. CASE EnqueueFails(p)
    BY <1>0, <1>7, ConstantsAssumption DEF EnqueueFails, Goto, Pass
  <1>8. CASE Unlock(p)
    BY <1>0, <1>8 DEF Unlock, Pass
  <1>9. CASE Close(p)
    BY <1>9, IdleType DEF Close
  <1>10. CASE PassCrash(p)
    BY <1>10, IdleType, ConstantsAssumption DEF PassCrash
  <1> QED
    BY <1>1, <1>2, <1>3, <1>4, <1>5, <1>6, <1>7, <1>8, <1>9, <1>10 DEF PassNext

LEMMA JobTypeOK ==
  ASSUME TypeOK, NEW j \in Jobs, JobNext(j) PROVE TypeOK'
  <1> USE DEF TypeOK
  <1>0. job[j] \in Job
    OBVIOUS
  <1>1. CASE Take(j)
    BY <1>0, <1>1 DEF Take, Job
  <1>2. ASSUME NEW m \in Messages, Check(j, m) \/ Leave(j, m) PROVE TypeOK'
    <2>1. CASE Check(j, m)
      <3>1. [job[j] EXCEPT !.todo = @ \ {m},
                           !.checked = IF replies[m] > 0 THEN None ELSE m] \in Job
        BY <1>0 DEF Job
      <3>2. job' = [job EXCEPT ![j] = [job[j] EXCEPT !.todo = @ \ {m},
                                         !.checked = IF replies[m] > 0 THEN None ELSE m]]
        BY <2>1 DEF Check
      <3> QED
        BY <2>1, <3>1, <3>2 DEF Check
    <2>2. CASE Leave(j, m)
      BY <1>0, <2>2 DEF Leave, Job
    <2> QED
      BY <1>2, <2>1, <2>2
  <1>3. CASE Persist(j)
    <2>1. job[j].checked \in Messages
      BY <1>0, <1>3 DEF Persist, Job
    <2> QED
      BY <1>0, <1>3, <2>1, Upto2Type DEF Persist, Job
  <1>4. CASE Finish(j)
    BY <1>4, IdleType DEF Finish
  <1>5. CASE WorkerCrash(j)
    <2>1. [job[j] EXCEPT !.pc = "queued", !.todo = job[j].ids, !.checked = None] \in Job
      BY <1>0 DEF Job
    <2>2. job' = [job EXCEPT ![j] = [job[j] EXCEPT !.pc = "queued", !.todo = job[j].ids,
                                                   !.checked = None]]
      BY <1>5 DEF WorkerCrash
    <2> QED
      BY <1>5, <2>1, <2>2, ConstantsAssumption DEF WorkerCrash
  <1> QED
    BY <1>1, <1>2, <1>3, <1>4, <1>5 DEF JobNext

THEOREM StepTypeOK == TypeOK /\ [Next]_vars => TypeOK'
  <1> SUFFICES ASSUME TypeOK, [Next]_vars PROVE TypeOK'
    OBVIOUS
  <1>1. CASE Arrive
    BY <1>1, ConstantsAssumption DEF Arrive, TypeOK, Messages
  <1>2. CASE LockExpiry
    BY <1>2 DEF LockExpiry, TypeOK
  <1>3. ASSUME NEW m \in Messages, ReadByOwner(m) PROVE TypeOK'
    BY <1>3 DEF ReadByOwner, TypeOK
  <1>4. ASSUME NEW m \in Messages, Answer(m) PROVE TypeOK'
    BY <1>4 DEF Answer, TypeOK
  <1>5. CASE UNCHANGED vars
    BY <1>5 DEF vars, TypeOK
  <1> QED
    BY <1>1, <1>2, <1>3, <1>4, <1>5, PassTypeOK, JobTypeOK DEF Next

\* Every reachable state is well typed: passes and runs hold messages that
\* exist, and the lock names a pass.
THEOREM TypeCorrect == Spec => []TypeOK
  BY InitTypeOK, StepTypeOK, PTL DEF Spec

-----------------------------------------------------------------------------
(* The lock.  A pass inside its critical section holds the key; the key is   *)
(* taken from a pass only when it is no longer at work.                      *)

LockKept == LockExpires = FALSE

LockInv == \A p \in Passes : Inside(p) => lock = p

THEOREM StepLock == ASSUME LockKept PROVE TypeOK /\ LockInv /\ [Next]_vars => LockInv'
  <1> SUFFICES ASSUME TypeOK, LockInv, [Next]_vars PROVE LockInv'
    OBVIOUS
  <1> USE DEF LockInv, Inside, TypeOK
  <1>1. CASE Arrive
    BY <1>1 DEF Arrive
  <1>2. CASE LockExpiry
    BY <1>2 DEF LockExpiry, LockKept
  <1>3. ASSUME NEW m \in Messages, ReadByOwner(m) \/ Answer(m) PROVE LockInv'
    BY <1>3 DEF ReadByOwner, Answer
  <1>4. ASSUME NEW p \in Passes, PassNext(p) PROVE LockInv'
    <2>1. CASE Lock(p)
      BY <2>1, ConstantsAssumption DEF Lock, Passes
    <2>2. CASE LockUnavailable(p)
      BY <2>2 DEF LockUnavailable, LockKept
    <2>3. CASE List(p)
      BY <2>3 DEF List
    <2>4. CASE Filter(p)
      BY <2>4 DEF Filter
    <2>5. CASE ListFails(p) \/ Record(p) \/ Enqueue(p) \/ EnqueueFails(p)
      BY <2>5 DEF ListFails, Record, Enqueue, EnqueueFails, Goto
    <2>6. CASE Unlock(p)
      BY <2>6 DEF Unlock
    <2>7. CASE Close(p) \/ PassCrash(p)
      BY <2>7 DEF Close, PassCrash, Idle
    <2> QED
      BY <1>4, <2>1, <2>2, <2>3, <2>4, <2>5, <2>6, <2>7 DEF PassNext
  <1>5. ASSUME NEW j \in Jobs, JobNext(j) PROVE LockInv'
    BY <1>5 DEF JobNext, Take, Check, Leave, Persist, Finish, WorkerCrash
  <1>6. CASE UNCHANGED vars
    BY <1>6 DEF vars
  <1> QED
    BY <1>1, <1>2, <1>3, <1>4, <1>5, <1>6 DEF Next

LEMMA LockInvariant == ASSUME LockKept PROVE Spec => []LockInv
  <1>1. Init => LockInv
    BY DEF Init, LockInv, Inside, Idle
  <1>2. TypeOK /\ LockInv /\ [Next]_vars => LockInv'
    BY StepLock
  <1> QED
    BY <1>1, <1>2, TypeCorrect, PTL DEF Spec

\* While the lock outlives the passes that hold it, polls and pushes of one
\* integration exclude each other, crashes included.
THEOREM PassesExclude == ASSUME LockKept PROVE Spec => []OnePassAtATime
  <1>1. LockInv => OnePassAtATime
    BY DEF LockInv, OnePassAtATime
  <1> QED
    BY <1>1, LockInvariant, PTL

-----------------------------------------------------------------------------
(* What the steps of passes and runs leave alone. *)

\* The steps of a pass at whose end it has no ids to hand over.
Quiet(p) ==
  \/ Lock(p) \/ LockUnavailable(p) \/ List(p) \/ ListFails(p)
  \/ EnqueueFails(p) \/ Unlock(p) \/ Close(p) \/ PassCrash(p)

LEMMA QuietStep ==
  ASSUME TypeOK, NEW p \in Passes, Quiet(p)
  PROVE  /\ pass'[p].pc \notin {"filtered", "recorded"}
         /\ \A q \in Passes \ {p} : pass'[q] = pass[q]
         /\ UNCHANGED <<seen, job, handed, replies, answered>>
  <1> USE DEF TypeOK
  <1>1. CASE Lock(p) \/ LockUnavailable(p)
    BY <1>1 DEF Lock, LockUnavailable
  <1>2. CASE List(p)
    BY <1>2 DEF List, Pass
  <1>3. CASE ListFails(p) \/ EnqueueFails(p)
    BY <1>3 DEF ListFails, EnqueueFails, Goto, Pass
  <1>4. CASE Unlock(p)
    BY <1>4 DEF Unlock, Pass
  <1>5. CASE Close(p) \/ PassCrash(p)
    BY <1>5 DEF Close, PassCrash, Idle
  <1> QED
    BY <1>1, <1>2, <1>3, <1>4, <1>5 DEF Quiet

LEMMA JobStep ==
  ASSUME TypeOK, NEW j \in Jobs, JobNext(j)
  PROVE  /\ job[j].pc # "free"
         /\ \/ job'[j] = Free
            \/ job'[j].ids = job[j].ids /\ job'[j].kind = job[j].kind
         /\ \A k \in Jobs \ {j} : job'[k] = job[k]
         /\ UNCHANGED <<seen, pass, handed, answered>>
  <1> USE DEF TypeOK
  <1>1. CASE Take(j) \/ Finish(j)
    BY <1>1 DEF Take, Finish, Job
  <1>2. CASE Persist(j)
    BY <1>2 DEF Persist, Job
  <1>3. CASE WorkerCrash(j)
    BY <1>3 DEF WorkerCrash, Job
  <1>4. CASE \E m \in Messages : Check(j, m)
    BY <1>4 DEF Check, Job
  <1>5. CASE \E m \in Messages : Leave(j, m)
    BY <1>5 DEF Leave, Job
  <1> QED
    BY <1>1, <1>2, <1>3, <1>4, <1>5 DEF JobNext

-----------------------------------------------------------------------------
(* What a poll hands over is recorded first: the ids of a pass that is about *)
(* to enqueue are, and rows of processed_messages are never deleted.         *)

RecordInv ==
  /\ PolledIsRecorded
  /\ \A p \in Polls : pass[p].pc = "recorded" => pass[p].ids \subseteq seen

THEOREM StepRecord == TypeOK /\ RecordInv /\ [Next]_vars => RecordInv'
  <1> SUFFICES ASSUME TypeOK, RecordInv, [Next]_vars PROVE RecordInv'
    OBVIOUS
  <1> USE DEF RecordInv, PolledIsRecorded, TypeOK
  <1>1. CASE Arrive \/ LockExpiry
    BY <1>1 DEF Arrive, LockExpiry
  <1>2. ASSUME NEW m \in Messages, ReadByOwner(m) \/ Answer(m) PROVE RecordInv'
    BY <1>2 DEF ReadByOwner, Answer
  <1>3. ASSUME NEW p \in Passes, PassNext(p) PROVE RecordInv'
    <2>1. CASE Filter(p)
      BY <2>1 DEF Filter, Passes
    <2>2. CASE Record(p)
      BY <2>2 DEF Record, Goto, Passes
    <2>3. CASE Enqueue(p)
      <3>1. PICK j \in Jobs : job' = [job EXCEPT ![j] =
              [pc |-> "queued", kind |-> Kind(p), ids |-> pass[p].ids,
               todo |-> pass[p].ids, checked |-> None]]
        BY <2>3 DEF Enqueue
      <3>2. Kind(p) = "poll" => pass[p].ids \subseteq seen
        BY <2>3 DEF Enqueue, Kind
      <3> QED
        BY <2>3, <3>1, <3>2 DEF Enqueue, Goto, Passes
    <2>4. CASE Quiet(p)
      BY <2>4, QuietStep DEF Passes
    <2> QED
      BY <1>3, <2>1, <2>2, <2>3, <2>4 DEF PassNext, Quiet
  <1>4. ASSUME NEW j \in Jobs, JobNext(j) PROVE RecordInv'
    BY <1>4, JobStep DEF Free
  <1>5. CASE UNCHANGED vars
    BY <1>5 DEF vars
  <1> QED
    BY <1>1, <1>2, <1>3, <1>4, <1>5 DEF Next

LEMMA RecordInvariant == Spec => []RecordInv
  <1>1. Init => RecordInv
    BY DEF Init, RecordInv, PolledIsRecorded, Idle, Free, Passes
  <1> QED
    BY <1>1, StepRecord, TypeCorrect, PTL DEF Spec

\* Whatever the lock does, a run started by a poll works on messages that are
\* recorded, so nobody who lists the inbox takes them for new.
THEOREM PolledAreRecorded == Spec => []PolledIsRecorded
  <1>1. RecordInv => PolledIsRecorded
    BY DEF RecordInv
  <1> QED
    BY <1>1, RecordInvariant, PTL

-----------------------------------------------------------------------------
(* Polls hand a message over once.  What they handed is recorded, what they  *)
(* are about to hand is not among it: the filter saw to that, and the lock   *)
(* keeps other polls from handing it in between.                             *)

HandInv ==
  /\ PollHandsOnce
  /\ \A m \in Messages : handed[m]["poll"] > 0 => m \in seen
  /\ \A p \in Polls : pass[p].pc \in {"filtered", "recorded"} =>
       \A m \in pass[p].ids : handed[m]["poll"] = 0

THEOREM StepHand ==
  TypeOK /\ LockInv /\ RecordInv /\ HandInv /\ [Next]_vars => HandInv'
  <1> SUFFICES ASSUME TypeOK, LockInv, RecordInv, HandInv, [Next]_vars PROVE HandInv'
    OBVIOUS
  <1> USE DEF HandInv, PollHandsOnce, TypeOK
  <1>1. CASE Arrive \/ LockExpiry
    BY <1>1 DEF Arrive, LockExpiry
  <1>2. ASSUME NEW m \in Messages, ReadByOwner(m) \/ Answer(m) PROVE HandInv'
    BY <1>2 DEF ReadByOwner, Answer
  <1>3. ASSUME NEW p \in Passes, PassNext(p) PROVE HandInv'
    <2>1. CASE Quiet(p)
      BY <2>1, QuietStep DEF Passes
    <2>2. CASE Filter(p)
      <3>1. Newest(pass[p].ids \ seen, RunCap) \subseteq pass[p].ids \ seen
        BY NewestSubset
      <3>2. pass[p].ids \subseteq Messages
        BY DEF Pass
      <3>3. \A m \in Newest(pass[p].ids \ seen, RunCap) : handed[m]["poll"] = 0
        BY <3>1, <3>2 DEF Kinds
      <3>4. \A q \in Passes \ {p} : pass'[q] = pass[q]
        BY <2>2 DEF Filter
      <3>5. pass'[p].ids = Newest(pass[p].ids \ seen, RunCap)
        BY <2>2 DEF Filter, Pass
      <3> QED
        BY <2>2, <3>3, <3>4, <3>5 DEF Filter, Passes
    <2>3. CASE Record(p)
      BY <2>3 DEF Record, Goto, Passes
    <2>4. CASE Enqueue(p)
      <3>1. CASE p \in Polls
        <4>1. /\ pass[p].ids \subseteq seen
              /\ \A m \in pass[p].ids : handed[m]["poll"] = 0
              /\ Kind(p) = "poll"
          BY <2>4, <3>1 DEF Enqueue, RecordInv, Kind
        <4>2. \A q \in Polls \ {p} : pass[q].pc \notin {"filtered", "recorded"}
          BY <2>4, <3>1 DEF Enqueue, LockInv, Inside, Passes
        <4>3. \A q \in Polls : pass'[q].pc \notin {"filtered", "recorded"}
          BY <2>4, <4>2 DEF Enqueue, Goto, Passes
        <4>4. \A m \in Messages :
                handed'[m]["poll"] = IF m \in pass[p].ids THEN 1 ELSE handed[m]["poll"]
          BY <2>4, <4>1 DEF Enqueue, Upto2, Kinds
        <4> QED
          BY <2>4, <4>1, <4>3, <4>4 DEF Enqueue
      <3>2. CASE p \notin Polls
        <4>1. \A m \in Messages : handed'[m]["poll"] = handed[m]["poll"]
          BY <2>4, <3>2 DEF Enqueue, Kind, Kinds
        <4>2. \A q \in Polls : pass'[q] = pass[q]
          BY <2>4, <3>2 DEF Enqueue, Goto, Passes
        <4>3. \A q \in Polls : pass[q].ids \subseteq Messages
          BY DEF Pass, Passes
        <4> QED
          BY <2>4, <4>1, <4>2, <4>3 DEF Enqueue
      <3> QED
        BY <3>1, <3>2
    <2> QED
      BY <1>3, <2>1, <2>2, <2>3, <2>4 DEF PassNext, Quiet
  <1>4. ASSUME NEW j \in Jobs, JobNext(j) PROVE HandInv'
    BY <1>4, JobStep
  <1>5. CASE UNCHANGED vars
    BY <1>5 DEF vars
  <1> QED
    BY <1>1, <1>2, <1>3, <1>4, <1>5 DEF Next

\* What polls handed over and are about to hand over, in every reachable state.
LEMMA HandInvariant == ASSUME LockKept PROVE Spec => []HandInv
  <1>1. Init => HandInv
    BY DEF Init, HandInv, PollHandsOnce, Idle, Kinds, Passes
  <1> QED
    BY <1>1, StepHand, LockInvariant, RecordInvariant, TypeCorrect, PTL DEF Spec

\* While the lock is kept, the poll cron hands no message to two runs,
\* whatever pushes, failed enqueues and crashes happen around it.
THEOREM PollsHandOnce == ASSUME LockKept PROVE Spec => []PollHandsOnce
  <1>1. HandInv => PollHandsOnce
    BY DEF HandInv
  <1> QED
    BY <1>1, HandInvariant, PTL

-----------------------------------------------------------------------------
(* One reply.  Runs that were given a message nobody else was given find     *)
(* their own earlier reply: between check and insert a run is alone with it. *)

ReplyInv ==
  /\ OneReplyPerHandling
  /\ \A j \in Jobs : /\ job[j].todo \subseteq job[j].ids
                     /\ job[j].checked # None => job[j].checked \in job[j].ids
  /\ \A m \in Messages : Handed(m) = 0 =>
       replies[m] = 0 /\ \A j \in Jobs : m \notin job[j].ids
  /\ \A m \in Messages : Handed(m) <= 1 =>
       /\ \A j, k \in Jobs : m \in job[j].ids /\ m \in job[k].ids => j = k
       /\ \A j \in Jobs : job[j].checked = m => replies[m] = 0

LEMMA HandedType == TypeOK => \A m \in Messages : Handed(m) \in Nat
  BY DEF TypeOK, Handed, Kinds

\* An enqueue counts: a message that had been handed over now was twice.
LEMMA HandedGrows ==
  ASSUME TypeOK, NEW p \in Passes, Enqueue(p), NEW m \in Messages
  PROVE  Handed(m)' = IF m \in pass[p].ids /\ handed[m][Kind(p)] < 2 THEN Handed(m) + 1
                      ELSE Handed(m)
  <1>1. handed'[m] = IF m \in pass[p].ids
                     THEN [handed[m] EXCEPT ![Kind(p)] = Upto2(handed[m][Kind(p)])]
                     ELSE handed[m]
    BY DEF Enqueue, TypeOK
  <1>2. handed[m] \in [Kinds -> 0..2]
    BY DEF TypeOK
  <1>3. Kind(p) \in Kinds
    BY DEF Kind, Kinds
  <1> QED
    BY <1>1, <1>2, <1>3 DEF Handed, Upto2, Kinds

THEOREM StepReply == TypeOK /\ ReplyInv /\ [Next]_vars => ReplyInv'
  <1> SUFFICES ASSUME TypeOK, ReplyInv, [Next]_vars PROVE ReplyInv'
    OBVIOUS
  <1> USE DEF ReplyInv, OneReplyPerHandling
  <1>1. CASE UNCHANGED <<job, handed, replies>>
    BY <1>1 DEF Handed
  <1>2. ASSUME NEW p \in Passes, Enqueue(p) PROVE ReplyInv'
    <2> DEFINE ids == pass[p].ids
    <2>1. PICK j \in Jobs : job' = [job EXCEPT ![j] =
            [pc |-> "queued", kind |-> Kind(p), ids |-> ids, todo |-> ids, checked |-> None]]
      BY <1>2 DEF Enqueue
    <2>2. /\ job'[j].ids = ids /\ job'[j].todo = ids /\ job'[j].checked = None
          /\ \A k \in Jobs \ {j} : job'[k] = job[k]
          /\ replies' = replies
      BY <1>2, <2>1 DEF Enqueue, TypeOK
    <2>3. ASSUME NEW m \in Messages PROVE
            /\ Handed(m) \in Nat /\ Handed(m)' >= Handed(m)
            /\ m \notin ids => Handed(m)' = Handed(m)
            /\ m \in ids => Handed(m)' >= 1 /\ (Handed(m)' <= 1 => Handed(m) = 0)
      <3>1. handed[m][Kind(p)] \in 0..2 /\ Handed(m) >= handed[m][Kind(p)]
        BY DEF TypeOK, Handed, Kinds, Kind
      <3> QED
        BY <1>2, <3>1, HandedType, HandedGrows
    <2>4. \A m \in Messages : m # None
      BY ConstantsAssumption DEF Messages
    <2> QED
      BY <2>2, <2>3, <2>4
  <1>3. ASSUME NEW j \in Jobs, JobNext(j) PROVE ReplyInv'
    <2>1. \A m \in Messages : Handed(m)' = Handed(m)
      BY <1>3, JobStep DEF Handed
    <2>2. CASE Persist(j)
      <3> DEFINE m == job[j].checked
      <3>1. m \in Messages /\ m \in job[j].ids
        BY <2>2 DEF Persist, TypeOK, Job
      <3>2. /\ \A k \in Messages : replies'[k] = IF k = m THEN Upto2(replies[m]) ELSE replies[k]
            /\ job'[j].checked = None /\ job'[j].todo = job[j].todo /\ job'[j].ids = job[j].ids
            /\ \A k \in Jobs \ {j} : job'[k] = job[k]
        BY <2>2 DEF Persist, TypeOK, Job
      <3>3. \A k \in Messages : k # None
        BY ConstantsAssumption DEF Messages
      <3>4. Handed(m) <= 1 =>
              /\ Handed(m) # 0 /\ replies[m] = 0
              /\ \A k \in Jobs \ {j} : job[k].checked # m
        BY <3>1, <3>3
      <3> QED
        BY <2>1, <3>1, <3>2, <3>3, <3>4 DEF Upto2
    <2>3. ASSUME NEW m \in Messages, Check(j, m) PROVE ReplyInv'
      <3>1. /\ job'[j].ids = job[j].ids /\ job'[j].todo \subseteq job[j].todo
            /\ job'[j].checked = IF replies[m] > 0 THEN None ELSE m
            /\ m \in job[j].todo
            /\ \A k \in Jobs \ {j} : job'[k] = job[k]
            /\ replies' = replies
        BY <2>3 DEF Check, TypeOK, Job
      <3>2. replies[m] \in Nat
        BY DEF TypeOK
      <3>3. \A k \in Messages : k # None
        BY ConstantsAssumption DEF Messages
      <3> QED
        BY <2>1, <3>1, <3>2, <3>3
    <2>4. CASE Take(j) \/ Finish(j) \/ WorkerCrash(j) \/ \E m \in Messages : Leave(j, m)
      <3>1. /\ \/ job'[j].ids = {} /\ job'[j].todo = {} /\ job'[j].checked = None
               \/ /\ job'[j].ids = job[j].ids
                  /\ job'[j].todo \subseteq job[j].ids
                  /\ job'[j].checked \in {None, job[j].checked}
            /\ replies' = replies
        BY <2>4 DEF Take, Finish, WorkerCrash, Leave, Free, TypeOK, Job
      <3>2. \A k \in Messages : k # None
        BY ConstantsAssumption DEF Messages
      <3>3. \A k \in Jobs \ {j} : job'[k] = job[k]
        BY <1>3, JobStep
      <3> QED
        BY <2>1, <3>1, <3>2, <3>3
    <2> QED
      BY <1>3, <2>2, <2>3, <2>4 DEF JobNext
  <1>4. ASSUME NEW p \in Passes, PassNext(p) PROVE ReplyInv'
    <2>1. CASE Filter(p) \/ Record(p)
      BY <1>1, <2>1 DEF Filter, Record
    <2>2. CASE Quiet(p)
      BY <1>1, <2>2, QuietStep
    <2> QED
      BY <1>2, <1>4, <2>1, <2>2 DEF PassNext, Quiet
  <1> QED
    BY <1>1, <1>3, <1>4 DEF Next, Arrive, LockExpiry, ReadByOwner, Answer, vars

\* What runs hold of the messages they were given, in every reachable state.
LEMMA ReplyInvariant == Spec => []ReplyInv
  <1>1. Init => ReplyInv
    BY ConstantsAssumption DEF Init, ReplyInv, OneReplyPerHandling, Free, Messages
  <1> QED
    BY <1>1, StepReply, TypeCorrect, PTL DEF Spec

\* A message handed over once gets one reply at most, however often its run is
\* started again after a crash.
THEOREM OneReplyEach == Spec => []OneReplyPerHandling
  <1>1. ReplyInv => OneReplyPerHandling
    BY DEF ReplyInv
  <1> QED
    BY <1>1, ReplyInvariant, PTL

-----------------------------------------------------------------------------
(* The cap on a run.  Newest keeps what has fewer than n newer ones: its     *)
(* least member has all the others above it, so there are at most n.         *)

LEMMA Least == ASSUME NEW T \in SUBSET Nat, T # {} PROVE \E x \in T : \A y \in T : x <= y
  <1> DEFINE R == OpToRel(<, Nat)
  <1>1. \A x, y \in Nat : <<y, x>> \in R <=> y < x
    BY DEF OpToRel
  <1>2. IsWellFoundedOn(R, Nat)
    BY NatLessThanWellFounded
  <1> HIDE DEF R
  <1>3. PICK x \in T : \A y \in T : ~ (<<y, x>> \in R)
    BY <1>2, WFMin
  <1>4. ASSUME NEW y \in T PROVE x <= y
    <2>1. ~ (y < x)
      BY <1>1, <1>3
    <2> QED
      BY <2>1
  <1> QED
    BY <1>4

LEMMA FiniteMessages == \A S \in SUBSET Messages : IsFiniteSet(S) /\ Cardinality(S) \in Nat
  <1>1. IsFiniteSet(Messages)
    BY ConstantsAssumption, FS_Interval DEF Messages
  <1> QED
    BY <1>1, FS_Subset, FS_CardinalityType

LEMMA NewestCapped ==
  ASSUME NEW S \in SUBSET Messages, NEW n \in Nat
  PROVE  Cardinality(Newest(S, n)) <= n
  <1> DEFINE T == Newest(S, n)
             Above(x) == {k \in S : k > x}
  <1>1. T \in SUBSET Messages /\ T \in SUBSET Nat
    <2>1. T \subseteq S
      BY NewestSubset
    <2>2. Messages \subseteq Nat
      BY ConstantsAssumption DEF Messages
    <2> QED
      BY <2>1, <2>2
  <1>2. CASE T = {}
    <2>1. Cardinality({}) = 0
      BY FS_EmptySet
    <2> QED
      BY <1>2, <2>1
  <1>3. CASE T # {}
    <2>1. PICK x \in T : \A y \in T : x <= y
      BY <1>1, <1>3, Least
    <2>2. Cardinality(Above(x)) < n
      BY DEF Newest
    <2>3. T \ {x} \subseteq Above(x)
      BY <1>1, <2>1, NewestSubset
    <2>4. Above(x) \in SUBSET Messages
      OBVIOUS
    <2> HIDE DEF T, Above
    <2>5. Cardinality(T \ {x}) <= Cardinality(Above(x))
      BY <2>3, <2>4, FiniteMessages, FS_Subset
    <2>6. Cardinality(T \ {x}) = Cardinality(T) - 1
      BY <1>1, <2>1, FiniteMessages, FS_RemoveElement
    <2>7. Cardinality(T) \in Nat /\ Cardinality(Above(x)) \in Nat
      BY <1>1, <2>4, FiniteMessages
    <2>8. Cardinality(T) <= n
      BY <2>2, <2>5, <2>6, <2>7
    <2> QED
      BY <2>8 DEF T
  <1> QED
    BY <1>2, <1>3

CapInv ==
  /\ RunIsCapped
  /\ \A p \in Passes : pass[p].pc \in {"filtered", "recorded"} =>
       Cardinality(pass[p].ids) <= RunCap

THEOREM StepCap == TypeOK /\ CapInv /\ [Next]_vars => CapInv'
  <1> SUFFICES ASSUME TypeOK, CapInv, [Next]_vars PROVE CapInv'
    OBVIOUS
  <1> USE DEF CapInv, RunIsCapped
  <1>1. ASSUME NEW p \in Passes, PassNext(p) PROVE CapInv'
    <2>1. CASE Filter(p)
      <3>1. pass[p].ids \ seen \subseteq Messages
        BY DEF TypeOK, Pass
      <3>2. Cardinality(Newest(pass[p].ids \ seen, RunCap)) <= RunCap
        BY <3>1, NewestCapped, ConstantsAssumption
      <3>3. /\ \A q \in Passes \ {p} : pass'[q] = pass[q]
            /\ pass'[p].ids = Newest(pass[p].ids \ seen, RunCap)
            /\ job' = job
        BY <2>1 DEF Filter, TypeOK, Pass
      <3> QED
        BY <3>2, <3>3
    <2>2. CASE Record(p)
      <3>1. /\ \A q \in Passes \ {p} : pass'[q] = pass[q]
            /\ pass'[p].ids = pass[p].ids /\ pass[p].pc = "filtered"
            /\ job' = job
        BY <2>2 DEF Record, Goto, TypeOK, Pass
      <3> QED
        BY <3>1
    <2>3. CASE Enqueue(p)
      <3>1. /\ \A q \in Passes \ {p} : pass'[q] = pass[q]
            /\ pass'[p].ids = pass[p].ids /\ pass[p].pc = "recorded"
        BY <2>3 DEF Enqueue, Goto, TypeOK, Pass
      <3>2. \A j \in Jobs : job'[j].ids \in {job[j].ids, pass[p].ids}
        BY <2>3 DEF Enqueue, TypeOK
      <3> QED
        BY <3>1, <3>2
    <2>4. CASE Quiet(p)
      BY <2>4, QuietStep
    <2> QED
      BY <1>1, <2>1, <2>2, <2>3, <2>4 DEF PassNext, Quiet
  <1>2. ASSUME NEW j \in Jobs, JobNext(j) PROVE CapInv'
    <2>1. Cardinality({}) <= RunCap
      BY FS_EmptySet, ConstantsAssumption
    <2> QED
      BY <1>2, <2>1, JobStep DEF Free
  <1>3. CASE UNCHANGED <<pass, job>>
    BY <1>3
  <1> QED
    BY <1>1, <1>2, <1>3 DEF Next, Arrive, LockExpiry, ReadByOwner, Answer, vars

THEOREM CapInvariant == Spec => []CapInv
  <1>1. Init => CapInv
    <2>1. Cardinality({}) <= RunCap
      BY FS_EmptySet, ConstantsAssumption
    <2>2. ASSUME Init
          PROVE  /\ \A j \in Jobs : job[j].ids = {}
                 /\ \A p \in Passes : pass[p].pc = "idle"
      BY <2>2 DEF Init, Idle, Free
    <2> QED
      BY <2>1, <2>2 DEF CapInv, RunIsCapped
  <1> QED
    BY <1>1, StepCap, TypeCorrect, PTL DEF Spec

\* No run is given more messages than the configured cap, however many are
\* unread and however the passes overlap.
THEOREM RunsAreCapped == Spec => []RunIsCapped
  <1>1. CapInv => RunIsCapped
    BY DEF CapInv
  <1> QED
    BY <1>1, CapInvariant, PTL

-----------------------------------------------------------------------------
(* What a failure between record and enqueue loses, and that nothing else    *)
(* loses a message.                                                          *)

Kept(m) ==
  \/ Handed(m) > 0
  \/ m \in answered
  \/ \E p \in Polls : pass[p].pc = "recorded" /\ m \in pass[p].ids

\* p is a poll whose failed enqueue or death drops what it has recorded.
Drops(p) == p \in Polls /\ pass[p].pc = "recorded" /\ (EnqueueFails(p) \/ PassCrash(p))

LEMMA ForgottenNotKept == TypeOK => \A m \in seen : m \in Forgotten <=> ~ Kept(m)
  <1> SUFFICES ASSUME TypeOK, NEW m \in seen PROVE Handed(m) = 0 <=> ~ (Handed(m) > 0)
    BY DEF Forgotten, Kept
  <1>1. Handed(m) \in Nat
    BY HandedType DEF TypeOK
  <1> QED
    BY <1>1

\* A message stays kept unless the pass that has just recorded it drops it.
LEMMA StepKept ==
  ASSUME TypeOK, [Next]_vars, NEW m \in seen', m \in seen => Kept(m),
         \A p \in Passes : Drops(p) => m \notin pass[p].ids
  PROVE  Kept(m)'
  <1>1. ASSUME m \in seen, UNCHANGED handed, answered \subseteq answered',
               \A p \in Polls : pass[p].pc = "recorded" /\ m \in pass[p].ids => pass'[p] = pass[p]
        PROVE  Kept(m)'
    BY <1>1 DEF Kept, Handed
  <1>2. ASSUME NEW p \in Passes, PassNext(p) PROVE Kept(m)'
    <2>1. CASE Record(p)
      <3>1. /\ pass'[p].pc = "recorded" /\ pass'[p].ids = pass[p].ids
            /\ \A q \in Passes \ {p} : pass'[q] = pass[q]
            /\ pass[p].pc # "recorded"
        BY <2>1 DEF Record, Goto, TypeOK, Pass
      <3>2. CASE m \in seen
        BY <1>1, <2>1, <3>1, <3>2 DEF Record, Passes
      <3>3. CASE m \notin seen
        BY <2>1, <3>1, <3>3 DEF Record, Kept
      <3> QED
        BY <3>2, <3>3
    <2>2. CASE Enqueue(p)
      <3>1. \A q \in Passes \ {p} : pass'[q] = pass[q]
        BY <2>2 DEF Enqueue, Goto
      <3>2. m \in seen /\ m \in Messages /\ answered' = answered
        BY <2>2 DEF Enqueue, TypeOK
      <3>3. Handed(m) \in Nat /\ Handed(m)' >= Handed(m)
        BY <2>2, <3>2, HandedType, HandedGrows
      <3>4. m \in pass[p].ids => Handed(m)' > 0
        <4>1. handed[m][Kind(p)] \in 0..2 /\ Handed(m) >= handed[m][Kind(p)]
          BY <3>2 DEF TypeOK, Handed, Kinds, Kind
        <4> QED
          BY <2>2, <3>2, <3>3, <4>1, HandedGrows
      <3>5. CASE m \in pass[p].ids
        BY <3>4, <3>5 DEF Kept
      <3>6. CASE Handed(m) > 0
        <4>1. Handed(m)' \in Nat
          BY <2>2, <3>2, <3>3, HandedGrows
        <4> QED
          BY <3>3, <3>6, <4>1 DEF Kept
      <3>7. CASE m \in answered
        BY <3>2, <3>7 DEF Kept
      <3>8. ASSUME NEW q \in Polls, pass[q].pc = "recorded", m \in pass[q].ids,
                   m \notin pass[p].ids
            PROVE  Kept(m)'
        BY <3>1, <3>8 DEF Passes, Kept
      <3> QED
        BY <3>2, <3>5, <3>6, <3>7, <3>8 DEF Kept
    <2>3. CASE Filter(p)
      BY <1>1, <2>3 DEF Filter, Passes, TypeOK
    <2>4. CASE Quiet(p)
      <3>1. CASE p \in Polls /\ pass[p].pc = "recorded"
        <4>1. EnqueueFails(p) \/ PassCrash(p)
          BY <2>4, <3>1
          DEF Quiet, Lock, LockUnavailable, List, ListFails, EnqueueFails, Unlock, Close
        <4>2. m \notin pass[p].ids
          BY <3>1, <4>1 DEF Drops
        <4> QED
          BY <1>1, <2>4, <4>2, QuietStep DEF Passes
      <3>2. CASE ~ (p \in Polls /\ pass[p].pc = "recorded")
        BY <1>1, <2>4, <3>2, QuietStep DEF Passes
      <3> QED
        BY <3>1, <3>2
    <2> QED
      BY <1>2, <2>1, <2>2, <2>3, <2>4 DEF PassNext, Quiet
  <1>3. ASSUME NEW j \in Jobs, JobNext(j) PROVE Kept(m)'
    BY <1>1, <1>3, JobStep
  <1>4. ASSUME NEW k \in Messages, Answer(k) PROVE Kept(m)'
    <2>1. CASE m \in seen
      BY <1>1, <1>4, <2>1 DEF Answer
    <2>2. CASE m \notin seen
      BY <1>4, <2>2 DEF Answer, Kept
    <2> QED
      BY <2>1, <2>2
  <1>5. CASE UNCHANGED <<seen, pass, handed, answered>>
    BY <1>1, <1>5
  <1> QED
    BY <1>2, <1>3, <1>4, <1>5 DEF Next, Arrive, LockExpiry, ReadByOwner, vars

LEMMA DropsOne ==
  ASSUME TypeOK, NEW p \in Passes, NEW q \in Passes, Drops(p), Drops(q) PROVE p = q
  <1>1. /\ pass'[p].pc # "recorded"
        /\ \A r \in Passes \ {p} : pass'[r] = pass[r]
    BY DEF TypeOK, Pass, Drops, EnqueueFails, PassCrash, Goto, Idle
  <1>2. /\ pass'[q].pc # "recorded"
        /\ \A r \in Passes \ {q} : pass'[r] = pass[r]
    BY DEF TypeOK, Pass, Drops, EnqueueFails, PassCrash, Goto, Idle
  <1> QED
    BY <1>1, <1>2 DEF Drops

LEMMA FaultsGrow == TypeOK /\ [Next]_vars => faults' \in {faults, faults + 1}
  <1> SUFFICES ASSUME TypeOK, [Next]_vars PROVE faults' \in {faults, faults + 1}
    OBVIOUS
  <1>1. ASSUME NEW p \in Passes, PassNext(p) PROVE faults' \in {faults, faults + 1}
    BY <1>1 DEF PassNext, Lock, LockUnavailable, List, ListFails, Filter, Record, Enqueue,
                EnqueueFails, Unlock, Close, PassCrash
  <1>2. ASSUME NEW j \in Jobs, JobNext(j) PROVE faults' \in {faults, faults + 1}
    BY <1>2 DEF JobNext, Take, Persist, Finish, WorkerCrash, Check, Leave
  <1>3. CASE UNCHANGED faults
    BY <1>3
  <1> QED
    BY <1>1, <1>2, <1>3 DEF Next, Arrive, LockExpiry, ReadByOwner, Answer, vars

THEOREM StepLoss ==
  TypeOK /\ TypeOK' /\ CapInv /\ LossIsBounded /\ [Next]_vars => LossIsBounded'
  <1> SUFFICES ASSUME TypeOK, TypeOK', CapInv, LossIsBounded, [Next]_vars PROVE LossIsBounded'
    OBVIOUS
  <1>1. /\ Forgotten \in SUBSET Messages /\ IsFiniteSet(Forgotten)
        /\ Cardinality(Forgotten) \in Nat
    <2>1. Forgotten \in SUBSET Messages
      BY DEF Forgotten, TypeOK
    <2> QED
      BY <2>1, FiniteMessages
  <1>2. /\ Forgotten' \in SUBSET Messages /\ Cardinality(Forgotten') \in Nat
    <2>1. Forgotten' \in SUBSET Messages
      BY DEF Forgotten, TypeOK
    <2> QED
      BY <2>1, FiniteMessages
  <1>3. ASSUME NEW m \in Forgotten', m \notin Forgotten
        PROVE  \E p \in Passes : Drops(p) /\ m \in pass[p].ids
    <2>1. m \in seen' /\ Handed(m)' \in Nat
      BY <1>3 DEF Forgotten, TypeOK, Handed, Kinds
    <2>2. ~ Kept(m)'
      BY <1>3, <2>1 DEF Forgotten, Kept
    <2>3. m \in seen => Kept(m)
      BY <1>3, ForgottenNotKept
    <2> QED
      BY <2>1, <2>2, <2>3, StepKept
  <1>4. RunCap \in Nat /\ faults \in Nat /\ faults' \in Nat
    BY ConstantsAssumption DEF TypeOK
  <1>5. CASE \E p \in Passes : Drops(p)
    <2>1. PICK p \in Passes : Drops(p)
      BY <1>5
    <2>2. faults' = faults + 1
      BY <2>1 DEF Drops, EnqueueFails, PassCrash
    <2>3. \A q \in Passes : Drops(q) => q = p
      BY <2>1, DropsOne
    <2>4. Cardinality(pass[p].ids) <= RunCap
      BY <2>1 DEF CapInv, Drops
    <2>5. pass[p].ids \in SUBSET Messages
      BY DEF TypeOK, Pass
    <2>6. IsFiniteSet(pass[p].ids) /\ Cardinality(pass[p].ids) \in Nat
      BY <2>5, FiniteMessages
    <2>7. Forgotten' \in SUBSET (Forgotten \cup pass[p].ids)
      BY <1>3, <2>3
    <2>8. /\ IsFiniteSet(Forgotten \cup pass[p].ids)
          /\ Forgotten \cap pass[p].ids \in SUBSET Messages
          /\ Cardinality(Forgotten \cup pass[p].ids)
               = Cardinality(Forgotten) + Cardinality(pass[p].ids)
                   - Cardinality(Forgotten \cap pass[p].ids)
      BY <1>1, <2>5, <2>6, FS_Union
    <2>9. Cardinality(Forgotten \cap pass[p].ids) \in Nat
      BY <2>8, FiniteMessages
    <2>10. Cardinality(Forgotten') <= Cardinality(Forgotten \cup pass[p].ids)
      BY <2>7, <2>8, FS_Subset
    <2>11. Cardinality(Forgotten') <= Cardinality(Forgotten) + RunCap
      BY <1>1, <1>2, <1>4, <2>4, <2>6, <2>8, <2>9, <2>10
    <2>12. RunCap * (faults + 1) = RunCap * faults + RunCap /\ RunCap * faults \in Nat
      BY <1>4
    <2>13. Cardinality(Forgotten') <= RunCap * faults'
      BY <1>1, <1>2, <1>4, <2>2, <2>11, <2>12 DEF LossIsBounded
    <2> QED
      BY <2>13 DEF LossIsBounded
  <1>6. CASE ~ \E p \in Passes : Drops(p)
    <2>1. Forgotten' \in SUBSET Forgotten
      BY <1>3, <1>6
    <2>2. Cardinality(Forgotten') <= Cardinality(Forgotten)
      BY <1>1, <2>1, FS_Subset
    <2>3. faults' \in {faults, faults + 1}
      BY FaultsGrow
    <2>4. /\ RunCap * (faults + 1) = RunCap * faults + RunCap
          /\ RunCap * faults \in Nat
      BY <1>4
    <2>5. Cardinality(Forgotten') <= RunCap * faults'
      BY <1>1, <1>2, <1>4, <2>2, <2>3, <2>4 DEF LossIsBounded
    <2> QED
      BY <2>5 DEF LossIsBounded
  <1> QED
    BY <1>5, <1>6

\* Whatever the lock does and wherever passes and enqueues fail: all but RunCap
\* recorded messages per failure were handed to a run, or answered, or are
\* about to be enqueued by the poll that recorded them.
THEOREM LossesAreBounded == Spec => []LossIsBounded
  <1>1. Init => LossIsBounded
    <2> SUFFICES ASSUME Init PROVE Cardinality(Forgotten) <= RunCap * faults
      BY DEF LossIsBounded
    <2>1. Forgotten = {} /\ faults = 0
      BY DEF Init, Forgotten
    <2>2. Cardinality({}) = 0
      BY FS_EmptySet
    <2>3. Cardinality(Forgotten) = 0
      BY <2>1, <2>2
    <2> QED
      BY <2>1, <2>3, ConstantsAssumption
  <1> QED
    BY <1>1, StepLoss, TypeCorrect, CapInvariant, PTL DEF Spec

-----------------------------------------------------------------------------
(* The ledger.  Each step of the intake is one of IntakeLedger's, or changes *)
(* nothing that is on the ledger.                                            *)

LEMMA EnqueueOnLedger ==
  ASSUME TypeOK, RecordInv, HandInv, NEW p \in Passes, Enqueue(p)
  PROVE  Ledger!Next
  <1>0. PICK ids \in SUBSET Messages : ids = pass[p].ids
    BY DEF TypeOK, Pass
  <1>1. UNCHANGED <<seen, replies, answered>>
    BY DEF Enqueue
  <1>2. \A m \in Messages : handed[m] \in [Kinds -> 0..2]
    BY DEF TypeOK
  <1>3. \A m \in Messages : \A k \in Kinds :
          handed'[m][k] = IF m \in ids /\ k = Kind(p) THEN Upto2(handed[m][k]) ELSE handed[m][k]
    BY <1>0, <1>2 DEF Enqueue
  <1>4. CASE p \in Polls
    <2>1. ids \subseteq seen /\ \A m \in ids : handed[m]["poll"] = 0
      BY <1>0, <1>4 DEF Enqueue, RecordInv, HandInv
    <2>2. Kind(p) = "poll"
      BY <1>4 DEF Kind
    <2>3. \A m \in Messages :
            /\ handed'[m]["poll"] = IF m \in ids THEN handed[m]["poll"] + 1
                                    ELSE handed[m]["poll"]
            /\ handed'[m]["push"] = handed[m]["push"]
      BY <1>1, <1>3, <2>1, <2>2 DEF Kinds, Upto2
    <2>4. Ledger!Poll(ids)
      BY <1>1, <2>1, <2>3 DEF Ledger!Poll, Ledger!OneMore
    <2> QED
      BY <2>4 DEF Ledger!Next
  <1>5. CASE p \notin Polls
    <2>0. PICK S \in SUBSET Messages : S = {m \in ids : handed[m]["push"] < 2}
      OBVIOUS
    <2>1. Kind(p) = "push"
      BY <1>5 DEF Kind
    <2>2. \A m \in Messages :
            /\ handed'[m]["push"] = IF m \in S THEN handed[m]["push"] + 1
                                    ELSE handed[m]["push"]
            /\ handed'[m]["poll"] = handed[m]["poll"]
      BY <1>2, <1>3, <2>0, <2>1 DEF Kinds, Upto2
    <2>3. Ledger!Push(S)
      BY <1>1, <2>2 DEF Ledger!Push, Ledger!OneMore
    <2> QED
      BY <2>3 DEF Ledger!Next
  <1> QED
    BY <1>4, <1>5

LEMMA PersistOnLedger ==
  ASSUME TypeOK, ReplyInv, ReplyInv', NEW j \in Jobs, Persist(j)
  PROVE  [Ledger!Next]_(Ledger!vars)
  <1>1. PICK m \in Messages : m = job[j].checked /\ m \in job[j].ids
    BY DEF Persist, TypeOK, Job, ReplyInv
  <1>2. /\ \A k \in Messages : replies'[k] = IF k = m THEN Upto2(replies[m]) ELSE replies[k]
        /\ UNCHANGED <<seen, answered, handed>>
    BY <1>1 DEF Persist, TypeOK
  <1>3. Handed(m)' = Handed(m) /\ Handed(m) \in Nat
    BY <1>1, <1>2, HandedType DEF Handed
  <1>4. replies[m] \in 0..2 /\ replies \in [Messages -> 0..2] /\ replies' \in [Messages -> 0..2]
    BY <1>1 DEF TypeOK, Persist, Upto2
  <1>5. CASE replies[m] = 2
    <2>1. replies' = replies
      BY <1>2, <1>4, <1>5 DEF Upto2
    <2> QED
      BY <1>2, <2>1 DEF Ledger!vars
  <1>6. CASE replies[m] < 2
    <2>1. \A k \in Messages : replies'[k] = IF k \in {m} THEN replies[k] + 1 ELSE replies[k]
      BY <1>1, <1>2, <1>6 DEF Upto2
    <2>2. replies[m] < Handed(m)
      <3>1. Handed(m) # 0
        BY <1>1 DEF ReplyInv
      <3>2. Handed(m) <= 1 => replies[m] + 1 <= 1
        BY <1>1, <1>3, <2>1 DEF ReplyInv, OneReplyPerHandling
      <3> QED
        BY <1>3, <1>4, <1>6, <3>1, <3>2
    <2>3. replies[m] < handed[m]["poll"] + handed[m]["push"]
      BY <2>2 DEF Handed
    <2>4. Ledger!Reply(m)
      <3>1. replies' = Ledger!OneMore(replies, {m})
        BY <1>4, <2>1 DEF Ledger!OneMore
      <3> QED
        BY <1>1, <1>2, <2>3, <3>1 DEF Ledger!Reply
    <2> QED
      BY <1>1, <2>4 DEF Ledger!Next
  <1> QED
    BY <1>4, <1>5, <1>6

\* While the lock is kept the intake implements IntakeLedger: a poll hands over
\* what is on record and was not handed over by a poll, and replies stay behind
\* the runs, in every interleaving of passes, runs, crashes and failed calls.
THEOREM LedgerIsKept == ASSUME LockKept PROVE Spec => KeepsLedger
  <1>1. Init => Ledger!Init
    BY DEF Init, Ledger!Init, Kinds
  <1>2. TypeOK /\ RecordInv /\ HandInv /\ ReplyInv /\ ReplyInv' /\ [Next]_vars
          => [Ledger!Next]_(Ledger!vars)
    <2> SUFFICES ASSUME TypeOK, RecordInv, HandInv, ReplyInv, ReplyInv', [Next]_vars
                 PROVE  [Ledger!Next]_(Ledger!vars)
      OBVIOUS
    <2>1. CASE UNCHANGED <<seen, handed, replies, answered>>
      BY <2>1 DEF Ledger!vars
    <2>2. ASSUME NEW m \in Messages, Answer(m) PROVE Ledger!Next
      <3>1. Ledger!Answer(m)
        BY <2>2 DEF Answer, Ledger!Answer
      <3> QED
        BY <3>1 DEF Ledger!Next
    <2>3. ASSUME NEW p \in Passes, Record(p) PROVE [Ledger!Next]_(Ledger!vars)
      <3>1. pass[p].ids \in SUBSET Messages
        BY DEF TypeOK, Pass
      <3>2. CASE p \in Polls
        <4>1. Ledger!Record(pass[p].ids)
          BY <2>3, <3>2 DEF Record, Ledger!Record
        <4> QED
          BY <3>1, <4>1 DEF Ledger!Next
      <3>3. CASE p \notin Polls
        BY <2>1, <2>3, <3>3 DEF Record
      <3> QED
        BY <3>2, <3>3
    <2>4. ASSUME NEW p \in Passes, PassNext(p) PROVE [Ledger!Next]_(Ledger!vars)
      <3>1. CASE Quiet(p)
        BY <2>1, <3>1, QuietStep
      <3>2. CASE Filter(p)
        BY <2>1, <3>2 DEF Filter
      <3>3. CASE Enqueue(p)
        BY <3>3, EnqueueOnLedger
      <3> QED
        BY <2>3, <2>4, <3>1, <3>2, <3>3 DEF PassNext, Quiet
    <2>5. ASSUME NEW j \in Jobs, JobNext(j) PROVE [Ledger!Next]_(Ledger!vars)
      <3>1. CASE Persist(j)
        BY <3>1, PersistOnLedger
      <3>2. CASE ~Persist(j)
        <4>1. UNCHANGED <<seen, handed, replies, answered>>
          BY <2>5, <3>2 DEF JobNext, Take, Check, Leave, Finish, WorkerCrash
        <4> QED
          BY <2>1, <4>1
      <3> QED
        BY <3>1, <3>2
    <2>6. CASE Arrive \/ LockExpiry \/ (\E m \in Messages : ReadByOwner(m)) \/ UNCHANGED vars
      BY <2>1, <2>6 DEF Arrive, LockExpiry, ReadByOwner, vars
    <2> QED
      BY <2>2, <2>4, <2>5, <2>6 DEF Next
  <1> QED
    BY <1>1, <1>2, TypeCorrect, RecordInvariant, HandInvariant, ReplyInvariant, PTL
       DEF Spec, KeepsLedger, Ledger!Spec
=============================================================================
