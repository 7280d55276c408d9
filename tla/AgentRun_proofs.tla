--------------------------- MODULE AgentRun_proofs ---------------------------
(***************************************************************************)
(* Proofs about AgentRun, for any sessions, requests and handlers.         *)
(***************************************************************************)
EXTENDS AgentRun, TLAPS

-----------------------------------------------------------------------------
(* Type correctness *)

THEOREM InitTypeOK == Init => TypeOK
  <1> SUFFICES ASSUME Init PROVE TypeOK
    OBVIOUS
  <1>1. crossed \in BOOLEAN
    BY Zenon DEF Init
  <1> QED
    BY <1>1 DEF Init, TypeOK, Request, Op, Reviews, Idle

THEOREM StepTypeOK == TypeOK /\ [Next]_vars => TypeOK'
  <1> SUFFICES ASSUME TypeOK, [Next]_vars PROVE TypeOK'
    OBVIOUS
  <1>0. crossed' \in BOOLEAN
    BY Zenon DEF TypeOK, Next, Observe, vars
  <1> USE <1>0 DEF TypeOK
  <1>1. ASSUME NEW s \in Sessions, RunNext(s) PROVE TypeOK'
    <2>1. CASE Start(s) \/ Setup(s) \/ SetupFails(s) \/ WorkerCrash(s) \/ Age(s)
      BY <2>1 DEF Start, Setup, SetupFails, WorkerCrash, Age
    <2>2. ASSUME NEW r \in Requests, Propose(s, r) PROVE TypeOK'
      BY <2>2 DEF Propose, Request
    <2>3. ASSUME NEW end \in {"completed", "failed"}, Finish(s, end) PROVE TypeOK'
      BY <2>3 DEF Finish, Ends
    <2> QED
      BY <1>1, <2>1, <2>2, <2>3 DEF RunNext
  <1>2. ASSUME NEW o \in Ops, OpNext(o) PROVE TypeOK'
    <2>1. op[o] \in Op /\ Idle \in Op
      BY DEF Op, Reviews, Idle
    <2>2. ASSUME NEW s \in Sessions, BeginKill(o, s) PROVE TypeOK'
      BY <2>2 DEF BeginKill, PendingOf, Op, Reviews
    <2>3. CASE BeginSweep(o)
      BY <2>3 DEF BeginSweep, Stale, Op, Reviews
    <2>4. ASSUME NEW r \in Requests, NEW pc \in Reviews, BeginReview(o, r, pc)
          PROVE  TypeOK'
      BY <2>4 DEF BeginReview, Op, Reviews
    <2>5. CASE CommitKill(o)
      BY <2>1, <2>5 DEF CommitKill, Op, Reviews, Request, Ends, Resolved
    <2>6. CASE CommitSweep(o)
      BY <2>1, <2>6 DEF CommitSweep, Ends
    <2>7. CASE CallGmail(o)
      BY <2>1, <2>7 DEF CallGmail, Op, Reviews
    <2>8. CASE CommitReview(o)
      BY <2>1, <2>8 DEF CommitReview, Request, Resolved
    <2>9. CASE Abort(o)
      BY <2>1, <2>9 DEF Abort
    <2> QED
      BY <1>2, <2>2, <2>3, <2>4, <2>5, <2>6, <2>7, <2>8, <2>9 DEF OpNext
  <1>3. CASE UNCHANGED vars
    BY <1>3 DEF vars
  <1> QED
    BY <1>1, <1>2, <1>3 DEF Next, Step

\* Every reachable state is well typed: a handler works on sessions and
\* requests that exist, and rows hold one of the closed set of statuses.
THEOREM TypeCorrect == Spec => []TypeOK
  BY InitTypeOK, StepTypeOK, PTL DEF Spec

-----------------------------------------------------------------------------
(* Every termination is explained.  The sweep commits what it read, so what  *)
(* it read must be, and remain, of the sweep's age.                          *)

SweepInv ==
  /\ TerminationIsExplained
  /\ \A o \in Ops : op[o].pc = "sweep" => op[o].of \subseteq old

THEOREM StepSweep == TypeOK /\ SweepInv /\ [Next]_vars => SweepInv'
  <1> SUFFICES ASSUME TypeOK, SweepInv, [Next]_vars PROVE SweepInv'
    OBVIOUS
  <1> USE DEF TypeOK, SweepInv, TerminationIsExplained
  <1>1. ASSUME NEW s \in Sessions, RunNext(s) PROVE SweepInv'
    <2>1. CASE Start(s) \/ Setup(s) \/ SetupFails(s) \/ WorkerCrash(s) \/ Age(s)
      BY <2>1 DEF Start, Setup, SetupFails, WorkerCrash, Age
    <2>2. ASSUME NEW r \in Requests, Propose(s, r) PROVE SweepInv'
      BY <2>2 DEF Propose
    <2>3. ASSUME NEW end \in {"completed", "failed"}, Finish(s, end) PROVE SweepInv'
      BY <2>3 DEF Finish
    <2> QED
      BY <1>1, <2>1, <2>2, <2>3 DEF RunNext
  <1>2. ASSUME NEW o \in Ops, OpNext(o) PROVE SweepInv'
    <2>1. ASSUME NEW s \in Sessions, BeginKill(o, s) PROVE SweepInv'
      BY <2>1 DEF BeginKill
    <2>2. CASE BeginSweep(o)
      BY <2>2 DEF BeginSweep, Stale
    <2>3. ASSUME NEW r \in Requests, NEW pc \in Reviews, BeginReview(o, r, pc)
          PROVE  SweepInv'
      BY <2>3 DEF BeginReview, Reviews
    <2>4. CASE CommitKill(o)
      BY <2>4 DEF CommitKill, Idle
    <2>5. CASE CommitSweep(o)
      BY <2>5 DEF CommitSweep, Idle
    <2>6. CASE CallGmail(o)
      BY <2>6 DEF CallGmail
    <2>7. CASE CommitReview(o)
      BY <2>7 DEF CommitReview, Idle
    <2>8. CASE Abort(o)
      BY <2>8 DEF Abort, Idle
    <2> QED
      BY <1>2, <2>1, <2>2, <2>3, <2>4, <2>5, <2>6, <2>7, <2>8 DEF OpNext
  <1>3. CASE UNCHANGED vars
    BY <1>3 DEF vars
  <1> QED
    BY <1>1, <1>2, <1>3 DEF Next, Step

\* A terminated session has the audit row of a kill or reached the age of the
\* sweep, however kills, sweeps and the end of the run overlap.
THEOREM TerminationsAreExplained == Spec => []TerminationIsExplained
  <1>1. Init => SweepInv
    BY DEF Init, SweepInv, TerminationIsExplained, Idle
  <1>2. SweepInv => TerminationIsExplained
    BY DEF SweepInv
  <1> QED
    BY <1>1, <1>2, StepSweep, TypeCorrect, PTL DEF Spec

-----------------------------------------------------------------------------
(* What a kill leaves open.  A kill cancels the requests it read, so every   *)
(* request proposed between its reads and its commit must be known as late;  *)
(* and after the commit a run that is still alive finds its row terminated,  *)
(* since only its own end could write over that.                             *)

KillInv ==
  /\ KilledPendingIsLate
  /\ \A s \in Sessions : proc[s] = "none" <=> status[s] = "none"
  /\ \A o \in Ops : \A s \in op[o].of : proc[s] # "none"
  /\ \A s \in killAudit : proc[s] # "none" /\ (Alive(s) => status[s] = "terminated")
  /\ \A o \in Ops, r \in Requests :
       op[o].pc = "kill" /\ req[r].status = "pending" /\ req[r].of \in op[o].of
         => r \in op[o].reqs \cup late

THEOREM StepKill == TypeOK /\ KillInv /\ [Next]_vars => KillInv'
  <1> SUFFICES ASSUME TypeOK, KillInv, [Next]_vars PROVE KillInv'
    OBVIOUS
  <1> USE DEF TypeOK, KillInv, KilledPendingIsLate, Alive
  <1>1. ASSUME NEW s \in Sessions, RunNext(s) PROVE KillInv'
    <2>1. CASE Start(s) \/ Setup(s) \/ SetupFails(s) \/ WorkerCrash(s) \/ Age(s)
      BY <2>1 DEF Start, Setup, SetupFails, WorkerCrash, Age, Op, Reviews
    <2>2. ASSUME NEW r \in Requests, Propose(s, r) PROVE KillInv'
      <3>1. ASSUME s \in killAudit \/ \E o \in Ops : op[o].pc = "kill" /\ s \in op[o].of
            PROVE  r \in late'
        BY <2>2, <3>1 DEF Propose, BeingKilled
      <3> QED
        BY <2>2, <3>1 DEF Propose, Request
    <2>3. ASSUME NEW end \in {"completed", "failed"}, Finish(s, end) PROVE KillInv'
      BY <2>3 DEF Finish, Op, Reviews
    <2> QED
      BY <1>1, <2>1, <2>2, <2>3 DEF RunNext
  <1>2. ASSUME NEW o \in Ops, OpNext(o) PROVE KillInv'
    <2>1. ASSUME NEW s \in Sessions, BeginKill(o, s) PROVE KillInv'
      BY <2>1 DEF BeginKill, PendingOf
    <2>2. CASE BeginSweep(o)
      BY <2>2 DEF BeginSweep, Stale
    <2>3. ASSUME NEW r \in Requests, NEW pc \in Reviews, BeginReview(o, r, pc)
          PROVE  KillInv'
      BY <2>3 DEF BeginReview, Reviews
    <2>4. CASE CommitKill(o)
      BY <2>4 DEF CommitKill, Idle, Op, Reviews, Request
    <2>5. CASE CommitSweep(o)
      BY <2>5 DEF CommitSweep, Idle, Op, Reviews
    <2>6. CASE CallGmail(o)
      BY <2>6 DEF CallGmail
    <2>7. CASE CommitReview(o)
      BY <2>7 DEF CommitReview, Idle, Request
    <2>8. CASE Abort(o)
      BY <2>8 DEF Abort, Idle
    <2> QED
      BY <1>2, <2>1, <2>2, <2>3, <2>4, <2>5, <2>6, <2>7, <2>8 DEF OpNext
  <1>3. CASE UNCHANGED vars
    BY <1>3 DEF vars
  <1> QED
    BY <1>1, <1>2, <1>3 DEF Next, Step

\* Whatever overlaps the kill, a request of a killed session that is still
\* open was proposed after the kill had read the session's requests.
THEOREM KillsLeaveLateOnly == Spec => []KilledPendingIsLate
  <1>1. Init => KillInv
    BY ConstantsAssumption DEF Init, KillInv, KilledPendingIsLate, Idle, Alive
  <1>2. KillInv => KilledPendingIsLate
    BY DEF KillInv
  <1> QED
    BY <1>1, <1>2, StepKill, TypeCorrect, PTL DEF Spec

-----------------------------------------------------------------------------
(* Orphans.  As long as handlers work one at a time and kill and sweep meet  *)
(* sessions whose run is dead, the kill switch does what its docstring says: *)
(* what a handler read is still so when it commits.                          *)

Orderly ==
  /\ \A s \in Sessions : proc[s] = "none" => status[s] = "none"
  /\ \A s \in Sessions : status[s] \in Ends => proc[s] = "dead"
  /\ \A s \in killAudit : proc[s] = "dead"
  /\ \A r \in Requests : req[r].of \in killAudit => req[r].status # "pending"
  /\ \A o \in Ops : op[o].pc \in {"kill", "sweep"} =>
       \A s \in op[o].of : proc[s] = "dead" /\ status[s] = "running"
  /\ \A o \in Ops : \A r \in op[o].reqs : req[r].status = "pending"
  /\ \A o \in Ops, r \in Requests :
       op[o].pc = "kill" /\ req[r].status = "pending" /\ req[r].of \in op[o].of
         => r \in op[o].reqs
  /\ \A o, p \in Ops : op[o].pc = "idle" \/ op[p].pc = "idle" \/ o = p
  /\ \A o \in Ops : op[o].pc = "idle" => op[o].reqs = {}
  /\ KilledNeverProceeds

OrphanInv == ~crossed => Orderly

LEMMA NotCrossed ==
  ASSUME [Next]_vars, ~crossed'
  PROVE  ~crossed
  BY DEF Next, Observe, vars

\* A handler that begins without crossing finds nobody at work and no run alive.
LEMMA StartsAlone ==
  ASSUME Observe, ~crossed', NEW o \in Ops, op[o].pc = "idle", op'[o].pc # "idle"
  PROVE  /\ \A q \in Ops : op[q].pc = "idle"
         /\ \A s \in op'[o].of : ~Alive(s)
  BY DEF Observe, Crosses

THEOREM StepOrphan == TypeOK /\ OrphanInv /\ [Next]_vars => OrphanInv'
  <1> SUFFICES ASSUME TypeOK, OrphanInv, [Next]_vars, ~crossed' PROVE Orderly'
    BY DEF OrphanInv
  <1> USE DEF TypeOK, Orderly, KilledNeverProceeds
  <1>0. Orderly
    BY NotCrossed DEF OrphanInv
  <1> USE <1>0
  <1>1. ASSUME NEW s \in Sessions, RunNext(s) PROVE Orderly'
    <2>1. CASE Start(s) \/ Setup(s) \/ SetupFails(s) \/ WorkerCrash(s) \/ Age(s)
      BY <2>1 DEF Start, Setup, SetupFails, WorkerCrash, Age, Op, Reviews, Ends, Alive
    <2>2. ASSUME NEW r \in Requests, Propose(s, r) PROVE Orderly'
      BY <2>2 DEF Propose, Request, Op, Reviews
    <2>3. ASSUME NEW end \in {"completed", "failed"}, Finish(s, end) PROVE Orderly'
      BY <2>3 DEF Finish, Op, Reviews, Ends
    <2> QED
      BY <1>1, <2>1, <2>2, <2>3 DEF RunNext
  <1>2. ASSUME NEW o \in Ops, Observe, OpNext(o) PROVE Orderly'
    <2>1. ASSUME NEW s \in Sessions, BeginKill(o, s) PROVE Orderly'
      <3>1. op'[o] = [pc |-> "kill", of |-> {s}, reqs |-> PendingOf(s)]
        BY <2>1 DEF BeginKill
      <3>2. (\A q \in Ops : op[q].pc = "idle") /\ ~Alive(s)
        BY <1>2, <2>1, <3>1, StartsAlone DEF BeginKill
      <3> QED
        BY <2>1, <3>1, <3>2 DEF BeginKill, PendingOf, Alive
    <2>2. CASE BeginSweep(o)
      <3>1. op'[o] = [pc |-> "sweep", of |-> Stale, reqs |-> {}]
        BY <2>2 DEF BeginSweep
      <3>2. (\A q \in Ops : op[q].pc = "idle") /\ \A s \in Stale : ~Alive(s)
        BY <1>2, <2>2, <3>1, StartsAlone DEF BeginSweep
      <3> QED
        BY <2>2, <3>1, <3>2 DEF BeginSweep, Stale, Alive
    <2>3. ASSUME NEW r \in Requests, NEW pc \in Reviews, BeginReview(o, r, pc)
          PROVE  Orderly'
      <3>1. op'[o] = [pc |-> pc, of |-> {}, reqs |-> {r}]
        BY <2>3 DEF BeginReview, Reviews
      <3>2. \A q \in Ops : op[q].pc = "idle"
        BY <1>2, <2>3, <3>1, StartsAlone DEF BeginReview, Reviews
      <3> QED
        BY <2>3, <3>1, <3>2 DEF BeginReview, Reviews
    <2>4. CASE CommitKill(o)
      BY <2>4 DEF CommitKill, Idle, Op, Reviews, Request, Ends
    <2>5. CASE CommitSweep(o)
      BY <2>5 DEF CommitSweep, Idle, Op, Reviews, Ends
    <2>6. CASE CallGmail(o)
      <3>1. \A r \in op[o].reqs : req[r].of \notin killAudit
        BY DEF Op, Reviews
      <3>2. sent' \in [Requests -> {"no", "open"}]
        BY <2>6, <3>1 DEF CallGmail
      <3>3. /\ op[o].pc = "execute" /\ op'[o].pc = "approve"
            /\ op'[o].of = op[o].of /\ op'[o].reqs = op[o].reqs
            /\ \A q \in Ops : q # o => op'[q] = op[q]
        BY <2>6 DEF CallGmail, Op, Reviews
      <3>4. \A q \in Ops : q # o => op[q].pc = "idle"
        BY <3>3
      <3> QED
        BY <2>6, <3>2, <3>3, <3>4 DEF CallGmail
    <2>7. CASE CommitReview(o)
      BY <2>7 DEF CommitReview, Idle, Request
    <2>8. CASE Abort(o)
      BY <2>8 DEF Abort, Idle
    <2> QED
      BY <1>2, <2>1, <2>2, <2>3, <2>4, <2>5, <2>6, <2>7, <2>8 DEF OpNext
  <1>3. CASE UNCHANGED vars
    BY <1>3 DEF vars
  <1> QED
    BY <1>1, <1>2, <1>3 DEF Next, Step

LEMMA InitOrphan == Init => OrphanInv
  BY DEF Init, OrphanInv, Orderly, KilledNeverProceeds, Idle, Ends

\* Nothing of a killed orphan's session is sent any more, as long as handlers
\* do not overlap.
THEOREM OrphansNeverProceed == Spec => []KilledOrphansNeverProceed
  <1>1. OrphanInv => KilledOrphansNeverProceed
    BY DEF OrphanInv, Orderly, KilledOrphansNeverProceed
  <1> QED
    BY <1>1, StepOrphan, InitOrphan, TypeCorrect, PTL DEF Spec

\* The end of an orphan's session is final, whoever wrote it: the run itself,
\* a kill or the sweep.
THEOREM OrphanEndsAreFinal == Spec => EndIsFinal
  <1> DEFINE Final == \A s \in Sessions :
               status[s] \in Ends /\ status'[s] # status[s] => crossed
  <1>1. TypeOK /\ OrphanInv /\ [Next]_vars => Final
    <2> SUFFICES ASSUME TypeOK, Orderly, [Next]_vars, NEW t \in Sessions,
                        status[t] \in Ends
                 PROVE  status'[t] = status[t]
      BY DEF OrphanInv
    <2> USE DEF TypeOK, Orderly
    <2>1. ASSUME NEW s \in Sessions, RunNext(s) PROVE status'[t] = status[t]
      BY <2>1 DEF RunNext, Start, Setup, SetupFails, WorkerCrash, Age, Propose, Finish, Ends
    <2>2. ASSUME NEW o \in Ops, OpNext(o) PROVE status'[t] = status[t]
      BY <2>2 DEF OpNext, BeginKill, BeginSweep, BeginReview, Reviews, CommitKill, CommitSweep,
                  CallGmail, CommitReview, Abort, Op, Ends
    <2>3. CASE UNCHANGED vars
      BY <2>3 DEF vars
    <2> QED
      BY <2>1, <2>2, <2>3 DEF Next, Step
  <1>2. Final => \A s \in Sessions :
               status[s] \in Ends /\ status'[s] # status[s] => crossed
    OBVIOUS
  <1> HIDE DEF Final
  <1> QED
    BY <1>1, <1>2, StepOrphan, InitOrphan, TypeCorrect, PTL DEF Spec, EndIsFinal

\* A kill of an orphan leaves approved requests approved.
THEOREM OrphanKillsKeepResolved == Spec => KillKeepsResolved
  <1> DEFINE Keeps == \A r \in Requests :
        /\ req[r].status = "approved" /\ req'[r].status # "approved"
        /\ \E o \in Ops : op[o].pc = "kill" /\ op'[o].pc = "idle"
        => crossed
  <1>1. TypeOK /\ OrphanInv /\ [Next]_vars => Keeps
    <2> SUFFICES ASSUME TypeOK, Orderly, [Next]_vars, NEW r \in Requests,
                        req[r].status = "approved"
                 PROVE  req'[r].status = "approved"
      BY DEF OrphanInv
    <2> USE DEF TypeOK, Orderly
    <2>1. ASSUME NEW s \in Sessions, RunNext(s) PROVE req'[r].status = "approved"
      BY <2>1 DEF RunNext, Start, Setup, SetupFails, WorkerCrash, Age, Propose, Finish
    <2>2. ASSUME NEW o \in Ops, OpNext(o) PROVE req'[r].status = "approved"
      <3>1. CASE CommitReview(o)
        BY <3>1 DEF CommitReview
      <3>2. CASE CommitKill(o)
        BY <3>2 DEF CommitKill
      <3>3. CASE UNCHANGED req
        BY <3>3
      <3> QED
        BY <2>2, <3>1, <3>2, <3>3 DEF OpNext, BeginKill, BeginSweep, BeginReview, Reviews,
           CommitSweep, CallGmail, Abort
    <2>3. CASE UNCHANGED vars
      BY <2>3 DEF vars
    <2> QED
      BY <2>1, <2>2, <2>3 DEF Next, Step
  <1>2. Keeps => \A r \in Requests :
        /\ req[r].status = "approved" /\ req'[r].status # "approved"
        /\ \E o \in Ops : op[o].pc = "kill" /\ op'[o].pc = "idle"
        => crossed
    OBVIOUS
  <1> HIDE DEF Keeps
  <1> QED
    BY <1>1, <1>2, StepOrphan, InitOrphan, TypeCorrect, PTL DEF Spec, KillKeepsResolved

-----------------------------------------------------------------------------
(* Handlers in one step.  A handler has one session, with requests of it, or *)
(* one request.                                                              *)

HandlersInv == \A o \in Ops :
  /\ op[o].pc = "kill" => \E s \in Sessions :
       op[o].of = {s} /\ \A r \in op[o].reqs : req[r].of = s /\ req[r].status # "none"
  /\ op[o].pc \in Reviews => \E r \in Requests : op[o].reqs = {r}

LEMMA StepHandlers == TypeOK /\ HandlersInv /\ [Next]_vars => HandlersInv'
  <1> SUFFICES ASSUME TypeOK, HandlersInv, [Next]_vars PROVE HandlersInv'
    OBVIOUS
  <1> USE DEF TypeOK, HandlersInv, Reviews
  <1>0. \A o \in Ops : op[o].reqs \subseteq Requests
    BY DEF Op, Reviews
  <1>1. ASSUME NEW s \in Sessions, RunNext(s) PROVE HandlersInv'
    <2>1. ASSUME NEW r \in Requests, Propose(s, r) PROVE HandlersInv'
      BY <1>0, <2>1 DEF Propose
    <2>2. CASE ~ \E r \in Requests : Propose(s, r)
      BY <1>1, <2>2 DEF RunNext, Start, Setup, SetupFails, WorkerCrash, Age, Finish
    <2> QED
      BY <2>1, <2>2
  <1>2. ASSUME NEW o \in Ops, OpNext(o) PROVE HandlersInv'
    <2>1. CASE \E s \in Sessions : BeginKill(o, s)
      BY <2>1 DEF BeginKill, PendingOf
    <2>2. CASE \E r \in Requests, pc \in Reviews : BeginReview(o, r, pc)
      BY <2>2 DEF BeginReview, Reviews
    <2>3. CASE CallGmail(o)
      <3>1. /\ op[o].pc = "execute" /\ op'[o].of = op[o].of /\ op'[o].reqs = op[o].reqs
            /\ op'[o].pc = "approve" /\ \A q \in Ops \ {o} : op'[q] = op[q]
            /\ req' = req
        BY <2>3 DEF CallGmail, Op, Reviews
      <3> QED
        BY <3>1
    <2>4. CASE CommitKill(o) \/ CommitReview(o)
      <3>1. \A r \in Requests : /\ req'[r].of = req[r].of
                                /\ req[r].status # "none" => req'[r].status # "none"
        BY <2>4 DEF CommitKill, CommitReview, Request
      <3>2. op' = [op EXCEPT ![o] = Idle]
        BY <2>4 DEF CommitKill, CommitReview
      <3> QED
        BY <1>0, <3>1, <3>2 DEF Idle
    <2>5. CASE BeginSweep(o) \/ CommitSweep(o) \/ Abort(o)
      BY <2>5 DEF BeginSweep, CommitSweep, Abort, Idle
    <2> QED
      BY <1>2, <2>1, <2>2, <2>3, <2>4, <2>5 DEF OpNext
  <1>3. CASE UNCHANGED vars
    BY <1>3 DEF vars
  <1> QED
    BY <1>1, <1>2, <1>3 DEF Next, Step

\* The steps of a run are steps of the lifecycle: while it is in its loop, its row
\* is running.
LEMMA RunOnLifecycle ==
  ASSUME TypeOK, Orderly, KillInv, NEW s \in Sessions, RunNext(s)
  PROVE  [Lifecycle!Next]_(Lifecycle!vars)
  <1> USE DEF TypeOK
  <1>1. CASE Start(s)
    <2>1. status[s] = "none"
      BY <1>1 DEF Start, Orderly
    <2>2. Lifecycle!Start(s)
      BY <1>1, <2>1 DEF Start, Lifecycle!Start, Lifecycle!Ended
    <2> QED
      BY <2>2 DEF Lifecycle!Next
  <1>2. proc[s] = "loop" => status[s] = "running"
    BY DEF Orderly, KillInv, Ends
  <1>3. ASSUME NEW r \in Requests, Propose(s, r) PROVE Lifecycle!Next
    <2>1. Lifecycle!Propose(s, r)
      BY <1>2, <1>3 DEF Propose, Lifecycle!Propose
    <2> QED
      BY <2>1 DEF Lifecycle!Next
  <1>4. ASSUME NEW end \in {"completed", "failed"}, Finish(s, end) PROVE Lifecycle!Next
    <2>1. Lifecycle!End(s, end)
      BY <1>2, <1>4 DEF Finish, Lifecycle!End, Lifecycle!Ended
    <2> QED
      BY <2>1 DEF Lifecycle!Next
  <1>5. CASE Setup(s) \/ SetupFails(s) \/ WorkerCrash(s) \/ Age(s)
    BY <1>5 DEF Setup, SetupFails, WorkerCrash, Age, Lifecycle!vars
  <1> QED
    BY <1>1, <1>3, <1>4, <1>5 DEF RunNext

LEMMA CommitOnLifecycle ==
  ASSUME TypeOK, Orderly, HandlersInv, NEW o \in Ops,
         CommitKill(o) \/ CommitSweep(o) \/ CommitReview(o)
  PROVE  Lifecycle!Next
  <1> USE DEF TypeOK
  <1>1. CASE CommitKill(o)
    <2>1. PICK s \in Sessions : op[o].of = {s} /\ \A r \in op[o].reqs : req[r].of = s
      BY <1>1 DEF CommitKill, HandlersInv, Reviews
    <2>2. status[s] = "running"
      BY <1>1, <2>1 DEF CommitKill, Orderly
    <2>3. op[o].reqs = {r \in Requests : req[r].status = "pending" /\ req[r].of = s}
      <3>1. \A r \in op[o].reqs : r \in Requests /\ req[r].status = "pending"
        BY DEF Orderly, Op, Reviews
      <3> QED
        BY <1>1, <2>1, <3>1 DEF CommitKill, Orderly
    <2>4. Lifecycle!Kill(s)
      BY <1>1, <2>1, <2>2, <2>3
         DEF CommitKill, Lifecycle!Kill, Lifecycle!Ended, Lifecycle!Resolved
    <2> QED
      BY <2>4 DEF Lifecycle!Next
  <1>2. CASE CommitSweep(o)
    <2>1. PICK S \in SUBSET Sessions : S = op[o].of
      BY DEF Op, Reviews
    <2>2. \A s \in S : status[s] = "running"
      BY <1>2, <2>1 DEF CommitSweep, Orderly
    <2>3. Lifecycle!Sweep(S)
      BY <1>2, <2>1, <2>2 DEF CommitSweep, Lifecycle!Sweep, Lifecycle!Ended
    <2> QED
      BY <2>3 DEF Lifecycle!Next
  <1>3. CASE CommitReview(o)
    <2>1. PICK r \in Requests : op[o].reqs = {r}
      BY <1>3 DEF CommitReview, HandlersInv, Reviews
    <2>2. PICK end \in {"approved", "rejected"} :
            end = IF op[o].pc = "reject" THEN "rejected" ELSE "approved"
      OBVIOUS
    <2>3. req[r].status = "pending"
      BY <1>3, <2>1, <2>2 DEF CommitReview, Orderly, HandlersInv, Reviews
    <2>4. Lifecycle!Resolve(r, end)
      BY <1>3, <2>1, <2>2, <2>3
         DEF CommitReview, Lifecycle!Resolve, Lifecycle!Resolved
    <2> QED
      BY <2>4 DEF Lifecycle!Next
  <1> QED
    BY <1>1, <1>2, <1>3

\* Gmail takes a reply: the request is pending still, though nobody looks again.
LEMMA GmailOnLifecycle ==
  ASSUME TypeOK, Orderly, HandlersInv, NEW o \in Ops, CallGmail(o)
  PROVE  Lifecycle!Next
  <1>1. PICK r \in Requests : op[o].reqs = {r}
    BY DEF CallGmail, HandlersInv, Reviews
  <1>2. req[r].status = "pending"
    BY <1>1 DEF Orderly
  <1>3. {q \in Requests : sent'[q] # "no"} = {q \in Requests : sent[q] # "no"} \cup {r}
    BY <1>1 DEF CallGmail, TypeOK
  <1>4. Lifecycle!Mail(r)
    BY <1>2, <1>3 DEF CallGmail, Lifecycle!Mail
  <1> QED
    BY <1>4 DEF Lifecycle!Next

\* Until handlers cross each other or a live run, kills, sweeps and reviews
\* implement RunLifecycle, where each of them is one step: the gap between what a
\* handler reads and what it commits cannot be seen from outside.
THEOREM UncrossedAreAtomic == Spec => HandlersAreAtomic
  <1> DEFINE Promise == crossed \/ [Lifecycle!Next]_(Lifecycle!vars)
  <1>1. Init => Lifecycle!Init /\ HandlersInv /\ KillInv
    BY DEF Init, Lifecycle!Init, HandlersInv, Reviews, KillInv, KilledPendingIsLate, Idle, Alive
  <1>2. TypeOK /\ OrphanInv /\ KillInv /\ HandlersInv /\ [Next]_vars => Promise
    <2> SUFFICES ASSUME TypeOK, Orderly, KillInv, HandlersInv, [Next]_vars
                 PROVE  [Lifecycle!Next]_(Lifecycle!vars)
      BY DEF OrphanInv
    <2>1. ASSUME NEW o \in Ops, OpNext(o) PROVE [Lifecycle!Next]_(Lifecycle!vars)
      <3>1. CASE CommitKill(o) \/ CommitSweep(o) \/ CommitReview(o)
        BY <3>1, CommitOnLifecycle
      <3>2. CASE CallGmail(o)
        BY <3>2, GmailOnLifecycle
      <3>3. CASE UNCHANGED <<status, req, killAudit, sent>>
        BY <3>3 DEF Lifecycle!vars
      <3> QED
        BY <2>1, <3>1, <3>2, <3>3 DEF OpNext, BeginKill, BeginSweep, BeginReview, Reviews, Abort
    <2>2. CASE UNCHANGED vars
      BY <2>2 DEF vars, Lifecycle!vars
    <2> QED
      BY <2>1, <2>2, RunOnLifecycle DEF Next, Step
  <1>3. Promise => [crossed \/ Lifecycle!Next]_(Lifecycle!vars)
    OBVIOUS
  <1> HIDE DEF Promise
  <1> QED
    BY <1>1, <1>2, <1>3, InitOrphan, StepOrphan, StepKill, StepHandlers, TypeCorrect, PTL
       DEF Spec, HandlersAreAtomic
=============================================================================
