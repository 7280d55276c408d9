-------------------------- MODULE ApprovalHub_proofs --------------------------
(***************************************************************************)
(* Proofs about ApprovalHub, for any requests, reviewers, drafts, handlers *)
(* and overlapping sweeps.                                                 *)
(***************************************************************************)
EXTENDS ApprovalHub, TLAPS

-----------------------------------------------------------------------------
(* The non-deterministic steps of Next, one named formula per action. *)

LEMMA NextCases ==
  ASSUME Next
  PROVE  \/ \E r \in Requests, b \in Bodies \cup {NoDraft} : Propose(r, b)
         \/ \E h \in Handlers, r \in Requests, op \in Resolutions, u \in Users :
              BeginResolve(h, op, r, u)
         \/ \E h \in Handlers, r \in Requests, b \in Bodies : BeginEdit(h, r, b)
         \/ \E h \in Handlers, r \in Requests, u \in Users, t \in 1..MaxTime :
              BeginSchedule(h, r, u, t)
         \/ \E h \in Handlers, r \in Requests, op \in Executions, u \in Users :
              BeginExecute(h, op, r, u)
         \/ \E h \in Handlers, u \in Users : BeginClear(h, u)
         \/ \E h \in Handlers : CommitClear(h)
         \/ \E s \in Sweeps : SweepLoad(s)
         \/ \E f \in flight : SweepNext(f)
         \/ \E f \in flight : GmailAccepts(f)
         \/ \E f \in flight : GmailRefuses(f)
         \/ \E f \in flight : GmailAnswerLost(f)
         \/ \E f \in flight : CommitResolve(f)
         \/ \E f \in flight : CommitArguments(f)
         \/ \E h \in Handlers \cup Sweeps : Abort(h)
         \/ Tick
  <1>1. Step
    BY DEF Next
  <1> QED
    BY <1>1, Zenon DEF Step

-----------------------------------------------------------------------------
(* Type correctness *)

LEMMA UnscheduledType ==
  ASSUME NEW b \in Bodies \cup {NoDraft}
  PROVE  Unscheduled(b) \in Arguments
  BY DEF Unscheduled, Arguments

LEMMA ScheduledType ==
  ASSUME NEW a \in Arguments, NEW t \in 1..MaxTime, NEW u \in Users
  PROVE  [a EXCEPT !.at = t, !.by = u] \in Arguments
  <1>1. t \in Nat \cup {None}
    BY ConstantsAssumption
  <1> QED
    BY <1>1 DEF Arguments

LEMMA RowType ==
  ASSUME TypeOK, NEW r \in Requests
  PROVE  /\ row[r] \in Row
         /\ row[r].args \in Arguments
         /\ row[r].args.body \in Bodies \cup {NoDraft}
         /\ row[r].args.by \in Users \cup {None}
  BY DEF TypeOK, Row, Arguments

LEMMA FlightType ==
  ASSUME TypeOK, NEW f \in flight
  PROVE  /\ f \in Flight
         /\ f.req \in Requests
         /\ f.user \in Users \cup {None}
         /\ f.args \in Arguments
         /\ f.args.body \in Bodies \cup {NoDraft}
  <1>1. f \in Flight
    BY DEF TypeOK
  <1>2. f.req \in Requests /\ f.user \in Users \cup {None} /\ f.args \in Arguments
    BY <1>1 DEF Flight
  <1> QED
    BY <1>1, <1>2 DEF Arguments

\* Every handler of the group that clears the queue carries a typed user.
LEMMA ClearUserType ==
  ASSUME TypeOK, NEW h, NEW r \in Requests, \E f \in Of(h) : f.req = r
  PROVE  (CHOOSE f \in Of(h) : f.req = r) \in {f \in flight : f.id = h /\ f.req = r}
  BY Zenon DEF Of

LEMMA EnterType ==
  ASSUME TypeOK, NEW h \in Handlers, NEW r \in Requests, NEW u \in Users \cup {None},
         NEW op \in Resolutions \cup Executions \cup {"edit", "schedule"},
         NEW args \in Arguments, Enter(h, op, r, u, args)
  PROVE  flight' \subseteq Flight /\ calls' \in 0..MaxCalls
  BY ConstantsAssumption DEF Enter, TypeOK, Flight

LEMMA AdvanceType ==
  ASSUME TypeOK, NEW f \in flight, NEW pc \in {"queued", "loaded", "accepted"},
         Advance(f, pc)
  PROVE  flight' \subseteq Flight
  <1>1. [f EXCEPT !.pc = pc] \in Flight
    BY FlightType DEF Flight
  <1> QED
    BY <1>1 DEF Advance, TypeOK

LEMMA DeliverType ==
  ASSUME TypeOK, NEW f \in flight, Deliver(f)
  PROVE  mail' \subseteq Reply /\ sends' \in [Requests -> 0..2]
  <1>1. mail' \subseteq Reply
    BY FlightType DEF Deliver, TypeOK, Reply, Kind, Executions
  <1>2. sends' \in [Requests -> 0..2]
    BY FlightType DEF Deliver, TypeOK
  <1> QED
    BY <1>1, <1>2

THEOREM InitTypeOK == Init => TypeOK
  <1> SUFFICES ASSUME Init PROVE TypeOK
    OBVIOUS
  <1>1. row \in [Requests -> Row]
    BY UnscheduledType DEF Init, Row
  <1>2. overlapped \in BOOLEAN
    BY Zenon DEF Init
  <1> QED
    BY <1>1, <1>2, ConstantsAssumption DEF Init, TypeOK

THEOREM StepTypeOK == TypeOK /\ [Next]_vars => TypeOK'
  <1> SUFFICES ASSUME TypeOK, [Next]_vars PROVE TypeOK'
    OBVIOUS
  <1>0. overlapped' \in BOOLEAN
    BY Zenon DEF TypeOK, Next, Observe, vars
  <1> USE <1>0
  <1>1. ASSUME NEW r \in Requests, NEW b \in Bodies \cup {NoDraft}, Propose(r, b)
        PROVE  TypeOK'
    <2>1. row' \in [Requests -> Row]
      BY <1>1, UnscheduledType DEF Propose, TypeOK, Row
    <2> QED
      BY <1>1, <2>1 DEF Propose, TypeOK
  <1>2. ASSUME NEW h \in Handlers, NEW r \in Requests, NEW op \in Resolutions,
               NEW u \in Users, BeginResolve(h, op, r, u)
        PROVE  TypeOK'
    BY <1>2, RowType, EnterType DEF BeginResolve, TypeOK
  <1>3. ASSUME NEW h \in Handlers, NEW r \in Requests, NEW b \in Bodies,
               BeginEdit(h, r, b)
        PROVE  TypeOK'
    BY <1>3, UnscheduledType, EnterType DEF BeginEdit, TypeOK
  <1>4. ASSUME NEW h \in Handlers, NEW r \in Requests, NEW u \in Users,
               NEW t \in 1..MaxTime, BeginSchedule(h, r, u, t)
        PROVE  TypeOK'
    <2>1. [row[r].args EXCEPT !.at = t, !.by = u] \in Arguments
      BY RowType, ScheduledType
    <2>2. flight' \subseteq Flight /\ calls' \in 0..MaxCalls
      BY <1>4, <2>1, EnterType DEF BeginSchedule
    <2>3. decided' \subseteq Decision
      BY <1>4, RowType DEF BeginSchedule, TypeOK, Decision
    <2> QED
      BY <1>4, <2>2, <2>3 DEF BeginSchedule, TypeOK
  <1>5. ASSUME NEW h \in Handlers, NEW r \in Requests, NEW op \in Executions,
               NEW u \in Users, BeginExecute(h, op, r, u)
        PROVE  TypeOK'
    <2>1. flight' \subseteq Flight /\ calls' \in 0..MaxCalls
      BY <1>5, RowType, EnterType DEF BeginExecute
    <2>2. decided' \subseteq Decision
      BY <1>5, RowType DEF BeginExecute, TypeOK, Decision
    <2> QED
      BY <1>5, <2>1, <2>2 DEF BeginExecute, TypeOK
  <1>6. ASSUME NEW h \in Handlers, NEW u \in Users, BeginClear(h, u)
        PROVE  TypeOK'
    <2>1. flight' \subseteq Flight
      BY <1>6, RowType DEF BeginClear, TypeOK, Flight
    <2>2. calls' \in 0..MaxCalls
      BY <1>6, ConstantsAssumption DEF BeginClear, TypeOK
    <2> QED
      BY <1>6, <2>1, <2>2 DEF BeginClear, TypeOK
  <1>7. ASSUME NEW h \in Handlers, CommitClear(h)
        PROVE  TypeOK'
    <2>1. row' \in [Requests -> Row]
      <3>1. ASSUME NEW r \in Requests, \E f \in Of(h) : f.req = r
            PROVE  [row[r] EXCEPT !.status = "rejected",
                       !.reviewer = (CHOOSE f \in Of(h) : f.req = r).user] \in Row
        <4>1. (CHOOSE f \in Of(h) : f.req = r).user \in Users \cup {None}
          BY <3>1, ClearUserType, FlightType
        <4> QED
          BY <4>1, RowType DEF Row, Terminal
      <3> QED
        BY <1>7, <3>1, RowType DEF CommitClear
    <2>2. audit' \subseteq AuditRow
      <3>1. ASSUME NEW f \in Of(h)
            PROVE  [req |-> f.req, user |-> f.user, action |-> "rejected"] \in AuditRow
        BY FlightType DEF Of, AuditRow
      <3> QED
        BY <1>7, <3>1 DEF CommitClear, TypeOK
    <2> QED
      BY <1>7, <2>1, <2>2 DEF CommitClear, TypeOK, Of
  <1>8. ASSUME NEW s \in Sweeps, SweepLoad(s)
        PROVE  TypeOK'
    <2>1. flight' \subseteq Flight
      BY <1>8, RowType DEF SweepLoad, TypeOK, Flight
    <2> QED
      BY <1>8, <2>1 DEF SweepLoad, TypeOK
  <1>9. ASSUME NEW f \in flight, SweepNext(f)
        PROVE  TypeOK'
    <2>1. flight' \subseteq Flight
      BY <1>9, AdvanceType DEF SweepNext, Return, TypeOK
    <2> QED
      BY <1>9, <2>1 DEF SweepNext, TypeOK
  <1>10. ASSUME NEW f \in flight, GmailAccepts(f)
         PROVE  TypeOK'
    BY <1>10, AdvanceType, DeliverType DEF GmailAccepts, TypeOK
  <1>11. ASSUME NEW f \in flight, GmailRefuses(f)
         PROVE  TypeOK'
    BY <1>11 DEF GmailRefuses, Return, TypeOK
  <1>12. ASSUME NEW f \in flight, GmailAnswerLost(f)
         PROVE  TypeOK'
    BY <1>12, DeliverType DEF GmailAnswerLost, Return, TypeOK
  <1>13. ASSUME NEW f \in flight, CommitResolve(f)
         PROVE  TypeOK'
    <2>1. Outcome(f) \in {"approved", "rejected"}
      BY DEF Outcome
    <2>2. row' \in [Requests -> Row]
      BY <1>13, <2>1, FlightType, RowType DEF CommitResolve, TypeOK, Row, Terminal
    <2>3. audit' \subseteq AuditRow
      BY <1>13, <2>1, FlightType DEF CommitResolve, TypeOK, AuditRow
    <2>4. seen' \subseteq Requests
      BY <1>13, FlightType DEF CommitResolve, TypeOK
    <2> QED
      BY <1>13, <2>2, <2>3, <2>4 DEF CommitResolve, Return, TypeOK
  <1>14. ASSUME NEW f \in flight, CommitArguments(f)
         PROVE  TypeOK'
    <2>1. row' \in [Requests -> Row]
      BY <1>14, FlightType, RowType DEF CommitArguments, TypeOK, Row
    <2>2. audit' \subseteq AuditRow
      BY <1>14, FlightType DEF CommitArguments, TypeOK, AuditRow
    <2> QED
      BY <1>14, <2>1, <2>2 DEF CommitArguments, Return, TypeOK
  <1>15. ASSUME NEW h \in Handlers \cup Sweeps, Abort(h)
         PROVE  TypeOK'
    BY <1>15 DEF Abort, TypeOK
  <1>16. CASE Tick
    BY <1>16, ConstantsAssumption DEF Tick, TypeOK
  <1>17. CASE UNCHANGED vars
    BY <1>17 DEF vars, TypeOK
  <1> QED
    BY <1>1, <1>2, <1>3, <1>4, <1>5, <1>6, <1>7, <1>8, <1>9, <1>10, <1>11, <1>12,
       <1>13, <1>14, <1>15, <1>16, <1>17, NextCases

\* Every reachable state is well typed: in particular a row holds one of the
\* closed set of statuses and a sweep works on copies of well-formed rows.
THEOREM TypeCorrect == Spec => []TypeOK
  BY InitTypeOK, StepTypeOK, PTL DEF Spec

-----------------------------------------------------------------------------
(* The draft that is sent is a draft the reviewer chose.  On its own the     *)
(* property is not inductive: the draft reaches Gmail from a handler's copy, *)
(* a sweep's copy from the row, the row's from the handler that scheduled.   *)

Chosen(r, a, u) == [req |-> r, body |-> a.body, user |-> u] \in decided

ChoiceInv ==
  /\ SentDraftWasChosen
  /\ \A f \in flight : f.op \in Executions \cup {"schedule", "sweep"}
                         => Chosen(f.req, f.args, f.user)
  /\ \A f \in flight : f.op = "edit" => f.args.at = None
  /\ \A r \in Requests : row[r].args.at # None
                         => Chosen(r, row[r].args, row[r].args.by)
  /\ \A f \in flight : f.op = "schedule" => f.args.by = f.user

THEOREM InitChoice == Init => ChoiceInv
  BY DEF Init, ChoiceInv, SentDraftWasChosen, Unscheduled

\* A step that leaves the rows and the mail alone and only ends handlers or
\* moves them on keeps the invariant.
LEMMA QuietChoice ==
  ASSUME ChoiceInv, UNCHANGED <<row, mail>>, decided \subseteq decided',
         \A g \in flight' : \E f \in flight : /\ g.op = f.op /\ g.req = f.req
                                               /\ g.args = f.args /\ g.user = f.user
  PROVE  ChoiceInv'
  BY DEF ChoiceInv, SentDraftWasChosen, Chosen

\* So does a step that ends handlers and writes other columns of the rows.
LEMMA ResolveChoice ==
  ASSUME ChoiceInv, UNCHANGED <<mail, decided>>, flight' \subseteq flight,
         \A r \in Requests : row'[r].args = row[r].args
  PROVE  ChoiceInv'
  BY DEF ChoiceInv, SentDraftWasChosen, Chosen

LEMMA AdvanceKeeps ==
  ASSUME TypeOK, NEW f \in flight, NEW pc, Advance(f, pc)
  PROVE  \A g \in flight' : \E k \in flight : /\ g.op = k.op /\ g.req = k.req
                                               /\ g.args = k.args /\ g.user = k.user
  <1>1. \A g \in flight' : g \in flight \/ g = [f EXCEPT !.pc = pc]
    BY DEF Advance
  <1>2. LET g == [f EXCEPT !.pc = pc]
        IN  g.op = f.op /\ g.req = f.req /\ g.args = f.args /\ g.user = f.user
    BY FlightType DEF Flight
  <1> QED
    BY <1>1, <1>2

\* A new handler keeps the invariant when the draft it carries was chosen, or
\* when it neither sends nor schedules.
LEMMA EnterChoice ==
  ASSUME ChoiceInv, UNCHANGED <<row, mail>>, decided \subseteq decided',
         NEW h, NEW op, NEW r, NEW u, NEW a, Enter(h, op, r, u, a),
         op \in Executions \cup {"schedule", "sweep"}
           => [req |-> r, body |-> a.body, user |-> u] \in decided',
         op = "edit" => a.at = None,
         op = "schedule" => a.by = u
  PROVE  ChoiceInv'
  <1>1. \A g \in flight' : \/ g \in flight
                           \/ g = [id |-> h, op |-> op, req |-> r, user |-> u,
                                   args |-> a, pc |-> "loaded"]
    BY DEF Enter
  <1> QED
    BY <1>1 DEF ChoiceInv, SentDraftWasChosen, Chosen

LEMMA DeliverChoice ==
  ASSUME TypeOK, ChoiceInv, NEW f \in flight, CallsGmail(f), Deliver(f),
         UNCHANGED <<row, decided>>,
         \A g \in flight' : \E k \in flight : /\ g.op = k.op /\ g.req = k.req
                                               /\ g.args = k.args /\ g.user = k.user
  PROVE  ChoiceInv'
  <1>1. Chosen(f.req, f.args, f.user)
    BY DEF ChoiceInv, CallsGmail
  <1>2. ASSUME NEW m \in mail'
        PROVE  [req |-> m.req, body |-> m.body, user |-> m.by] \in decided'
    <2>1. CASE m \in mail
      BY <2>1 DEF ChoiceInv, SentDraftWasChosen
    <2>2. CASE m = [req |-> f.req, kind |-> Kind(f), body |-> f.args.body,
                    by |-> f.user]
      BY <1>1, <2>2 DEF Chosen
    <2> QED
      BY <2>1, <2>2 DEF Deliver
  <1> QED
    BY <1>2 DEF ChoiceInv, SentDraftWasChosen, Chosen

THEOREM StepChoice == TypeOK /\ ChoiceInv /\ [Next]_vars => ChoiceInv'
  <1> SUFFICES ASSUME TypeOK, ChoiceInv, [Next]_vars PROVE ChoiceInv'
    OBVIOUS
  <1>1. ASSUME NEW r \in Requests, NEW b \in Bodies \cup {NoDraft}, Propose(r, b)
        PROVE  ChoiceInv'
    <2>1. \A q \in Requests : row'[q].args.at # None => row'[q] = row[q]
      BY <1>1 DEF Propose, Unscheduled, TypeOK
    <2> QED
      BY <1>1, <2>1 DEF Propose, ChoiceInv, SentDraftWasChosen, Chosen
  <1>2. ASSUME NEW h \in Handlers, NEW r \in Requests, NEW op \in Resolutions,
               NEW u \in Users, BeginResolve(h, op, r, u)
        PROVE  ChoiceInv'
    BY <1>2, EnterChoice DEF BeginResolve, Resolutions, Executions
  <1>3. ASSUME NEW h \in Handlers, NEW r \in Requests, NEW b \in Bodies,
               BeginEdit(h, r, b)
        PROVE  ChoiceInv'
    BY <1>3, EnterChoice DEF BeginEdit, Unscheduled, Executions
  <1>4. ASSUME NEW h \in Handlers, NEW r \in Requests, NEW u \in Users,
               NEW t \in 1..MaxTime, BeginSchedule(h, r, u, t)
        PROVE  ChoiceInv'
    <2> DEFINE a == [row[r].args EXCEPT !.at = t, !.by = u]
    <2>1. a.body = row[r].args.body /\ a.by = u
      BY RowType DEF Arguments
    <2>2. [req |-> r, body |-> a.body, user |-> u] \in decided'
      BY <1>4, <2>1 DEF BeginSchedule
    <2>3. Enter(h, "schedule", r, u, a) /\ decided \subseteq decided'
      BY <1>4 DEF BeginSchedule
    <2> HIDE DEF a
    <2> QED
      BY <1>4, <2>1, <2>2, <2>3, EnterChoice DEF BeginSchedule
  <1>5. ASSUME NEW h \in Handlers, NEW r \in Requests, NEW op \in Executions,
               NEW u \in Users, BeginExecute(h, op, r, u)
        PROVE  ChoiceInv'
    <2>1. /\ [req |-> r, body |-> row[r].args.body, user |-> u] \in decided'
          /\ decided \subseteq decided'
      BY <1>5 DEF BeginExecute
    <2> QED
      BY <1>5, <2>1, EnterChoice DEF BeginExecute, Executions
  <1>6. ASSUME NEW h \in Handlers, NEW u \in Users, BeginClear(h, u)
        PROVE  ChoiceInv'
    <2>1. \A g \in flight' : g \in flight \/ g.op = "clear"
      BY <1>6 DEF BeginClear
    <2> QED
      BY <1>6, <2>1 DEF BeginClear, ChoiceInv, SentDraftWasChosen, Chosen, Executions
  <1>7. ASSUME NEW h \in Handlers, CommitClear(h)
        PROVE  ChoiceInv'
    <2>1. \A r \in Requests : row'[r].args = row[r].args
      BY <1>7, RowType DEF CommitClear, Row
    <2> QED
      BY <1>7, <2>1, ResolveChoice DEF CommitClear
  <1>8. ASSUME NEW s \in Sweeps, SweepLoad(s)
        PROVE  ChoiceInv'
    <2>1. \A g \in flight' :
            \/ g \in flight
            \/ /\ g.op = "sweep" /\ g.req \in Requests /\ Due(g.req)
               /\ g.args = row[g.req].args /\ g.user = row[g.req].args.by
      BY <1>8 DEF SweepLoad
    <2>2. \A g \in flight' : g \in flight \/ Chosen(g.req, g.args, g.user)
      BY <2>1 DEF ChoiceInv, Due
    <2> QED
      BY <1>8, <2>1, <2>2 DEF SweepLoad, ChoiceInv, SentDraftWasChosen, Chosen
  <1>9. ASSUME NEW f \in flight, SweepNext(f)
        PROVE  ChoiceInv'
    <2>1. CASE Return(f)
      BY <1>9, <2>1, QuietChoice DEF SweepNext, Return
    <2>2. CASE Advance(f, "loaded")
      BY <1>9, <2>2, QuietChoice, AdvanceKeeps DEF SweepNext
    <2> QED
      BY <1>9, <2>1, <2>2 DEF SweepNext
  <1>10. ASSUME NEW f \in flight, GmailAccepts(f)
         PROVE  ChoiceInv'
    BY <1>10, AdvanceKeeps, DeliverChoice DEF GmailAccepts
  <1>11. ASSUME NEW f \in flight, GmailRefuses(f)
         PROVE  ChoiceInv'
    BY <1>11, QuietChoice DEF GmailRefuses, Return
  <1>12. ASSUME NEW f \in flight, GmailAnswerLost(f)
         PROVE  ChoiceInv'
    BY <1>12, DeliverChoice DEF GmailAnswerLost, Return
  <1>13. ASSUME NEW f \in flight, CommitResolve(f)
         PROVE  ChoiceInv'
    <2>1. \A r \in Requests : row'[r].args = row[r].args
      BY <1>13, FlightType, RowType DEF CommitResolve, TypeOK, Row
    <2> QED
      BY <1>13, <2>1, ResolveChoice DEF CommitResolve, Return
  <1>14. ASSUME NEW f \in flight, CommitArguments(f)
         PROVE  ChoiceInv'
    <2>1. \A r \in Requests :
            row'[r].args = IF r = f.req THEN f.args ELSE row[r].args
      BY <1>14, FlightType, RowType DEF CommitArguments, TypeOK, Row
    <2>2. f.args.at # None => Chosen(f.req, f.args, f.args.by)
      BY <1>14 DEF CommitArguments, ChoiceInv
    <2> QED
      BY <1>14, <2>1, <2>2 DEF CommitArguments, Return, ChoiceInv, SentDraftWasChosen, Chosen
  <1>15. ASSUME NEW h \in Handlers \cup Sweeps, Abort(h)
         PROVE  ChoiceInv'
    BY <1>15, QuietChoice DEF Abort
  <1>16. CASE Tick
    BY <1>16, QuietChoice DEF Tick
  <1>17. CASE UNCHANGED vars
    BY <1>17, QuietChoice DEF vars
  <1> QED
    BY <1>1, <1>2, <1>3, <1>4, <1>5, <1>6, <1>7, <1>8, <1>9, <1>10, <1>11, <1>12,
       <1>13, <1>14, <1>15, <1>16, <1>17, NextCases

\* No reply reaches Gmail with a draft its reviewer did not choose, for any
\* number of handlers, sweeps, failures and restarts.
THEOREM SentDraftsWereChosen == Spec => []SentDraftWasChosen
  <1>1. Spec => []ChoiceInv
    BY InitChoice, StepChoice, TypeCorrect, PTL DEF Spec
  <1>2. ChoiceInv => SentDraftWasChosen
    BY DEF ChoiceInv
  <1> QED
    BY <1>1, <1>2, PTL

-----------------------------------------------------------------------------
(* Resolutions.  Whatever the step, a row keeps its status and reviewer, or  *)
(* is proposed, or takes a terminal status together with its audit row.      *)

RowStep(r) ==
  \/ row'[r].status = row[r].status /\ row'[r].reviewer = row[r].reviewer
  \/ row[r].status = "absent" /\ row'[r].status = "pending"
  \/ /\ row'[r].status \in Terminal
     /\ [req |-> r, user |-> row'[r].reviewer, action |-> row'[r].status] \in audit'

LEMMA RowSteps ==
  ASSUME TypeOK, [Next]_vars
  PROVE  audit \subseteq audit' /\ \A r \in Requests : RowStep(r)
  <1>1. ASSUME NEW r \in Requests, NEW b \in Bodies \cup {NoDraft}, Propose(r, b)
        PROVE  audit \subseteq audit' /\ \A q \in Requests : RowStep(q)
    <2>1. \A q \in Requests : row'[q] = row[q] \/ (q = r /\ row'[q].status = "pending")
      BY <1>1 DEF Propose, TypeOK
    <2> QED
      BY <1>1, <2>1 DEF Propose, RowStep
  <1>2. ASSUME UNCHANGED <<row, audit>>
        PROVE  audit \subseteq audit' /\ \A r \in Requests : RowStep(r)
    BY <1>2 DEF RowStep
  <1>3. ASSUME NEW h \in Handlers, CommitClear(h)
        PROVE  audit \subseteq audit' /\ \A r \in Requests : RowStep(r)
    <2>1. ASSUME NEW r \in Requests, \E f \in Of(h) : f.req = r
          PROVE  RowStep(r)
      <3> DEFINE f == CHOOSE k \in Of(h) : k.req = r
      <3>1. f \in Of(h) /\ f.req = r
        BY <2>1
      <3>2. row'[r].status = "rejected" /\ row'[r].reviewer = f.user
        BY <1>3, <2>1, RowType DEF CommitClear, Row
      <3> HIDE DEF f
      <3>3. [req |-> f.req, user |-> f.user, action |-> "rejected"] \in audit'
        BY <1>3, <3>1 DEF CommitClear
      <3> QED
        BY <3>1, <3>2, <3>3 DEF RowStep, Terminal
    <2>2. ASSUME NEW r \in Requests, ~ \E f \in Of(h) : f.req = r
          PROVE  RowStep(r)
      BY <1>3, <2>2 DEF CommitClear, RowStep
    <2> QED
      BY <1>3, <2>1, <2>2 DEF CommitClear
  <1>4. ASSUME NEW f \in flight, CommitResolve(f)
        PROVE  audit \subseteq audit' /\ \A r \in Requests : RowStep(r)
    <2>1. \A r \in Requests : r # f.req => row'[r] = row[r]
      BY <1>4 DEF CommitResolve, TypeOK
    <2>2. row'[f.req].status = Outcome(f) /\ row'[f.req].reviewer = f.user
      BY <1>4, FlightType, RowType DEF CommitResolve, TypeOK, Row
    <2>3. [req |-> f.req, user |-> f.user, action |-> Outcome(f)] \in audit'
      BY <1>4 DEF CommitResolve
    <2>4. Outcome(f) \in Terminal
      BY DEF Outcome, Terminal
    <2> QED
      BY <1>4, <2>1, <2>2, <2>3, <2>4 DEF CommitResolve, RowStep
  <1>5. ASSUME NEW f \in flight, CommitArguments(f)
        PROVE  audit \subseteq audit' /\ \A r \in Requests : RowStep(r)
    <2>1. \A r \in Requests : row'[r].status = row[r].status
                             /\ row'[r].reviewer = row[r].reviewer
      BY <1>5, FlightType, RowType DEF CommitArguments, TypeOK, Row
    <2> QED
      BY <1>5, <2>1 DEF CommitArguments, RowStep
  <1>6. CASE UNCHANGED vars
    BY <1>2, <1>6 DEF vars
  <1>7. \/ UNCHANGED <<row, audit>>
        \/ \E r \in Requests, b \in Bodies \cup {NoDraft} : Propose(r, b)
        \/ \E h \in Handlers : CommitClear(h)
        \/ \E f \in flight : CommitResolve(f) \/ CommitArguments(f)
    BY <1>6, NextCases
       DEF vars, BeginResolve, BeginEdit, BeginSchedule, BeginExecute, BeginClear,
           SweepLoad, SweepNext, GmailAccepts, GmailRefuses, GmailAnswerLost, Abort, Tick
  <1> QED
    BY <1>1, <1>2, <1>3, <1>4, <1>5, <1>7

\* The reviewer a resolved row names has an audit row for that resolution.
THEOREM ResolutionsAreAudited == Spec => []ResolutionIsAudited
  <1>1. Init => ResolutionIsAudited
    BY DEF Init, ResolutionIsAudited, Terminal
  <1>2. TypeOK /\ ResolutionIsAudited /\ [Next]_vars => ResolutionIsAudited'
    <2> SUFFICES ASSUME TypeOK, ResolutionIsAudited, [Next]_vars,
                        NEW r \in Requests, row'[r].status \in Terminal
                 PROVE  [req |-> r, user |-> row'[r].reviewer,
                         action |-> row'[r].status] \in audit'
      BY DEF ResolutionIsAudited
    <2>1. audit \subseteq audit' /\ RowStep(r)
      BY RowSteps
    <2> QED
      BY <2>1 DEF RowStep, ResolutionIsAudited, Terminal
  <1> QED
    BY <1>1, <1>2, TypeCorrect, PTL DEF Spec

\* No step, of any handler or sweep, puts a resolved request back in the queue.
THEOREM ResolvedStaysResolved == Spec => ResolvedNeverReopens
  <1>1. TypeOK /\ [Next]_vars =>
          [\A r \in Requests : row[r].status \in Terminal
                              => row'[r].status \in Terminal]_vars
    <2> SUFFICES ASSUME TypeOK, [Next]_vars, NEW r \in Requests,
                        row[r].status \in Terminal
                 PROVE  row'[r].status \in Terminal
      OBVIOUS
    <2> QED
      BY RowSteps DEF RowStep, Terminal
  <1> QED
    BY <1>1, TypeCorrect, PTL DEF Spec, ResolvedNeverReopens

-----------------------------------------------------------------------------
(* A source message counts as answered only after Gmail accepted a reply.    *)

SeenInv ==
  /\ SeenOnlyAfterReply
  /\ \A f \in flight : f.pc = "accepted" => \E m \in mail : m.req = f.req

LEMMA SeenStep ==
  ASSUME SeenInv, mail \subseteq mail', UNCHANGED seen,
         \A f \in flight' : f.pc = "accepted" =>
            f \in flight \/ \E m \in mail' : m.req = f.req
  PROVE  SeenInv'
  BY DEF SeenInv, SeenOnlyAfterReply

THEOREM StepSeen == TypeOK /\ SeenInv /\ [Next]_vars => SeenInv'
  <1> SUFFICES ASSUME TypeOK, SeenInv, [Next]_vars PROVE SeenInv'
    OBVIOUS
  <1>1. ASSUME NEW h, NEW op, NEW r, NEW u, NEW a, Enter(h, op, r, u, a),
               UNCHANGED <<mail, seen>>
        PROVE  SeenInv'
    BY <1>1, SeenStep DEF Enter
  <1>2. ASSUME NEW h \in Handlers, NEW u \in Users, BeginClear(h, u)
        PROVE  SeenInv'
    BY <1>2, SeenStep DEF BeginClear
  <1>3. ASSUME NEW s \in Sweeps, SweepLoad(s)
        PROVE  SeenInv'
    BY <1>3, SeenStep DEF SweepLoad
  <1>4. ASSUME NEW f \in flight, SweepNext(f)
        PROVE  SeenInv'
    <2>1. \A g \in flight' : g \in flight \/ g.pc = "loaded"
      BY <1>4, FlightType DEF SweepNext, Return, Advance, Flight
    <2> QED
      BY <1>4, <2>1, SeenStep DEF SweepNext
  <1>5. ASSUME NEW f \in flight, GmailAccepts(f)
        PROVE  SeenInv'
    <2>1. \E m \in mail' : m.req = f.req
      <3> DEFINE m == [req |-> f.req, kind |-> Kind(f), body |-> f.args.body,
                       by |-> f.user]
      <3>1. m \in mail' /\ m.req = f.req
        BY <1>5 DEF GmailAccepts, Deliver
      <3> QED
        BY <3>1
    <2>2. \A g \in flight' : g \in flight \/ g.req = f.req
      BY <1>5, FlightType DEF GmailAccepts, Advance, Flight
    <2> QED
      BY <1>5, <2>1, <2>2, SeenStep DEF GmailAccepts, Deliver
  <1>6. ASSUME NEW f \in flight, GmailRefuses(f) \/ GmailAnswerLost(f)
        PROVE  SeenInv'
    BY <1>6, SeenStep DEF GmailRefuses, GmailAnswerLost, Return, Deliver
  <1>7. ASSUME NEW f \in flight, CommitResolve(f)
        PROVE  SeenInv'
    BY <1>7 DEF CommitResolve, Return, SeenInv, SeenOnlyAfterReply
  <1>8. ASSUME UNCHANGED <<mail, seen>>, flight' \subseteq flight
        PROVE  SeenInv'
    BY <1>8, SeenStep
  <1>9. \/ UNCHANGED <<mail, seen>> /\ flight' \subseteq flight
        \/ UNCHANGED <<mail, seen>> /\ \E h, op, r, u, a : Enter(h, op, r, u, a)
        \/ \E h \in Handlers, u \in Users : BeginClear(h, u)
        \/ \E s \in Sweeps : SweepLoad(s)
        \/ \E f \in flight : \/ SweepNext(f) \/ GmailAccepts(f) \/ GmailRefuses(f)
                             \/ GmailAnswerLost(f) \/ CommitResolve(f)
    <2>1. ASSUME \E r \in Requests, b \in Bodies \cup {NoDraft} : Propose(r, b)
          PROVE  UNCHANGED <<mail, seen>> /\ flight' \subseteq flight
      BY <2>1 DEF Propose
    <2>2. ASSUME NEW h \in Handlers, NEW r \in Requests, NEW u \in Users,
                 \/ \E op \in Resolutions : BeginResolve(h, op, r, u)
                 \/ \E t \in 1..MaxTime : BeginSchedule(h, r, u, t)
                 \/ \E op \in Executions : BeginExecute(h, op, r, u)
          PROVE  UNCHANGED <<mail, seen>> /\ \E k, op, q, v, a : Enter(k, op, q, v, a)
      BY <2>2 DEF BeginResolve, BeginSchedule, BeginExecute
    <2>3. ASSUME NEW h \in Handlers, NEW r \in Requests, NEW b \in Bodies,
                 BeginEdit(h, r, b)
          PROVE  UNCHANGED <<mail, seen>> /\ \E k, op, q, v, a : Enter(k, op, q, v, a)
      BY <2>3 DEF BeginEdit
    <2>4. ASSUME \/ \E h \in Handlers : CommitClear(h)
                 \/ \E f \in flight : CommitArguments(f)
                 \/ \E h \in Handlers \cup Sweeps : Abort(h)
                 \/ Tick
                 \/ UNCHANGED vars
          PROVE  UNCHANGED <<mail, seen>> /\ flight' \subseteq flight
      BY <2>4 DEF CommitClear, CommitArguments, Return, Abort, Tick, vars
    <2> QED
      BY <2>1, <2>2, <2>3, <2>4, NextCases
  <1> QED
    BY <1>1, <1>2, <1>3, <1>4, <1>5, <1>6, <1>7, <1>8, <1>9

\* processed_messages holds a replied-to source only if a reply left.
THEOREM SeenWereReplied == Spec => []SeenOnlyAfterReply
  <1>1. Init => SeenInv
    BY DEF Init, SeenInv, SeenOnlyAfterReply
  <1>2. Spec => []SeenInv
    BY <1>1, StepSeen, TypeCorrect, PTL DEF Spec
  <1>3. SeenInv => SeenOnlyAfterReply
    BY DEF SeenInv
  <1> QED
    BY <1>2, <1>3, PTL

-----------------------------------------------------------------------------
(* Without overlap the documented lifecycle holds: one handler or sweep at   *)
(* a time, with any failures, implements ApprovalLifecycle.  What is written *)
(* by a sweep is the user the arguments name, so who scheduled must be known *)
(* to be a reviewer.                                                         *)

ByReviewer(a) == a.at # None => a.by \in Users

ScheduleInv ==
  /\ \A r \in Requests : /\ ByReviewer(row[r].args)
                         /\ row[r].status = "absent" => row[r].reviewer = None
  /\ \A f \in flight : f.op \in {"edit", "schedule"} => ByReviewer(f.args)
  /\ \A f \in flight : f.op # "edit" => f.user \in Users

SerialInv ==
  ~overlapped =>
    /\ \A f \in flight : Pending(f.req)
    /\ \A f, g \in flight : f = g \/ (f.id = g.id /\ f.req # g.req)
    /\ \A f, g \in flight :
         f # g => \/ f.op = "clear" /\ g.op = "clear" /\ f.user = g.user
                  \/ f.op = "sweep" /\ g.op = "sweep"

\* A handler that starts alone finds nobody at work.
LEMMA StartsAlone ==
  ASSUME Observe, ~overlapped', NEW f \in flight', ~Busy(f.id)
  PROVE  flight = {}
  BY DEF Observe

LEMMA NotOverlapped ==
  ASSUME [Next]_vars, ~overlapped'
  PROVE  ~overlapped
  BY DEF Next, Observe, vars

\* Steps that keep the status of the rows handlers work on, and start none.
LEMMA SerialKeep ==
  ASSUME [Next]_vars, SerialInv, flight' \subseteq flight,
         \A f \in flight' : row'[f.req].status = row[f.req].status
  PROVE  SerialInv'
  BY NotOverlapped DEF SerialInv, Pending

\* A handler or sweep item moves on, and keeps who and what it is.
LEMMA SerialAdvance ==
  ASSUME TypeOK, SerialInv, [Next]_vars, NEW f \in flight,
         NEW pc \in {"queued", "loaded", "accepted"}, Advance(f, pc), UNCHANGED row
  PROVE  SerialInv'
  <1> DEFINE g == [f EXCEPT !.pc = pc]
  <1>1. /\ flight' = (flight \ {f}) \cup {g}
        /\ g.id = f.id /\ g.op = f.op /\ g.req = f.req /\ g.user = f.user
    BY FlightType DEF Flight, Advance
  <1> HIDE DEF g
  <1> QED
    BY <1>1, NotOverlapped DEF SerialInv, Pending

LEMMA SerialEnter ==
  ASSUME SerialInv, Observe, NEW h, NEW op, NEW r \in Requests, NEW u, NEW a,
         Enter(h, op, r, u, a), UNCHANGED row
  PROVE  SerialInv'
  <1> SUFFICES ASSUME ~overlapped' PROVE SerialInv'
    BY DEF SerialInv
  <1> DEFINE g == [id |-> h, op |-> op, req |-> r, user |-> u, args |-> a, pc |-> "loaded"]
  <1>1. g \in flight' /\ g.id = h /\ g.req = r /\ flight' = flight \cup {g}
    BY DEF Enter
  <1> HIDE DEF g
  <1>2. flight = {}
    BY <1>1, StartsAlone DEF Enter
  <1> QED
    BY <1>1, <1>2 DEF Enter, SerialInv, Pending

THEOREM StepSchedule == TypeOK /\ ScheduleInv /\ [Next]_vars => ScheduleInv'
  <1> SUFFICES ASSUME TypeOK, ScheduleInv, [Next]_vars PROVE ScheduleInv'
    OBVIOUS
  <1>0. ASSUME UNCHANGED row,
               \A f \in flight' : \/ f \in flight
                                  \/ /\ f.op \in {"edit", "schedule"} => ByReviewer(f.args)
                                     /\ f.op # "edit" => f.user \in Users
        PROVE  ScheduleInv'
    BY <1>0 DEF ScheduleInv
  <1>1. ASSUME NEW r \in Requests, NEW b \in Bodies \cup {NoDraft}, Propose(r, b)
        PROVE  ScheduleInv'
    <2>1. row'[r].args = Unscheduled(b) /\ row'[r].status = "pending"
      BY <1>1 DEF Propose, TypeOK
    <2>2. \A q \in Requests : q # r => row'[q] = row[q]
      BY <1>1 DEF Propose, TypeOK
    <2> QED
      BY <1>1, <2>1, <2>2 DEF Propose, ScheduleInv, ByReviewer, Unscheduled
  <1>2. ASSUME NEW h \in Handlers, NEW r \in Requests, NEW u \in Users,
               \/ \E op \in Resolutions : BeginResolve(h, op, r, u)
               \/ \E op \in Executions : BeginExecute(h, op, r, u)
        PROVE  ScheduleInv'
    BY <1>0, <1>2 DEF BeginResolve, BeginExecute, Enter, Resolutions, Executions
  <1>3. ASSUME NEW h \in Handlers, NEW r \in Requests, NEW b \in Bodies, BeginEdit(h, r, b)
        PROVE  ScheduleInv'
    BY <1>0, <1>3 DEF BeginEdit, Enter, ByReviewer, Unscheduled
  <1>4. ASSUME NEW h \in Handlers, NEW r \in Requests, NEW u \in Users,
               NEW t \in 1..MaxTime, BeginSchedule(h, r, u, t)
        PROVE  ScheduleInv'
    <2> DEFINE a == [row[r].args EXCEPT !.at = t, !.by = u]
    <2>1. ByReviewer(a)
      BY RowType DEF Arguments, ByReviewer
    <2>2. UNCHANGED row /\ Enter(h, "schedule", r, u, a)
      BY <1>4 DEF BeginSchedule
    <2> HIDE DEF a
    <2> QED
      BY <1>0, <2>1, <2>2 DEF Enter
  <1>5. ASSUME NEW h \in Handlers, NEW u \in Users, BeginClear(h, u)
        PROVE  ScheduleInv'
    BY <1>0, <1>5 DEF BeginClear
  <1>6. ASSUME NEW s \in Sweeps, SweepLoad(s)
        PROVE  ScheduleInv'
    BY <1>0, <1>6 DEF SweepLoad, Due, ScheduleInv, ByReviewer
  <1>7. ASSUME UNCHANGED row, flight' \subseteq flight
        PROVE  ScheduleInv'
    BY <1>0, <1>7
  <1>8. ASSUME NEW f \in flight, NEW pc \in {"queued", "loaded", "accepted"},
               Advance(f, pc), UNCHANGED row
        PROVE  ScheduleInv'
    <2> DEFINE g == [f EXCEPT !.pc = pc]
    <2>1. /\ flight' = (flight \ {f}) \cup {g}
          /\ g.op = f.op /\ g.user = f.user /\ g.args = f.args
      BY <1>8, FlightType DEF Flight, Advance
    <2> HIDE DEF g
    <2> QED
      BY <1>8, <2>1 DEF ScheduleInv
  <1>9. ASSUME NEW f \in flight, SweepNext(f)
        PROVE  ScheduleInv'
    BY <1>7, <1>8, <1>9 DEF SweepNext, Return
  <1>10. ASSUME NEW f \in flight, GmailAccepts(f)
         PROVE  ScheduleInv'
    BY <1>8, <1>10 DEF GmailAccepts
  <1>11. ASSUME NEW f \in flight, CommitResolve(f)
         PROVE  ScheduleInv'
    <2>1. Outcome(f) # "absent"
      BY DEF Outcome
    <2>2. \A r \in Requests : /\ row'[r].args = row[r].args
                              /\ row'[r] = row[r] \/ row'[r].status # "absent"
      BY <1>11, <2>1, FlightType, RowType DEF CommitResolve, TypeOK, Row
    <2> QED
      BY <1>11, <2>2 DEF CommitResolve, Return, ScheduleInv
  <1>12. ASSUME NEW f \in flight, CommitArguments(f)
         PROVE  ScheduleInv'
    <2>1. \A r \in Requests : /\ row'[r].args = (IF r = f.req THEN f.args ELSE row[r].args)
                              /\ row'[r].status = row[r].status
                              /\ row'[r].reviewer = row[r].reviewer
      BY <1>12, FlightType, RowType DEF CommitArguments, TypeOK, Row
    <2>2. ByReviewer(f.args) /\ flight' \subseteq flight
      BY <1>12 DEF CommitArguments, Return, ScheduleInv
    <2> QED
      BY <2>1, <2>2 DEF ScheduleInv
  <1>13. ASSUME NEW h \in Handlers, CommitClear(h)
         PROVE  ScheduleInv'
    <2>1. \A r \in Requests : /\ row'[r].args = row[r].args
                              /\ row'[r] = row[r] \/ row'[r].status = "rejected"
      BY <1>13, RowType DEF CommitClear, Row
    <2>2. flight' \subseteq flight
      BY <1>13 DEF CommitClear
    <2> QED
      BY <2>1, <2>2 DEF ScheduleInv
  <1>14. ASSUME \/ \E f \in flight : GmailRefuses(f) \/ GmailAnswerLost(f)
                \/ \E h \in Handlers \cup Sweeps : Abort(h)
                \/ Tick
                \/ UNCHANGED vars
         PROVE  ScheduleInv'
    BY <1>7, <1>14 DEF GmailRefuses, GmailAnswerLost, Abort, Tick, Return, vars
  <1> QED
    BY <1>1, <1>2, <1>3, <1>4, <1>5, <1>6, <1>9, <1>10, <1>11, <1>12, <1>13, <1>14,
       NextCases

THEOREM StepSerial == TypeOK /\ SerialInv /\ [Next]_vars => SerialInv'
  <1> SUFFICES ASSUME TypeOK, SerialInv, [Next]_vars, Next \/ UNCHANGED vars PROVE SerialInv'
    OBVIOUS
  <1>1. ASSUME NEW r \in Requests, NEW b \in Bodies \cup {NoDraft}, Propose(r, b)
        PROVE  SerialInv'
    <2>1. \A q \in Requests : q # r => row'[q] = row[q]
      BY <1>1 DEF Propose, TypeOK
    <2>2. ~overlapped => \A f \in flight : f.req # r
      BY <1>1 DEF Propose, SerialInv, Pending
    <2>3. UNCHANGED flight
      BY <1>1 DEF Propose
    <2> QED
      BY <2>1, <2>2, <2>3, NotOverlapped, FlightType DEF SerialInv, Pending
  <1>2. ASSUME NEW h \in Handlers, NEW r \in Requests, NEW u \in Users, Next,
               \/ \E op \in Resolutions : BeginResolve(h, op, r, u)
               \/ \E t \in 1..MaxTime : BeginSchedule(h, r, u, t)
               \/ \E op \in Executions : BeginExecute(h, op, r, u)
        PROVE  SerialInv'
    BY <1>2, SerialEnter DEF Next, BeginResolve, BeginSchedule, BeginExecute
  <1>3. ASSUME NEW h \in Handlers, NEW r \in Requests, NEW b \in Bodies, Next,
               BeginEdit(h, r, b)
        PROVE  SerialInv'
    BY <1>3, SerialEnter DEF Next, BeginEdit
  <1>4. ASSUME NEW h \in Handlers, NEW u \in Users, Next, BeginClear(h, u)
        PROVE  SerialInv'
    <2> SUFFICES ASSUME ~overlapped' PROVE SerialInv'
      BY DEF SerialInv
    <2> DEFINE Item(r) == [id |-> h, op |-> "clear", req |-> r, user |-> u,
                           args |-> row[r].args, pc |-> "loaded"]
    <2>1. \A f \in flight' : f \in flight \/ \E r \in Requests : Pending(r) /\ f = Item(r)
      BY <1>4 DEF BeginClear
    <2>2. PICK r \in Requests : Item(r) \in flight'
      BY <1>4 DEF BeginClear
    <2>3. flight = {}
      BY <1>4, <2>2, StartsAlone DEF BeginClear, Next
    <2> QED
      BY <1>4, <2>1, <2>3 DEF BeginClear, SerialInv, Pending
  <1>5. ASSUME NEW s \in Sweeps, Next, SweepLoad(s)
        PROVE  SerialInv'
    <2> SUFFICES ASSUME ~overlapped' PROVE SerialInv'
      BY DEF SerialInv
    <2> DEFINE Item(r) == [id |-> s, op |-> "sweep", req |-> r, user |-> row[r].args.by,
                           args |-> row[r].args, pc |-> "queued"]
    <2>1. \A f \in flight' : f \in flight \/ \E r \in Requests : Due(r) /\ f = Item(r)
      BY <1>5 DEF SweepLoad
    <2>2. PICK r \in Requests : Item(r) \in flight'
      BY <1>5 DEF SweepLoad
    <2>3. flight = {}
      BY <1>5, <2>2, StartsAlone DEF SweepLoad, Next
    <2> QED
      BY <1>5, <2>1, <2>3 DEF SweepLoad, SerialInv, Due, Pending
  <1>6. ASSUME NEW h \in Handlers, CommitClear(h)
        PROVE  SerialInv'
    <2> SUFFICES ASSUME ~overlapped' PROVE SerialInv'
      BY DEF SerialInv
    <2>1. flight' = {}
      BY <1>6, NotOverlapped DEF CommitClear, Of, SerialInv
    <2> QED
      BY <2>1 DEF SerialInv
  <1>7. ASSUME NEW f \in flight, CommitResolve(f)
        PROVE  SerialInv'
    <2> SUFFICES ASSUME ~overlapped' PROVE SerialInv'
      BY DEF SerialInv
    <2>1. \A g \in flight' : g \in flight /\ g.req # f.req
      BY <1>7, NotOverlapped DEF CommitResolve, Return, SerialInv
    <2>2. \A r \in Requests : r # f.req => row'[r] = row[r]
      BY <1>7 DEF CommitResolve, TypeOK
    <2> QED
      BY <2>1, <2>2, SerialKeep, FlightType
  <1>8. ASSUME NEW f \in flight, CommitArguments(f)
        PROVE  SerialInv'
    <2>1. \A r \in Requests : row'[r].status = row[r].status
      BY <1>8, FlightType, RowType DEF CommitArguments, TypeOK, Row
    <2>2. flight' \subseteq flight
      BY <1>8 DEF CommitArguments, Return
    <2> QED
      BY <2>1, <2>2, SerialKeep, FlightType
  <1>9. ASSUME UNCHANGED row, flight' \subseteq flight
        PROVE  SerialInv'
    BY <1>9, SerialKeep
  <1>10. ASSUME NEW f \in flight, SweepNext(f)
         PROVE  SerialInv'
    BY <1>9, <1>10, SerialAdvance DEF SweepNext, Return
  <1>11. ASSUME NEW f \in flight, GmailAccepts(f)
         PROVE  SerialInv'
    BY <1>11, SerialAdvance DEF GmailAccepts
  <1>12. ASSUME NEW f \in flight, GmailRefuses(f) \/ GmailAnswerLost(f)
         PROVE  SerialInv'
    BY <1>9, <1>12 DEF GmailRefuses, GmailAnswerLost, Return
  <1>13. ASSUME NEW h \in Handlers \cup Sweeps, Abort(h)
         PROVE  SerialInv'
    BY <1>9, <1>13 DEF Abort
  <1>14. CASE Tick \/ UNCHANGED vars
    BY <1>9, <1>14 DEF Tick, vars
  <1> QED
    BY <1>1, <1>2, <1>3, <1>4, <1>5, <1>6, <1>7, <1>8, <1>10, <1>11, <1>12, <1>13,
       <1>14, NextCases

LEMMA InitSerial == Init => SerialInv /\ ScheduleInv
  BY DEF Init, SerialInv, ScheduleInv, ByReviewer, Unscheduled

\* Until two handlers or sweeps overlap a request is resolved exactly once, by
\* one reviewer: the gap between reading and writing is the only reason the
\* documented lifecycle can fail.
THEOREM SerialResolvedOnce == Spec => ResolvedOnce
  <1> DEFINE Promise == overlapped \/ [Lifecycle!Next]_(Lifecycle!vars)
  <1>1. Init => Lifecycle!Init
    BY DEF Init, Lifecycle!Init
  <1>2. TypeOK /\ SerialInv /\ ScheduleInv /\ [Next]_vars => Promise
    <2> SUFFICES ASSUME TypeOK, SerialInv, ScheduleInv, [Next]_vars, ~overlapped
                 PROVE  [Lifecycle!Next]_(Lifecycle!vars)
      OBVIOUS
    <2>1. ASSUME \A r \in Requests : /\ row'[r].status = row[r].status
                                     /\ row'[r].reviewer = row[r].reviewer
          PROVE  UNCHANGED Lifecycle!vars
      BY <2>1 DEF Lifecycle!vars
    <2>2. ASSUME NEW r \in Requests, NEW b \in Bodies \cup {NoDraft}, Propose(r, b)
          PROVE  [Lifecycle!Next]_(Lifecycle!vars)
      <3>1. /\ \A q \in Requests : q # r => row'[q] = row[q]
            /\ row'[r].status = "pending" /\ row'[r].reviewer = None
            /\ row[r].status = "absent"
        BY <2>2 DEF Propose, TypeOK
      <3>2. row[r].reviewer = None
        BY <3>1 DEF ScheduleInv
      <3>3. \A q \in Requests :
              /\ row'[q].status = IF q = r THEN "pending" ELSE row[q].status
              /\ row'[q].reviewer = row[q].reviewer
        BY <3>1, <3>2
      <3>4. Lifecycle!Propose(r)
        BY <3>1, <3>3 DEF Lifecycle!Propose
      <3> QED
        BY <3>4 DEF Lifecycle!Next
    <2>3. ASSUME NEW h \in Handlers, CommitClear(h)
          PROVE  [Lifecycle!Next]_(Lifecycle!vars)
      <3> DEFINE R == {f.req : f \in Of(h)}
      <3>1. PICK f \in flight : f.id = h /\ f.op = "clear"
        BY <2>3 DEF CommitClear, Of
      <3>2. f.user \in Users /\ \A g \in flight : g.user = f.user /\ Pending(g.req)
        BY <3>1 DEF SerialInv, ScheduleInv
      <3>3. R \in SUBSET Requests /\ \A r \in R : row[r].status = "pending"
        BY <3>2, FlightType DEF Of, Pending
      <3>4. \A r \in Requests : row'[r] =
              IF r \in R THEN [row[r] EXCEPT !.status = "rejected", !.reviewer = f.user]
              ELSE row[r]
        <4>1. ASSUME NEW r \in Requests, r \in R
              PROVE  row'[r] = [row[r] EXCEPT !.status = "rejected", !.reviewer = f.user]
          <5>1. \E g \in Of(h) : g.req = r
            BY <4>1
          <5>2. (CHOOSE g \in Of(h) : g.req = r).user = f.user
            BY <3>2, <5>1, ClearUserType
          <5> QED
            BY <2>3, <5>1, <5>2 DEF CommitClear
        <4>2. ASSUME NEW r \in Requests, r \notin R
              PROVE  row'[r] = row[r]
          <5>1. ~ \E g \in Of(h) : g.req = r
            BY <4>2
          <5> QED
            BY <2>3, <5>1 DEF CommitClear
        <4> QED
          BY <4>1, <4>2
      <3>5. Lifecycle!Resolve(R, "rejected", f.user)
        BY <3>3, <3>4, RowType DEF Lifecycle!Resolve, Row
      <3> HIDE DEF R
      <3> QED
        BY <3>2, <3>3, <3>5 DEF Lifecycle!Next
    <2>4. ASSUME NEW f \in flight, CommitResolve(f)
          PROVE  [Lifecycle!Next]_(Lifecycle!vars)
      <3>1. f.user \in Users /\ row[f.req].status = "pending"
        BY <2>4 DEF SerialInv, ScheduleInv, Pending, CommitResolve, Resolves, Resolutions,
                    Executions
      <3>2. Outcome(f) \in {"approved", "rejected"}
        BY DEF Outcome
      <3>3. \A r \in Requests : row'[r] =
              IF r = f.req THEN [row[r] EXCEPT !.status = Outcome(f), !.reviewer = f.user]
              ELSE row[r]
        BY <2>4, FlightType DEF CommitResolve, TypeOK
      <3>4. Lifecycle!Resolve({f.req}, Outcome(f), f.user)
        BY <3>1, <3>3, FlightType, RowType DEF Lifecycle!Resolve, Row
      <3> QED
        BY <3>1, <3>2, <3>4, FlightType DEF Lifecycle!Next
    <2>5. ASSUME NEW f \in flight, CommitArguments(f)
          PROVE  [Lifecycle!Next]_(Lifecycle!vars)
      <3>1. \A r \in Requests : row'[r].status = row[r].status
                               /\ row'[r].reviewer = row[r].reviewer
        BY <2>5, FlightType, RowType DEF CommitArguments, TypeOK, Row
      <3> QED
        BY <2>1, <3>1
    <2>6. CASE UNCHANGED row
      BY <2>1, <2>6
    <2>7. \/ UNCHANGED row
          \/ \E r \in Requests, b \in Bodies \cup {NoDraft} : Propose(r, b)
          \/ \E h \in Handlers : CommitClear(h)
          \/ \E f \in flight : CommitResolve(f) \/ CommitArguments(f)
      BY NextCases
         DEF vars, BeginResolve, BeginEdit, BeginSchedule, BeginExecute, BeginClear,
             SweepLoad, SweepNext, GmailAccepts, GmailRefuses, GmailAnswerLost, Abort, Tick
    <2> QED
      BY <2>2, <2>3, <2>4, <2>5, <2>6, <2>7
  <1>3. Promise => [overlapped \/ Lifecycle!Next]_(Lifecycle!vars)
    OBVIOUS
  <1> HIDE DEF Promise
  <1> QED
    BY <1>1, <1>2, <1>3, InitSerial, StepSerial, StepSchedule, TypeCorrect, PTL
       DEF Spec, ResolvedOnce

\* Until two handlers or sweeps overlap no reply is mailed for a request that
\* is resolved already.
THEOREM SerialMailIsTimely == Spec => NoMailUnlessOverlapped
  <1> DEFINE Timely == \A r \in Requests :
                         row[r].status \in Terminal /\ MailLeaves(r) => overlapped
  <1>1. TypeOK /\ SerialInv /\ [Next]_vars => Timely
    <2> SUFFICES ASSUME TypeOK, SerialInv, [Next]_vars, NEW r \in Requests,
                        row[r].status \in Terminal, MailLeaves(r), ~overlapped
                 PROVE  FALSE
      OBVIOUS
    <2>1. PICK f \in flight : Deliver(f)
      BY NextCases
         DEF vars, Propose, BeginResolve, BeginEdit, BeginSchedule, BeginExecute, BeginClear,
             SweepLoad, SweepNext, GmailAccepts, GmailRefuses, GmailAnswerLost, Abort, Tick,
             CommitClear, CommitResolve, CommitArguments, MailLeaves
    <2>2. Pending(f.req) /\ f.req # r
      BY DEF SerialInv, Pending, Terminal
    <2>3. sends'[r] = sends[r]
      BY <2>1, <2>2, FlightType DEF Deliver, TypeOK
    <2>4. {m \in mail' : m.req = r} = {m \in mail : m.req = r}
      BY <2>1, <2>2 DEF Deliver
    <2> QED
      BY <2>3, <2>4 DEF MailLeaves
  <1>2. Timely => \A r \in Requests :
                    row[r].status \in Terminal /\ MailLeaves(r) => overlapped
    OBVIOUS
  <1> QED
    BY <1>1, <1>2, InitSerial, StepSerial, TypeCorrect, PTL DEF Spec, NoMailUnlessOverlapped
=============================================================================
