---------------------------- MODULE VoiceSession ----------------------------
(***************************************************************************)
(* A voice session over one WebSocket: the gateway between the browser and *)
(* the speech model, and the router that carries out what it hears.        *)
(*                                                                         *)
(* The router works on positions in the queue of pending replies, newest   *)
(* first.  Edits and schedules may be spoken across turns: what was said   *)
(* first is kept as a position, and resolved when the rest arrives.        *)
(* Between the steps of a turn other reviewers, the agents and the crons   *)
(* change the queue.  The session belongs to a reviewer who may resolve.   *)
(***************************************************************************)
EXTENDS Naturals, FiniteSets

CONSTANTS
  MaxReplies,   \* bound on the replies proposed
  Phrases,      \* what a field may say
  Fields,       \* "body", and fields of a reply beside it
  MaxReconnects,\* _MAX_RECONNECT_ATTEMPTS
  None

ASSUME ConstantsAssumption ==
  /\ MaxReplies \in Nat \ {0}
  /\ MaxReconnects \in Nat
  /\ "body" \in Fields
  /\ None \notin Phrases \cup Fields

Replies == 1..MaxReplies          \* numbered as they were created
Positions == 0..MaxReplies        \* 0: none was spoken

VARIABLES
  status,       \* status[r]: of the approval request
  text,         \* text[r][f]: its fields
  scheduled,    \* replies with a scheduled_send_at
  phase,        \* of the endpoint
  conn,         \* the connection to the model
  attempts,     \* stream failures so far
  lastEdit,     \* _last_edit_target, a position
  replacing,    \* _pending_replace
  scheduling,   \* _pending_schedule
  turn,         \* the user turn being carried out
  aim,          \* history: the reply at a remembered position, 0 once the queue changes
  heard,        \* history: the reply last read out as the p-th, 0 once the queue changes
  said          \* history: the parts of the schedule and of the edit under way

replies == <<status, text, scheduled>>
session == <<phase, conn, attempts>>
memory == <<lastEdit, replacing, scheduling>>
history == <<aim, heard, said>>
vars == <<replies, session, memory, turn, history>>

Targets == {"edit", "replace", "schedule"}
\* "resolve": approve and save to drafts, approve and send, or reject.
Actions == {"resolve", "schedule", "reschedule", "regenerate"}
EditKinds == {"replace", "set", "continue"}

LastEdit == [pos : Positions, field : Fields \cup {None}]
Replacing == [pos : Positions, field : Fields \cup {None}, search : Phrases \cup {None}]
Scheduling == [pos : Positions, date : BOOLEAN, time : BOOLEAN]
Turn == [pc : {"idle", "resolved", "read"},
         kind : Actions \cup EditKinds \cup {"complete", None},
         from : Targets \cup {"spoken"}, id : 0..MaxReplies,
         pos : Positions, field : Fields \cup {None},
         search : Phrases \cup {None}, repl : Phrases \cup {None}]

NoEdit == [pos |-> 0, field |-> None]
NoReplacing == [pos |-> 0, field |-> None, search |-> None]
NoScheduling == [pos |-> 0, date |-> FALSE, time |-> FALSE]
Idle == [pc |-> "idle", kind |-> None, from |-> "spoken", id |-> 0, pos |-> 0,
         field |-> None, search |-> None, repl |-> None]

TypeOK ==
  /\ status \in [Replies -> {"none", "pending", "resolved"}]
  /\ text \in [Replies -> [Fields -> Phrases \cup {None}]]
  /\ scheduled \subseteq Replies
  /\ phase \in {"starting", "greeting", "running", "stopping", "ended"}
  /\ conn \in {"closed", "open", "backoff"}
  /\ attempts \in 0..MaxReconnects + 1
  /\ lastEdit \in LastEdit
  /\ replacing \in Replacing
  /\ scheduling \in Scheduling
  /\ turn \in Turn
  /\ aim \in [Targets -> 0..MaxReplies]
  /\ heard \in [Positions -> 0..MaxReplies]
  /\ said \subseteq {"date", "time", "search"}

Init ==
  /\ status = [r \in Replies |-> "none"]
  /\ text = [r \in Replies |-> [f \in Fields |-> None]]
  /\ scheduled = {}
  /\ phase = "starting"
  /\ conn = "closed"
  /\ attempts = 0
  /\ lastEdit = NoEdit
  /\ replacing = NoReplacing
  /\ scheduling = NoScheduling
  /\ turn = Idle
  /\ aim = [t \in Targets |-> 0]
  /\ heard = [p \in Positions |-> 0]
  /\ said = {}

Pending == {r \in Replies : status[r] = "pending"}

\* _refresh_pending_cache: the ids of the pending replies, the newest first.
AtOldestFirst(p, r) == r \in Pending /\ Cardinality({q \in Pending : q <= r}) = p

At(p, r) == r \in Pending /\ Cardinality({q \in Pending : q >= r}) = p

InRange(p) == p \in 1..Cardinality(Pending)
ReplyAt(p) == IF \E r \in Pending : At(p, r) THEN CHOOSE r \in Pending : At(p, r) ELSE 0

\* The queue changes under every remembered position.
Moves == aim' = [t \in Targets |-> 0] /\ heard' = [p \in Positions |-> 0]
Remember(t, p) == aim' = [aim EXCEPT ![t] = ReplyAt(p)]

Listening == phase = "running" /\ conn = "open" /\ turn.pc = "idle"

Default(p) == IF p = 0 THEN 1 ELSE p
FieldOr(f) == IF f # None THEN f ELSE IF lastEdit.pos # 0 THEN lastEdit.field ELSE "body"

-----------------------------------------------------------------------------
(* The connection *)

\* start: the agent is built and connected; a failure closes the socket.
Start(ok) ==
  /\ phase = "starting"
  /\ IF ok THEN phase' = "greeting" /\ conn' = "open"
           ELSE phase' = "ended" /\ UNCHANGED conn
  /\ UNCHANGED <<replies, attempts, memory, turn, history>>

\* send_welcome, best effort, before the two pumps begin.
Welcome ==
  /\ phase = "greeting"
  /\ phase' = "running"
  /\ UNCHANGED <<replies, conn, attempts, memory, turn, history>>

\* receive raises between two turns: the connection is torn down and, as long
\* as there are attempts left, rebuilt after a pause.
StreamFails ==
  /\ Listening
  /\ attempts' = attempts + 1
  /\ IF attempts < MaxReconnects THEN conn' = "backoff" /\ phase' = phase
                                 ELSE phase' = "stopping" /\ conn' = conn
  /\ UNCHANGED <<replies, memory, turn, history>>

\* _reconnect, after the pause.
Reconnect(ok) ==
  /\ phase = "running"
  /\ conn = "backoff"
  /\ IF ok THEN conn' = "open" /\ phase' = phase
           ELSE phase' = "stopping" /\ conn' = "closed"
  /\ UNCHANGED <<replies, attempts, memory, turn, history>>

\* The model ends the conversation.
StreamEnds ==
  /\ Listening
  /\ phase' = "stopping"
  /\ UNCHANGED <<replies, conn, attempts, memory, turn, history>>

\* The scope of both pumps is cancelled, a turn under way ends at its await.
CancelPumps == phase' = "stopping" /\ turn' = Idle

\* The client stops or disconnects.
ClientLeaves ==
  /\ phase = "running"
  /\ CancelPumps
  /\ UNCHANGED <<replies, conn, attempts, memory, history>>

\* Audio from the microphone while there is no connection: send_audio raises,
\* which ends the client's pump.
AudioUnsent ==
  /\ phase = "running"
  /\ conn = "backoff"
  /\ CancelPumps
  /\ UNCHANGED <<replies, conn, attempts, memory, history>>

\* stop, whose errors are swallowed.
Stop ==
  /\ phase = "stopping"
  /\ phase' = "ended"
  /\ conn' = "closed"
  /\ UNCHANGED <<replies, attempts, memory, turn, history>>

-----------------------------------------------------------------------------
(* What is kept between turns *)

\* edit_position, focus_field_position: the editor opens, no approval is read.
OpenEditor(pos, f) ==
  LET p == Default(pos) IN
  /\ Listening
  /\ InRange(p)
  /\ lastEdit' = [pos |-> p, field |-> f]
  /\ Remember("edit", p)
  /\ UNCHANGED <<replies, session, replacing, scheduling, turn, said, heard>>

\* edit_search_pending: what is to be replaced, but not yet by what.
NameSearch(pos, f, s) ==
  LET again == pos = 0 /\ lastEdit.pos # 0
      p == IF again THEN lastEdit.pos ELSE Default(pos)
      r == IF again THEN aim["edit"] ELSE ReplyAt(p) IN
  /\ Listening
  /\ replacing' = [pos |-> p, field |-> FieldOr(f), search |-> s]
  /\ lastEdit' = [pos |-> p, field |-> FieldOr(f)]
  /\ aim' = [aim EXCEPT !["replace"] = r, !["edit"] = r]
  /\ said' = said \cup {"search"}
  /\ UNCHANGED <<replies, session, scheduling, turn, heard>>

\* Variant: a date or a time of an earlier attempt stays in the buffer.
OpenSchedulerKeeping(pos) ==
  LET p == Default(pos) IN
  /\ Listening
  /\ InRange(p)
  /\ scheduling' = [scheduling EXCEPT !.pos = p]
  /\ said' = said \ {"date", "time"}
  /\ Remember("schedule", p)
  /\ UNCHANGED <<replies, session, lastEdit, replacing, turn, heard>>

\* approve_schedule_position without a time: the picker opens.
OpenScheduler(pos) ==
  LET p == Default(pos) IN
  /\ Listening
  /\ InRange(p)
  /\ scheduling' = [pos |-> p, date |-> FALSE, time |-> FALSE]
  /\ said' = said \ {"date", "time"}
  /\ Remember("schedule", p)
  /\ UNCHANGED <<replies, session, lastEdit, replacing, turn, heard>>

\* Where "change the time" without a position is taken to point.
RescheduleTarget ==
  IF scheduling.pos # 0 THEN [from |-> "schedule", pos |-> scheduling.pos]
  ELSE IF lastEdit.pos # 0 THEN [from |-> "edit", pos |-> lastEdit.pos]
  ELSE [from |-> "spoken", pos |-> 1]

\* reschedule_position without a time: the picker opens again.
ReopenScheduler ==
  LET t == RescheduleTarget IN
  /\ Listening
  /\ InRange(t.pos)
  /\ scheduling' = [pos |-> t.pos, date |-> FALSE, time |-> FALSE]
  /\ said' = said \ {"date", "time"}
  /\ Remember("schedule", t.pos)
  /\ UNCHANGED <<replies, session, lastEdit, replacing, turn, heard>>

\* cancel, never mind.
Cancel ==
  /\ Listening
  /\ replacing' = NoReplacing
  /\ scheduling' = NoScheduling
  /\ said' = {}
  /\ UNCHANGED <<replies, session, lastEdit, turn, aim, heard>>

-----------------------------------------------------------------------------
(* Turns that act on a reply *)

\* list_pending_approvals: the pending replies are read out, the newest as the first.
Listed(p, r) == r \in Pending /\ Cardinality({q \in Pending : q >= r}) = p
ReadQueue ==
  /\ Listening
  /\ heard' = [p \in Positions |-> IF \E r \in Pending : Listed(p, r)
                                   THEN CHOOSE r \in Pending : Listed(p, r) ELSE 0]
  /\ UNCHANGED <<replies, session, memory, turn, aim, said>>

\* read_position: the reply at a position is read out.
ReadReply(pos) ==
  LET p == Default(pos) IN
  /\ Listening
  /\ InRange(p)
  /\ heard' = [heard EXCEPT ![p] = ReplyAt(p)]
  /\ UNCHANGED <<replies, session, memory, turn, aim, said>>

\* A position is resolved against the queue of the moment.
Resolve(kind, from, p, f, s, w) ==
  /\ InRange(p)
  /\ turn' = [pc |-> "resolved", kind |-> kind, from |-> from, id |-> ReplyAt(p),
              pos |-> p, field |-> f, search |-> s, repl |-> w]

\* An approval, rejection or new version of the reply at a spoken position.
HearAction(kind, pos) ==
  /\ Listening
  /\ Resolve(kind, "spoken", Default(pos), None, None, None)
  /\ UNCHANGED <<replies, session, memory, history>>

\* reschedule_position with a time.
HearReschedule ==
  /\ Listening
  /\ Resolve("reschedule", RescheduleTarget.from, RescheduleTarget.pos, None, None, None)
  /\ UNCHANGED <<replies, session, memory, history>>

\* Variant: without a position the first reply is meant.
HearFieldEditFirst(kind, pos, f, s, w) ==
  LET again == pos = 0 /\ lastEdit.pos # 0  p == Default(pos) IN
  /\ Listening
  /\ Resolve(kind, IF again THEN "edit" ELSE "spoken", p, FieldOr(f), s, w)
  /\ lastEdit' = [pos |-> p, field |-> FieldOr(f)]
  /\ replacing' = NoReplacing
  /\ aim' = IF again THEN aim ELSE [aim EXCEPT !["edit"] = ReplyAt(p)]
  /\ said' = said \ {"search"}
  /\ UNCHANGED <<replies, session, scheduling, heard>>

\* replace_in_field_position and set_field_position: without a position the
\* reply opened last is meant, without a field its field.
HearFieldEdit(kind, pos, f, s, w) ==
  LET again == pos = 0 /\ lastEdit.pos # 0
      p == IF again THEN lastEdit.pos ELSE Default(pos) IN
  /\ Listening
  /\ Resolve(kind, IF again THEN "edit" ELSE "spoken", p, FieldOr(f), s, w)
  /\ lastEdit' = [pos |-> p, field |-> FieldOr(f)]
  /\ replacing' = NoReplacing
  /\ aim' = IF again THEN aim ELSE [aim EXCEPT !["edit"] = ReplyAt(p)]
  /\ said' = said \ {"search"}
  /\ UNCHANGED <<replies, session, scheduling, heard>>

\* A date or a time is heard while a schedule is under way.  When the other
\* part is missing it is asked for, else the buffer is emptied and the position
\* resolved.
HearDateTime(d, t) ==
  LET s == [scheduling EXCEPT !.date = @ \/ d, !.time = @ \/ t] IN
  /\ Listening
  /\ scheduling.pos # 0
  /\ d \/ t
  /\ said' = said \cup (IF d THEN {"date"} ELSE {}) \cup (IF t THEN {"time"} ELSE {})
  /\ IF ~(s.date /\ s.time)
     THEN scheduling' = s /\ turn' = turn
     ELSE /\ scheduling' = NoScheduling
          /\ \/ Resolve("complete", "schedule", s.pos, None, None, None)
             \/ ~InRange(s.pos) /\ turn' = turn
  /\ UNCHANGED <<replies, session, lastEdit, replacing, aim, heard>>

\* The replacement is heard, in words the classifier knows or, when no schedule
\* takes them, in any others; a bare one may also name more of the search.
HearReplacement(s, w) ==
  LET search == IF s # None THEN s ELSE replacing.search IN
  /\ Listening
  /\ replacing.pos # 0
  /\ replacing' = NoReplacing
  /\ \/ Resolve("continue", "replace", replacing.pos, replacing.field, search, w)
     \/ ~InRange(replacing.pos) /\ turn' = turn
  /\ UNCHANGED <<replies, session, lastEdit, scheduling, history>>

-----------------------------------------------------------------------------
(* Tool calls, each in a transaction of its own *)

Finish == turn' = Idle

\* _load_pending_in_workspace, then the service, which may refuse.
Succeeds(ok, r) == ok /\ r \in Pending

\* approve_and_save_draft, approve_and_send, reject_reply.
Resolved(r) == /\ status' = [status EXCEPT ![r] = "resolved"]
               /\ Moves
               /\ UNCHANGED <<text, scheduled>>

\* approve_and_schedule: the reply stays pending.
Scheduled(r) == /\ scheduled' = scheduled \cup {r}
                /\ UNCHANGED <<status, text, aim, heard>>

\* regenerate_reply: a new body, the schedule is dropped with the old arguments.
Regenerated(r) == /\ \E w \in Phrases : text' = [text EXCEPT ![r]["body"] = w]
                  /\ scheduled' = scheduled \ {r}
                  /\ UNCHANGED <<status, aim, heard>>

\* The tool loads the reply and calls the approval service, which may refuse.
\* What it answers is not looked at: completion is reported either way.
Act(ok) ==
  LET r == turn.id  done == Succeeds(ok, r) IN
  /\ turn.pc = "resolved"
  /\ \/ turn.kind = "resolve" /\ done /\ Resolved(r)
     \/ turn.kind \in {"schedule", "reschedule"} /\ done /\ Scheduled(r)
     \/ turn.kind = "regenerate" /\ done /\ Regenerated(r)
     \/ turn.kind \in Actions /\ ~done /\ UNCHANGED <<replies, aim, heard>>
  /\ IF turn.kind = "reschedule"
     THEN scheduling' = NoScheduling /\ said' = said \ {"date", "time"}
     ELSE UNCHANGED <<scheduling, said>>
  /\ Finish
  /\ UNCHANGED <<session, lastEdit, replacing>>

\* A schedule spoken across turns: an error is spoken and nothing reported.
CompleteSchedule(ok) ==
  LET r == turn.id  done == Succeeds(ok, r) IN
  /\ turn.pc = "resolved"
  /\ turn.kind = "complete"
  /\ IF done THEN Scheduled(r) ELSE UNCHANGED <<replies, aim, heard>>
  /\ said' = said \ {"date", "time"}
  /\ Finish
  /\ UNCHANGED <<session, memory>>

\* _read_reply_field, in a session of its own.  A phrase that is not in the
\* field ends the turn.
ReadField ==
  /\ turn.pc = "resolved"
  /\ turn.kind \in EditKinds
  /\ IF turn.kind = "set" \/ text[turn.id][turn.field] = turn.search
     THEN turn' = [turn EXCEPT !.pc = "read"]
     ELSE Finish
  /\ said' = said \ {"search"}
  /\ UNCHANGED <<replies, session, memory, aim, heard>>

\* Variant: the reply was pending when its field was read.
WriteFieldUnchecked(ok) ==
  LET r == turn.id  f == turn.field IN
  /\ turn.pc = "read"
  /\ IF ok
     THEN /\ text' = [text EXCEPT ![r][f] = turn.repl]
          /\ scheduled' = scheduled \ {r}
          /\ lastEdit' = [pos |-> turn.pos, field |-> f]
          /\ aim' = [aim EXCEPT !["edit"] = IF ReplyAt(turn.pos) = r THEN r ELSE 0]
     ELSE UNCHANGED <<text, scheduled, lastEdit, aim>>
  /\ Finish
  /\ UNCHANGED <<status, session, replacing, scheduling, heard, said>>

\* edit_reply: the field is written over what it says by now, the schedule is
\* dropped with the old arguments.  An error is spoken and nothing reported.
WriteField(ok) ==
  LET r == turn.id  f == turn.field  done == Succeeds(ok, r) IN
  /\ turn.pc = "read"
  /\ IF done
     THEN /\ text' = [text EXCEPT ![r][f] = turn.repl]
          /\ scheduled' = scheduled \ {r}
          /\ lastEdit' = [pos |-> turn.pos, field |-> f]
          /\ aim' = [aim EXCEPT !["edit"] = IF ReplyAt(turn.pos) = r THEN r ELSE 0]
     ELSE UNCHANGED <<text, scheduled, lastEdit, aim>>
  /\ Finish
  /\ UNCHANGED <<status, session, replacing, scheduling, heard, said>>

\* clear_all_pending: one tool call rejects what is pending.
ClearAll ==
  /\ Listening
  /\ status' = [r \in Replies |-> IF r \in Pending THEN "resolved" ELSE status[r]]
  /\ Moves
  /\ UNCHANGED <<text, scheduled, session, memory, turn, said>>

-----------------------------------------------------------------------------
(* Others *)

\* An agent proposes the next reply.
Propose(w) ==
  \E r \in Replies :
    /\ status[r] = "none"
    /\ \A q \in 1..(r - 1) : status[q] # "none"
    /\ status' = [status EXCEPT ![r] = "pending"]
    /\ text' = [text EXCEPT ![r] = [f \in Fields |-> w]]
    /\ Moves
    /\ UNCHANGED <<scheduled, session, memory, turn, said>>

\* A reviewer in the browser or the scheduled-send cron resolves a reply.
ResolveElsewhere(r) ==
  /\ r \in Pending
  /\ status' = [status EXCEPT ![r] = "resolved"]
  /\ Moves
  /\ UNCHANGED <<text, scheduled, session, memory, turn, said>>

\* A reviewer in the browser rewrites a field.
EditElsewhere(r, f, w) ==
  /\ r \in Pending
  /\ text' = [text EXCEPT ![r][f] = w]
  /\ scheduled' = scheduled \ {r}
  /\ UNCHANGED <<status, session, memory, turn, history>>

-----------------------------------------------------------------------------
Hear ==
  \/ \E p \in Positions :
       \/ \E f \in Fields : OpenEditor(p, f)
       \/ \E f \in Fields \cup {None}, s \in Phrases : NameSearch(p, f, s)
       \/ OpenScheduler(p)
       \/ ReadReply(p)
       \/ \E k \in Actions \ {"reschedule"} : HearAction(k, p)
       \/ \E f \in Fields \cup {None}, w \in Phrases :
            \/ \E s \in Phrases : HearFieldEdit("replace", p, f, s, w)
            \/ HearFieldEdit("set", p, f, None, w)
  \/ ReadQueue
  \/ ReopenScheduler
  \/ HearReschedule
  \/ Cancel
  \/ ClearAll
  \/ \E d, t \in BOOLEAN : HearDateTime(d, t)
  \/ \E s \in Phrases \cup {None}, w \in Phrases : HearReplacement(s, w)

ToolCall == ReadField \/ \E ok \in BOOLEAN : Act(ok) \/ CompleteSchedule(ok) \/ WriteField(ok)

Connection ==
  \/ \E ok \in BOOLEAN : Start(ok) \/ Reconnect(ok)
  \/ Welcome
  \/ StreamFails
  \/ StreamEnds
  \/ ClientLeaves
  \/ AudioUnsent
  \/ Stop

Others ==
  /\ phase \notin {"stopping", "ended"}
  /\ \/ \E w \in Phrases : Propose(w)
     \/ \E r \in Replies : \/ ResolveElsewhere(r)
                           \/ \E f \in Fields, w \in Phrases : EditElsewhere(r, f, w)

Next == Hear \/ ToolCall \/ Connection \/ Others

Spec == Init /\ [][Next]_vars

-----------------------------------------------------------------------------
(* Correctness *)

\* A turn that names no position acts on the reply that was opened, searched or
\* scheduled by position before, as long as the queue has not changed since
\* (_last_edit_target: "the SAME reply + field the user just opened").
FollowUpStays ==
  turn.pc # "idle" /\ turn.from \in Targets => aim[turn.from] \in {0, turn.id}

\* A spoken position acts on the reply that was read out under that number, as
\* long as the queue has not changed since (_refresh_pending_cache: "a position
\* always maps to the SAME reply the user hears listed").
ActsOnWhatWasHeard ==
  turn.pc # "idle" /\ turn.from = "spoken" => heard[turn.pos] \in {0, turn.id}

\* Nothing buffered is carried out by halves, twice, or after it was cancelled:
\* a schedule has a date and a time spoken since its picker was opened, an edit
\* a search (_accumulate_schedule, _apply_pending_replace).
FragmentsBelongTogether ==
  turn.pc = "resolved" =>
    /\ turn.kind = "complete" => {"date", "time"} \subseteq said
    /\ turn.kind = "continue" => "search" \in said

\* Whatever overlaps, no turn changes a reply that has been resolved
\* (_load_pending_in_workspace).
ResolvedStays ==
  [][\A r \in Replies : status[r] = "resolved" =>
       status'[r] = status[r] /\ text'[r] = text[r]]_vars
=============================================================================
