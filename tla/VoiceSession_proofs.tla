------------------------ MODULE VoiceSession_proofs ------------------------
(***************************************************************************)
(* Proofs about VoiceSession, for any numbers of replies and reconnects,   *)
(* any phrases and fields.                                                 *)
(***************************************************************************)
EXTENDS VoiceSession, TLAPS

USE DEF replies, session, memory, history

-----------------------------------------------------------------------------
(* Type correctness.  There are attempts left as long as the session runs,   *)
(* and a turn about the wording has a field to write.                        *)

TypeInv ==
  /\ TypeOK
  /\ phase \in {"starting", "greeting", "running"} => attempts \in 0..MaxReconnects
  /\ turn.pc = "read" => turn.field \in Fields /\ turn.repl \in Phrases
  /\ turn.pc # "idle" /\ turn.kind \in EditKinds
       => turn.field \in Fields /\ turn.repl \in Phrases
  /\ replacing.pos # 0 => replacing.field \in Fields
  /\ lastEdit.pos # 0 => lastEdit.field \in Fields

LEMMA ConstantTypes ==
  /\ NoEdit \in LastEdit /\ NoReplacing \in Replacing /\ NoScheduling \in Scheduling
  /\ Idle \in Turn
  /\ 0 \in Positions /\ 0 \in 0..MaxReplies
  BY ConstantsAssumption DEF NoEdit, LastEdit, NoReplacing, Replacing, NoScheduling,
     Scheduling, Idle, Turn, Positions, Targets, Actions, EditKinds

LEMMA ReplyAtType == \A p : ReplyAt(p) \in 0..MaxReplies
  <1> SUFFICES ASSUME NEW p PROVE ReplyAt(p) \in 0..MaxReplies
    OBVIOUS
  <1>1. CASE \E r \in Pending : At(p, r)
    <2>1. ReplyAt(p) \in Pending
      BY <1>1 DEF ReplyAt
    <2> QED
      BY <2>1, ConstantsAssumption DEF Pending, Replies
  <1>2. CASE ~\E r \in Pending : At(p, r)
    BY <1>2, ConstantsAssumption DEF ReplyAt
  <1> QED
    BY <1>1, <1>2

LEMMA OneIsPosition == 1 \in Positions /\ \A p \in Positions : Default(p) \in Positions
  BY ConstantsAssumption DEF Positions, Default

LEMMA IdleType == Idle \in Turn /\ Idle.pc = "idle"
  BY ConstantTypes DEF Idle

THEOREM InitTypeInv == Init => TypeInv
  BY ConstantTypes, ConstantsAssumption
  DEF Init, TypeInv, TypeOK, Idle, NoEdit, NoReplacing, EditKinds, Replies

LEMMA FieldOrType == TypeInv => \A f \in Fields \cup {None} : FieldOr(f) \in Fields
  BY ConstantsAssumption DEF TypeInv, FieldOr

LEMMA ResolveType ==
  ASSUME NEW kind \in Actions \cup EditKinds \cup {"complete"},
         NEW from \in Targets \cup {"spoken"}, NEW p \in Positions,
         NEW f \in Fields \cup {None}, NEW s \in Phrases \cup {None},
         NEW w \in Phrases \cup {None},
         kind \in EditKinds => f \in Fields /\ w \in Phrases,
         Resolve(kind, from, p, f, s, w)
  PROVE  /\ turn' \in Turn
         /\ turn'.pc = "resolved" /\ turn'.field = f /\ turn'.repl = w /\ turn'.kind = kind
  BY ReplyAtType DEF Resolve, Turn

THEOREM StepTypeInv == TypeInv /\ [Next]_vars => TypeInv'
  <1> SUFFICES ASSUME TypeInv, [Next]_vars PROVE TypeInv'
    OBVIOUS
  <1> USE DEF TypeInv, TypeOK
  <1>m. \A t \in Targets, r \in 0..MaxReplies :
          [aim EXCEPT ![t] = r] \in [Targets -> 0..MaxReplies]
    OBVIOUS
  <1>1. CASE Hear
    <2>1. ASSUME NEW p \in Positions, NEW f \in Fields, OpenEditor(p, f) PROVE TypeInv'
      BY <2>1, <1>m, OneIsPosition, ReplyAtType DEF OpenEditor, Remember, LastEdit, Targets
    <2>2. ASSUME NEW p \in Positions, NEW f \in Fields \cup {None}, NEW s \in Phrases,
                 NameSearch(p, f, s)
          PROVE  TypeInv'
      <3>1. aim' \in [Targets -> 0..MaxReplies]
        BY <2>2, ReplyAtType DEF NameSearch, Targets
      <3>2. /\ replacing' \in Replacing /\ replacing'.field \in Fields
            /\ lastEdit' \in LastEdit /\ lastEdit'.field \in Fields
        BY <2>2, OneIsPosition, FieldOrType DEF NameSearch, LastEdit, Replacing
      <3> QED
        BY <2>2, <3>1, <3>2 DEF NameSearch
    <2>3. ASSUME NEW p \in Positions, OpenScheduler(p) PROVE TypeInv'
      BY <2>3, <1>m, OneIsPosition, ReplyAtType DEF OpenScheduler, Remember, Scheduling, Targets
    <2>4. ASSUME NEW p \in Positions, ReadReply(p) PROVE TypeInv'
      BY <2>4, ReplyAtType DEF ReadReply
    <2>5. ASSUME NEW p \in Positions, NEW k \in Actions \ {"reschedule"}, HearAction(k, p)
          PROVE  TypeInv'
      <3>1. turn' \in Turn /\ turn'.pc = "resolved" /\ turn'.kind \notin EditKinds
        BY <2>5, OneIsPosition, ResolveType DEF HearAction, Actions, EditKinds
      <3> QED
        BY <2>5, <3>1 DEF HearAction
    <2>6. ASSUME NEW p \in Positions, NEW k \in {"replace", "set"},
                 NEW f \in Fields \cup {None}, NEW s \in Phrases \cup {None},
                 NEW w \in Phrases, HearFieldEdit(k, p, f, s, w)
          PROVE  TypeInv'
      <3> DEFINE again == p = 0 /\ lastEdit.pos # 0
                 q == IF again THEN lastEdit.pos ELSE Default(p)
      <3>0. q \in Positions /\ FieldOr(f) \in Fields
        BY OneIsPosition, FieldOrType DEF LastEdit
      <3>1. turn' \in Turn /\ turn'.field \in Fields /\ turn'.repl \in Phrases
        <4> DEFINE from == IF again THEN "edit" ELSE "spoken"
                   g == FieldOr(f)
        <4>1. Resolve(k, from, q, g, s, w)
          BY <2>6 DEF HearFieldEdit
        <4>2. /\ k \in EditKinds /\ from \in Targets \cup {"spoken"}
              /\ q \in Positions /\ g \in Fields
          BY <3>0 DEF EditKinds, Targets
        <4> HIDE DEF again, q, from, g, TypeInv, TypeOK
        <4> QED
          BY <4>1, <4>2, ResolveType
      <3>2. lastEdit' \in LastEdit /\ lastEdit'.field \in Fields
        BY <2>6, <3>0 DEF HearFieldEdit, LastEdit
      <3>3. aim' \in [Targets -> 0..MaxReplies]
        BY <2>6, <1>m, ReplyAtType DEF HearFieldEdit, Targets
      <3> QED
        BY <2>6, <3>1, <3>2, <3>3, ConstantTypes DEF HearFieldEdit, NoReplacing
    <2>7. CASE ReadQueue
      <3>1. heard' \in [Positions -> 0..MaxReplies]
        <4>1. ASSUME NEW p \in Positions, \E r \in Pending : Listed(p, r)
              PROVE  (CHOOSE r \in Pending : Listed(p, r)) \in 0..MaxReplies
          BY <4>1, ConstantsAssumption DEF Pending, Replies
        <4> QED
          BY <2>7, <4>1, ConstantTypes DEF ReadQueue
      <3> QED
        BY <2>7, <3>1 DEF ReadQueue
    <2>8. CASE ReopenScheduler
      <3>1. RescheduleTarget.pos \in Positions
        BY OneIsPosition DEF RescheduleTarget, LastEdit, Scheduling
      <3> QED
        BY <2>8, <3>1, <1>m, ReplyAtType DEF ReopenScheduler, Remember, Scheduling, Targets
    <2>9. CASE HearReschedule
      <3>1. RescheduleTarget.pos \in Positions /\ RescheduleTarget.from \in Targets \cup {"spoken"}
        BY OneIsPosition DEF RescheduleTarget, LastEdit, Scheduling, Targets
      <3>2. turn' \in Turn /\ turn'.pc = "resolved" /\ turn'.kind \notin EditKinds
        BY <2>9, <3>1, ResolveType DEF HearReschedule, Actions, EditKinds
      <3> QED
        BY <2>9, <3>2 DEF HearReschedule
    <2>10. CASE Cancel
      BY <2>10, ConstantTypes DEF Cancel, NoReplacing
    <2>11. CASE ClearAll
      BY <2>11, ConstantTypes DEF ClearAll, Moves
    <2>12. ASSUME NEW d \in BOOLEAN, NEW t \in BOOLEAN, HearDateTime(d, t) PROVE TypeInv'
      <3> DEFINE s == [scheduling EXCEPT !.date = @ \/ d, !.time = @ \/ t]
      <3>1. s \in Scheduling /\ s.pos = scheduling.pos /\ s.pos \in Positions
        BY DEF Scheduling
      <3>2. turn' = turn \/ (turn' \in Turn /\ turn'.pc = "resolved" /\ turn'.kind \notin EditKinds)
        BY <2>12, <3>1, ResolveType DEF HearDateTime, EditKinds, Targets
      <3>3. scheduling' \in Scheduling
        BY <2>12, <3>1, ConstantTypes DEF HearDateTime
      <3>4. said' \subseteq {"date", "time", "search"}
        BY <2>12 DEF HearDateTime
      <3> QED
        BY <2>12, <3>2, <3>3, <3>4 DEF HearDateTime
    <2>13. ASSUME NEW s \in Phrases \cup {None}, NEW w \in Phrases, HearReplacement(s, w)
           PROVE  TypeInv'
      <3>1. turn' = turn \/ (turn' \in Turn /\ turn'.field \in Fields /\ turn'.repl \in Phrases)
        <4> DEFINE f == replacing.field
                   search == IF s # None THEN s ELSE replacing.search
        <4>1. /\ f \in Fields /\ search \in Phrases \cup {None}
              /\ replacing.pos \in Positions /\ "continue" \in EditKinds /\ "replace" \in Targets
          BY <2>13 DEF HearReplacement, Replacing, EditKinds, Targets
        <4>2. Resolve("continue", "replace", replacing.pos, f, search, w) \/ turn' = turn
          BY <2>13 DEF HearReplacement
        <4> HIDE DEF f, search
        <4> QED
          BY <4>1, <4>2, ResolveType
      <3> QED
        BY <2>13, <3>1, ConstantTypes DEF HearReplacement, NoReplacing
    <2> QED
      BY <1>1, <2>1, <2>2, <2>3, <2>4, <2>5, <2>6, <2>7, <2>8, <2>9, <2>10, <2>11, <2>12,
         <2>13 DEF Hear
  <1>2. CASE ToolCall
    <2>1. CASE ReadField
      <3>1. turn' = [turn EXCEPT !.pc = "read"] \/ turn' = Idle
        BY <2>1 DEF ReadField, Finish
      <3>2. CASE turn' = [turn EXCEPT !.pc = "read"]
        <4>1. /\ turn' \in Turn /\ turn'.field = turn.field /\ turn'.repl = turn.repl
              /\ turn.field \in Fields /\ turn.repl \in Phrases
          BY <2>1, <3>2 DEF ReadField, Turn
        <4> QED
          BY <2>1, <4>1 DEF ReadField
      <3>3. CASE turn' = Idle
        BY <2>1, <3>3, IdleType DEF ReadField
      <3> QED
        BY <3>1, <3>2, <3>3
    <2>2. ASSUME NEW ok \in BOOLEAN, Act(ok) PROVE TypeInv'
      <3>1. /\ status' \in [Replies -> {"none", "pending", "resolved"}]
            /\ text' \in [Replies -> [Fields -> Phrases \cup {None}]]
            /\ scheduled' \subseteq Replies
            /\ aim' \in [Targets -> 0..MaxReplies]
            /\ heard' \in [Positions -> 0..MaxReplies]
        <4>1. CASE turn.id \in Pending /\ Resolved(turn.id)
          BY <4>1, ConstantTypes DEF Resolved, Moves, Pending
        <4>2. CASE turn.id \in Pending /\ Scheduled(turn.id)
          BY <4>2 DEF Scheduled, Pending
        <4>3. CASE turn.id \in Pending /\ Regenerated(turn.id)
          BY <4>3, ConstantsAssumption DEF Regenerated, Pending
        <4>4. CASE UNCHANGED <<status, text, scheduled, aim, heard>>
          BY <4>4
        <4> QED
          BY <2>2, <4>1, <4>2, <4>3, <4>4 DEF Act, Succeeds
      <3>2. scheduling' \in Scheduling /\ said' \subseteq {"date", "time", "search"}
        BY <2>2, ConstantTypes DEF Act
      <3> QED
        BY <2>2, <3>1, <3>2, IdleType DEF Act, Finish
    <2>3. ASSUME NEW ok \in BOOLEAN, CompleteSchedule(ok) PROVE TypeInv'
      <3>1. /\ UNCHANGED <<status, text, aim, heard>>
            /\ scheduled' \subseteq Replies /\ said' \subseteq {"date", "time", "search"}
        BY <2>3 DEF CompleteSchedule, Succeeds, Pending, Scheduled
      <3> QED
        BY <2>3, <3>1, IdleType DEF CompleteSchedule, Finish
    <2>4. ASSUME NEW ok \in BOOLEAN, WriteField(ok) PROVE TypeInv'
      <3>1. turn.field \in Fields /\ turn.repl \in Phrases /\ turn.pos \in Positions
        BY <2>4 DEF WriteField, Turn
      <3>2. /\ text' \in [Replies -> [Fields -> Phrases \cup {None}]]
            /\ scheduled' \subseteq Replies
        <4>1. CASE turn.id \in Pending
                /\ text' = [text EXCEPT ![turn.id][turn.field] = turn.repl]
                /\ scheduled' = scheduled \ {turn.id}
          BY <3>1, <4>1 DEF Pending
        <4>2. CASE UNCHANGED <<text, scheduled>>
          BY <4>2
        <4> QED
          BY <2>4, <4>1, <4>2 DEF WriteField, Succeeds
      <3>3. /\ lastEdit' \in LastEdit
            /\ lastEdit'.pos # 0 => lastEdit'.field \in Fields
        BY <2>4, <3>1 DEF WriteField, LastEdit
      <3>4. aim' \in [Targets -> 0..MaxReplies]
        BY <2>4, <1>m, ReplyAtType, ConstantTypes DEF WriteField, Succeeds, Pending, Replies, Targets
      <3> QED
        BY <2>4, <3>2, <3>3, <3>4, IdleType DEF WriteField, Finish
    <2> QED
      BY <1>2, <2>1, <2>2, <2>3, <2>4 DEF ToolCall
  <1>3. CASE Connection
    <2>1. ASSUME NEW ok \in BOOLEAN, Start(ok) PROVE TypeInv'
      BY <2>1 DEF Start
    <2>2. ASSUME NEW ok \in BOOLEAN, Reconnect(ok) PROVE TypeInv'
      BY <2>2, ConstantsAssumption DEF Reconnect
    <2>3. CASE Welcome
      BY <2>3 DEF Welcome
    <2>4. CASE StreamFails
      BY <2>4, ConstantsAssumption DEF StreamFails, Listening
    <2>5. CASE StreamEnds
      BY <2>5, ConstantsAssumption DEF StreamEnds, Listening
    <2>6. CASE ClientLeaves \/ AudioUnsent
      BY <2>6, IdleType, ConstantsAssumption DEF ClientLeaves, AudioUnsent, CancelPumps
    <2>7. CASE Stop
      BY <2>7 DEF Stop
    <2> QED
      BY <1>3, <2>1, <2>2, <2>3, <2>4, <2>5, <2>6, <2>7 DEF Connection
  <1>4. CASE Others
    <2>1. ASSUME NEW w \in Phrases, Propose(w) PROVE TypeInv'
      BY <2>1, ConstantTypes DEF Propose, Moves
    <2>2. ASSUME NEW r \in Replies, ResolveElsewhere(r) PROVE TypeInv'
      BY <2>2, ConstantTypes DEF ResolveElsewhere, Moves
    <2>3. ASSUME NEW r \in Replies, NEW f \in Fields, NEW w \in Phrases, EditElsewhere(r, f, w)
          PROVE  TypeInv'
      BY <2>3 DEF EditElsewhere
    <2> QED
      BY <1>4, <2>1, <2>2, <2>3 DEF Others
  <1>5. CASE UNCHANGED vars
    BY <1>5 DEF vars
  <1> QED
    BY <1>1, <1>2, <1>3, <1>4, <1>5 DEF Next

THEOREM TypeInvariant == Spec => []TypeInv
  BY InitTypeInv, StepTypeInv, PTL DEF Spec

\* The type invariant: replies, positions and turns are well formed, and the
\* failures of the stream are counted up to one past the attempts allowed.
THEOREM TypeCorrect == Spec => []TypeOK
  <1>1. TypeInv => TypeOK
    BY DEF TypeInv
  <1> QED
    BY <1>1, TypeInvariant, PTL

-----------------------------------------------------------------------------
(* What a resolved reply keeps.  Every tool call that writes has found its    *)
(* reply pending in the same transaction, and proposing takes a new one.      *)

THEOREM StepResolvedStays ==
  TypeInv /\ [Next]_vars =>
    \A r \in Replies : status[r] = "resolved" => status'[r] = status[r] /\ text'[r] = text[r]
  <1> SUFFICES ASSUME TypeInv, [Next]_vars, NEW r \in Replies, status[r] = "resolved"
               PROVE  status'[r] = status[r] /\ text'[r] = text[r]
    OBVIOUS
  <1> USE DEF TypeInv, TypeOK
  <1>0. CASE UNCHANGED <<status, text>>
    BY <1>0
  <1>1. CASE Hear
    <2>1. CASE ClearAll
      BY <2>1 DEF ClearAll
    <2>2. CASE ~ClearAll
      <3>1. UNCHANGED replies
        BY <1>1, <2>2 DEF Hear, OpenEditor, NameSearch, OpenScheduler, ReadReply, HearAction,
           HearFieldEdit, ReadQueue, ReopenScheduler, HearReschedule, Cancel, HearDateTime,
           HearReplacement
      <3> QED
        BY <3>1
    <2> QED
      BY <2>1, <2>2
  <1>2. CASE ToolCall
    <2>1. CASE ReadField
      BY <2>1 DEF ReadField
    <2>2. ASSUME NEW ok \in BOOLEAN, Act(ok)
          PROVE  status'[r] = status[r] /\ text'[r] = text[r]
      BY <2>2 DEF Act, Succeeds, Pending, Resolved, Scheduled, Regenerated
    <2>3. ASSUME NEW ok \in BOOLEAN, CompleteSchedule(ok)
          PROVE  status'[r] = status[r] /\ text'[r] = text[r]
      BY <2>3 DEF CompleteSchedule, Scheduled
    <2>4. ASSUME NEW ok \in BOOLEAN, WriteField(ok)
          PROVE  status'[r] = status[r] /\ text'[r] = text[r]
      BY <2>4 DEF WriteField, Succeeds, Pending
    <2> QED
      BY <1>2, <2>1, <2>2, <2>3, <2>4 DEF ToolCall
  <1>3. CASE Connection
    BY <1>3 DEF Connection, Start, Reconnect, Welcome, StreamFails, StreamEnds, ClientLeaves,
       AudioUnsent, Stop
  <1>4. CASE Others
    BY <1>4 DEF Others, Propose, ResolveElsewhere, EditElsewhere, Pending
  <1>5. CASE UNCHANGED vars
    BY <1>5 DEF vars
  <1> QED
    BY <1>1, <1>2, <1>3, <1>4, <1>5 DEF Next

\* A reply that has been resolved keeps its status and its wording, whatever turn,
\* reviewer or cron still works on it (_load_pending_in_workspace).
THEOREM ResolvedIsFinal == Spec => ResolvedStays
  BY TypeInvariant, StepResolvedStays, PTL DEF Spec, ResolvedStays

-----------------------------------------------------------------------------
(* Positions.  A remembered position and a position read out both still name *)
(* the reply they named, unless the queue has changed since: then the        *)
(* history says 0.  A turn resolves its position against the same queue.     *)

EditKept == lastEdit.pos # 0 => aim["edit"] \in {0, ReplyAt(lastEdit.pos)}
ReplaceKept == replacing.pos # 0 => aim["replace"] \in {0, ReplyAt(replacing.pos)}
ScheduleKept == scheduling.pos # 0 => aim["schedule"] \in {0, ReplyAt(scheduling.pos)}
HeardKept == \A p \in Positions : heard[p] \in {0, ReplyAt(p)}

PositionsKept ==
  /\ EditKept /\ ReplaceKept /\ ScheduleKept
  /\ HeardKept
  /\ FollowUpStays
  /\ ActsOnWhatWasHeard

LEMMA QueueStands == UNCHANGED status => \A p : ReplyAt(p)' = ReplyAt(p)
  BY DEF ReplyAt, At, Pending

\* A step that changes the queue forgets every reply.
LEMMA MovesKeep ==
  ASSUME TypeInv, Moves, TypeInv', turn' = turn \/ turn' = Idle
  PROVE  PositionsKept'
  <1>1. /\ \A t \in Targets : aim'[t] = 0
        /\ \A p \in Positions : heard'[p] = 0
    BY DEF Moves
  <1>2. "edit" \in Targets /\ "replace" \in Targets /\ "schedule" \in Targets
    BY DEF Targets
  <1>3. turn'.pos \in Positions
    BY DEF TypeInv, TypeOK, Turn
  <1> QED
    BY <1>1, <1>2, <1>3
    DEF PositionsKept, EditKept, ReplaceKept, ScheduleKept, HeardKept, FollowUpStays,
        ActsOnWhatWasHeard

\* A step that leaves the queue, the memory and the turn's reply alone.
LEMMA StandingKeeps ==
  ASSUME PositionsKept, UNCHANGED <<status, aim, heard, lastEdit>>,
         replacing'.pos \in {replacing.pos, 0}, scheduling'.pos \in {scheduling.pos, 0},
         \/ turn'.pc = "idle"
         \/ /\ turn.pc # "idle"
            /\ turn'.from = turn.from /\ turn'.id = turn.id /\ turn'.pos = turn.pos
         \/ turn' = turn
  PROVE  PositionsKept'
  BY QueueStands
  DEF PositionsKept, EditKept, ReplaceKept, ScheduleKept, HeardKept, FollowUpStays,
      ActsOnWhatWasHeard

LEMMA NoBuffer == NoReplacing.pos = 0 /\ NoScheduling.pos = 0 /\ Idle.pc = "idle"
  BY DEF NoReplacing, NoScheduling, Idle

\* A turn that resolves a position has the reply that stands there.
LEMMA ResolveKeeps ==
  ASSUME TypeInv, HeardKept, UNCHANGED <<status, heard>>,
         NEW kind, NEW from \in Targets \cup {"spoken"}, NEW p \in Positions, NEW f, NEW s, NEW w,
         Resolve(kind, from, p, f, s, w),
         from \in Targets => aim'[from] \in {0, ReplyAt(p)}
  PROVE  FollowUpStays' /\ ActsOnWhatWasHeard' /\ turn'.id = ReplyAt(p) /\ turn'.pos = p
  <1>1. turn'.id = ReplyAt(p) /\ turn'.pos = p /\ turn'.from = from
    BY DEF Resolve
  <1>2. heard'[p] \in {0, ReplyAt(p)}
    BY DEF HeardKept
  <1> QED
    BY <1>1, <1>2 DEF FollowUpStays, ActsOnWhatWasHeard

THEOREM StepPositionsKept == TypeInv /\ PositionsKept /\ [Next]_vars => PositionsKept'
  <1> SUFFICES ASSUME TypeInv, PositionsKept, [Next]_vars PROVE PositionsKept'
    OBVIOUS
  <1>t. TypeInv'
    BY StepTypeInv
  <1>a. /\ aim \in [Targets -> 0..MaxReplies] /\ heard \in [Positions -> 0..MaxReplies]
        /\ lastEdit \in LastEdit /\ replacing \in Replacing /\ scheduling \in Scheduling
        /\ lastEdit.pos \in Positions /\ replacing.pos \in Positions
        /\ scheduling.pos \in Positions /\ turn \in Turn
        /\ "edit" \in Targets /\ "replace" \in Targets /\ "schedule" \in Targets
    BY DEF TypeInv, TypeOK, Targets, LastEdit, Replacing, Scheduling
  <1>k. /\ EditKept /\ ReplaceKept /\ ScheduleKept /\ HeardKept
        /\ FollowUpStays /\ ActsOnWhatWasHeard
    BY DEF PositionsKept
  <1>i. turn.pc = "idle" /\ UNCHANGED turn => FollowUpStays' /\ ActsOnWhatWasHeard'
    BY DEF FollowUpStays, ActsOnWhatWasHeard
  <1>1. CASE Hear
    <2>1. ASSUME NEW p \in Positions, NEW f \in Fields, OpenEditor(p, f) PROVE PositionsKept'
      <3>1. /\ lastEdit'.pos = Default(p) /\ aim'["edit"] = ReplyAt(Default(p))
            /\ aim'["replace"] = aim["replace"] /\ aim'["schedule"] = aim["schedule"]
        BY <2>1, <1>a DEF OpenEditor, Remember
      <3> QED
        BY <2>1, <3>1, <1>k, <1>i, QueueStands
        DEF OpenEditor, Listening, PositionsKept, EditKept, ReplaceKept, ScheduleKept, HeardKept
    <2>2. ASSUME NEW p \in Positions, NEW f \in Fields \cup {None}, NEW s \in Phrases,
                 NameSearch(p, f, s)
          PROVE  PositionsKept'
      <3> DEFINE again == p = 0 /\ lastEdit.pos # 0
                 q == IF again THEN lastEdit.pos ELSE Default(p)
                 r == IF again THEN aim["edit"] ELSE ReplyAt(q)
      <3>1. r \in {0, ReplyAt(q)}
        BY <1>k DEF EditKept
      <3>2. /\ lastEdit'.pos = q /\ replacing'.pos = q
            /\ aim' = [aim EXCEPT !["replace"] = r, !["edit"] = r]
        BY <2>2 DEF NameSearch
      <3> HIDE DEF q, r, again
      <3>3. aim'["edit"] = r /\ aim'["replace"] = r /\ aim'["schedule"] = aim["schedule"]
        BY <3>2, <1>a
      <3> QED
        BY <2>2, <3>1, <3>2, <3>3, <1>k, <1>i, QueueStands
        DEF NameSearch, Listening, PositionsKept, EditKept, ReplaceKept, ScheduleKept, HeardKept
    <2>3. ASSUME NEW p \in Positions,
                 scheduling'.pos = p, Remember("schedule", p), Listening,
                 UNCHANGED <<status, lastEdit, replacing, turn, heard>>
          PROVE  PositionsKept'
      <3>1. /\ aim'["schedule"] = ReplyAt(p)
            /\ aim'["replace"] = aim["replace"] /\ aim'["edit"] = aim["edit"]
        BY <2>3, <1>a DEF Remember
      <3> QED
        BY <2>3, <3>1, <1>k, <1>i, QueueStands
        DEF Listening, PositionsKept, EditKept, ReplaceKept, ScheduleKept, HeardKept
    <2>4. ASSUME NEW p \in Positions, OpenScheduler(p) PROVE PositionsKept'
      BY <2>3, <2>4, OneIsPosition DEF OpenScheduler
    <2>5. CASE ReopenScheduler
      <3>1. RescheduleTarget.pos \in Positions
        BY <1>a, OneIsPosition DEF RescheduleTarget
      <3> QED
        BY <2>3, <2>5, <3>1 DEF ReopenScheduler
    <2>6. ASSUME NEW p \in Positions, ReadReply(p) PROVE PositionsKept'
      <3>1. \A q \in Positions : heard'[q] \in {0, ReplyAt(q)}
        BY <2>6, <1>a, <1>k DEF ReadReply, HeardKept
      <3> QED
        BY <2>6, <3>1, <1>k, QueueStands
        DEF ReadReply, Listening, PositionsKept, EditKept, ReplaceKept, ScheduleKept, HeardKept,
            FollowUpStays, ActsOnWhatWasHeard
    <2>7. CASE ReadQueue
      <3>1. \A q \in Positions : heard'[q] = ReplyAt(q)
        BY <2>7 DEF ReadQueue, ReplyAt, At, Listed
      <3> QED
        BY <2>7, <3>1, <1>k, QueueStands
        DEF ReadQueue, Listening, PositionsKept, EditKept, ReplaceKept, ScheduleKept, HeardKept,
            FollowUpStays, ActsOnWhatWasHeard
    <2>8. ASSUME NEW p \in Positions, NEW k \in Actions \ {"reschedule"}, HearAction(k, p)
          PROVE  PositionsKept'
      <3>1. FollowUpStays' /\ ActsOnWhatWasHeard'
        <4>1. Default(p) \in Positions
          BY OneIsPosition
        <4> QED
          BY <2>8, <4>1, <1>k, ResolveKeeps DEF HearAction, Targets
      <3> QED
        BY <2>8, <3>1, <1>k, QueueStands
        DEF HearAction, PositionsKept, EditKept, ReplaceKept, ScheduleKept, HeardKept
    <2>9. CASE HearReschedule
      <3> DEFINE from == RescheduleTarget.from
                 p == RescheduleTarget.pos
      <3>1. p \in Positions /\ from \in Targets \cup {"spoken"}
        BY <1>a, OneIsPosition DEF RescheduleTarget
      <3>2. from \in Targets => aim[from] \in {0, ReplyAt(p)}
        BY <1>k DEF RescheduleTarget, EditKept, ScheduleKept, Targets
      <3>3. Resolve("reschedule", from, p, None, None, None) /\ UNCHANGED <<status, memory, history>>
        BY <2>9 DEF HearReschedule
      <3> HIDE DEF from, p
      <3>4. FollowUpStays' /\ ActsOnWhatWasHeard'
        BY <3>1, <3>2, <3>3, <1>k, ResolveKeeps
      <3> QED
        BY <3>3, <3>4, <1>k, QueueStands
        DEF PositionsKept, EditKept, ReplaceKept, ScheduleKept, HeardKept
    <2>10. ASSUME NEW p \in Positions, NEW k \in {"replace", "set"},
                  NEW f \in Fields \cup {None}, NEW s \in Phrases \cup {None},
                  NEW w \in Phrases, HearFieldEdit(k, p, f, s, w)
           PROVE  PositionsKept'
      <3> DEFINE again == p = 0 /\ lastEdit.pos # 0
                 q == IF again THEN lastEdit.pos ELSE Default(p)
                 from == IF again THEN "edit" ELSE "spoken"
                 g == FieldOr(f)
      <3>1. q \in Positions /\ from \in Targets \cup {"spoken"}
        BY <1>a, OneIsPosition
      <3>2. /\ Resolve(k, from, q, g, s, w)
            /\ lastEdit'.pos = q /\ replacing' = NoReplacing
            /\ UNCHANGED <<status, heard, scheduling>>
            /\ aim' = IF again THEN aim ELSE [aim EXCEPT !["edit"] = ReplyAt(q)]
        BY <2>10 DEF HearFieldEdit
      <3>3. aim'["edit"] \in {0, ReplyAt(q)} /\ aim'["schedule"] = aim["schedule"]
        BY <3>2, <1>a, <1>k DEF EditKept
      <3>4. from \in Targets => aim'[from] \in {0, ReplyAt(q)}
        BY <3>3 DEF Targets
      <3> HIDE DEF again, q, from, g
      <3>5. FollowUpStays' /\ ActsOnWhatWasHeard'
        BY <3>1, <3>2, <3>4, <1>k, ResolveKeeps
      <3> QED
        BY <3>2, <3>3, <3>5, <1>k, QueueStands, NoBuffer
        DEF PositionsKept, EditKept, ReplaceKept, ScheduleKept, HeardKept
    <2>11. CASE Cancel
      BY <2>11, NoBuffer, StandingKeeps DEF Cancel
    <2>12. CASE ClearAll
      BY <2>12, <1>t, MovesKeep DEF ClearAll
    <2>13. ASSUME NEW d \in BOOLEAN, NEW t \in BOOLEAN, HearDateTime(d, t) PROVE PositionsKept'
      <3>1. CASE turn' = turn
        <4>1. scheduling'.pos \in {scheduling.pos, 0}
          BY <2>13, <1>a, NoBuffer DEF HearDateTime, Scheduling
        <4> QED
          BY <2>13, <3>1, <4>1, StandingKeeps DEF HearDateTime
      <3>2. CASE turn' # turn
        <4>1. /\ Resolve("complete", "schedule", scheduling.pos, None, None, None)
              /\ scheduling' = NoScheduling /\ scheduling.pos # 0
              /\ UNCHANGED <<status, lastEdit, replacing, aim, heard>>
          BY <2>13, <3>2, <1>a DEF HearDateTime, Scheduling
        <4>2. FollowUpStays' /\ ActsOnWhatWasHeard'
          BY <4>1, <1>a, <1>k, ResolveKeeps DEF ScheduleKept
        <4> QED
          BY <4>1, <4>2, <1>k, QueueStands, NoBuffer
          DEF PositionsKept, EditKept, ReplaceKept, ScheduleKept, HeardKept
      <3> QED
        BY <3>1, <3>2
    <2>14. ASSUME NEW s \in Phrases \cup {None}, NEW w \in Phrases, HearReplacement(s, w)
           PROVE  PositionsKept'
      <3>1. CASE turn' = turn
        BY <2>14, <3>1, NoBuffer, StandingKeeps DEF HearReplacement
      <3>2. CASE turn' # turn
        <4> DEFINE search == IF s # None THEN s ELSE replacing.search
        <4>1. /\ Resolve("continue", "replace", replacing.pos, replacing.field, search, w)
              /\ replacing' = NoReplacing /\ replacing.pos # 0
              /\ UNCHANGED <<status, lastEdit, scheduling, aim, heard>>
          BY <2>14, <3>2 DEF HearReplacement
        <4> HIDE DEF search
        <4>2. FollowUpStays' /\ ActsOnWhatWasHeard'
          BY <4>1, <1>a, <1>k, ResolveKeeps DEF ReplaceKept
        <4> QED
          BY <4>1, <4>2, <1>k, QueueStands, NoBuffer
          DEF PositionsKept, EditKept, ReplaceKept, ScheduleKept, HeardKept
      <3> QED
        BY <3>1, <3>2
    <2> QED
      BY <1>1, <2>1, <2>2, <2>4, <2>5, <2>6, <2>7, <2>8, <2>9, <2>10, <2>11, <2>12, <2>13, <2>14
      DEF Hear
  <1>2. CASE ToolCall
    <2>1. CASE ReadField
      BY <2>1, <1>a, NoBuffer, StandingKeeps DEF ReadField, Finish, Turn
    <2>2. ASSUME NEW ok \in BOOLEAN, Act(ok) PROVE PositionsKept'
      <3>1. CASE Moves
        BY <2>2, <3>1, <1>t, MovesKeep DEF Act, Finish
      <3>2. CASE UNCHANGED <<status, aim, heard>>
        BY <2>2, <3>2, NoBuffer, StandingKeeps DEF Act, Finish
      <3> QED
        BY <2>2, <3>1, <3>2 DEF Act, Resolved, Scheduled, Regenerated
    <2>3. ASSUME NEW ok \in BOOLEAN, CompleteSchedule(ok) PROVE PositionsKept'
      BY <2>3, NoBuffer, StandingKeeps DEF CompleteSchedule, Finish, Scheduled
    <2>4. ASSUME NEW ok \in BOOLEAN, WriteField(ok) PROVE PositionsKept'
      <3>1. CASE UNCHANGED <<lastEdit, aim>>
        BY <2>4, <3>1, NoBuffer, StandingKeeps DEF WriteField, Finish
      <3>2. CASE ~UNCHANGED <<lastEdit, aim>>
        <4>1. /\ lastEdit'.pos = turn.pos
              /\ aim'["edit"] \in {0, ReplyAt(turn.pos)}
              /\ aim'["replace"] = aim["replace"] /\ aim'["schedule"] = aim["schedule"]
          BY <2>4, <3>2, <1>a DEF WriteField
        <4>2. UNCHANGED <<status, replacing, scheduling, heard>> /\ turn'.pc = "idle"
          BY <2>4, NoBuffer DEF WriteField, Finish
        <4> QED
          BY <4>1, <4>2, <1>k, QueueStands
          DEF PositionsKept, EditKept, ReplaceKept, ScheduleKept, HeardKept, FollowUpStays,
              ActsOnWhatWasHeard
      <3> QED
        BY <3>1, <3>2
    <2> QED
      BY <1>2, <2>1, <2>2, <2>3, <2>4 DEF ToolCall
  <1>3. CASE Connection
    <2>1. UNCHANGED <<status, memory, history>> /\ (turn' = turn \/ turn'.pc = "idle")
      BY <1>3, NoBuffer
      DEF Connection, Start, Reconnect, Welcome, StreamFails, StreamEnds, ClientLeaves,
          CancelPumps, AudioUnsent, Stop
    <2> QED
      BY <2>1, StandingKeeps
  <1>4. CASE Others
    <2>1. CASE Moves
      BY <1>4, <1>t, <2>1, MovesKeep DEF Others, Propose, ResolveElsewhere, EditElsewhere
    <2>2. CASE ~Moves
      <3>1. UNCHANGED <<status, memory, history, turn>>
        BY <1>4, <2>2 DEF Others, Propose, ResolveElsewhere, EditElsewhere
      <3> QED
        BY <3>1, StandingKeeps
    <2> QED
      BY <2>1, <2>2
  <1>5. CASE UNCHANGED vars
    BY <1>5, StandingKeeps DEF vars
  <1> QED
    BY <1>1, <1>2, <1>3, <1>4, <1>5 DEF Next

THEOREM PositionsInvariant == Spec => []PositionsKept
  <1>1. Init => PositionsKept
    BY ConstantTypes
    DEF Init, PositionsKept, EditKept, ReplaceKept, ScheduleKept, HeardKept, FollowUpStays,
        ActsOnWhatWasHeard, NoEdit, NoReplacing, NoScheduling, Idle
  <1> QED
    BY <1>1, TypeInvariant, StepPositionsKept, PTL DEF Spec

\* A turn that names no position works on the reply the session remembered, as
\* long as the queue has not changed in between.
THEOREM FollowUps == Spec => []FollowUpStays
  <1>1. PositionsKept => FollowUpStays
    BY DEF PositionsKept
  <1> QED
    BY <1>1, PositionsInvariant, PTL

\* A spoken position works on the reply that was read out as the one there, as
\* long as the queue has not changed in between.
THEOREM HearsRight == Spec => []ActsOnWhatWasHeard
  <1>1. PositionsKept => ActsOnWhatWasHeard
    BY DEF PositionsKept
  <1> QED
    BY <1>1, PositionsInvariant, PTL

-----------------------------------------------------------------------------
(* Fragments.  What is buffered was spoken since the buffer was opened, and a *)
(* turn that carries a buffer out has emptied it.                             *)

BuffersAreSaid ==
  /\ scheduling.date => "date" \in said
  /\ scheduling.time => "time" \in said
  /\ replacing.pos # 0 => "search" \in said

CarriedOut ==
  turn.pc = "resolved" =>
    /\ turn.kind = "complete" => {"date", "time"} \subseteq said /\ scheduling = NoScheduling
    /\ turn.kind = "continue" => "search" \in said
    /\ turn.kind \in EditKinds => replacing.pos = 0

FragmentsInv == BuffersAreSaid /\ CarriedOut

LEMMA EmptyBuffers ==
  /\ ~NoScheduling.date /\ ~NoScheduling.time /\ NoScheduling.pos = 0
  /\ NoReplacing.pos = 0 /\ Idle.pc = "idle"
  BY DEF NoScheduling, NoReplacing, Idle

THEOREM StepFragments == TypeInv /\ FragmentsInv /\ [Next]_vars => FragmentsInv'
  <1> SUFFICES ASSUME TypeInv, FragmentsInv, [Next]_vars PROVE FragmentsInv'
    OBVIOUS
  <1>a. scheduling \in Scheduling /\ replacing \in Replacing /\ turn \in Turn
    BY DEF TypeInv, TypeOK
  <1>k. BuffersAreSaid /\ CarriedOut
    BY DEF FragmentsInv
  <1>i. ASSUME turn'.pc = "idle", BuffersAreSaid' PROVE FragmentsInv'
    BY <1>i DEF FragmentsInv, CarriedOut
  <1>s. ASSUME UNCHANGED <<memory, said>>, turn' = turn \/ turn'.pc = "idle" PROVE FragmentsInv'
    BY <1>s, <1>k DEF FragmentsInv, BuffersAreSaid, CarriedOut
  <1>1. CASE Hear
    <2>1. ASSUME NEW p \in Positions, NEW f \in Fields, OpenEditor(p, f) PROVE FragmentsInv'
      BY <2>1, <1>k, <1>i DEF OpenEditor, Listening, BuffersAreSaid
    <2>2. ASSUME NEW p \in Positions, NEW f \in Fields \cup {None}, NEW s \in Phrases,
                 NameSearch(p, f, s)
          PROVE  FragmentsInv'
      BY <2>2, <1>k, <1>i DEF NameSearch, Listening, BuffersAreSaid
    <2>3. ASSUME NEW p \in Positions, OpenScheduler(p) PROVE FragmentsInv'
      BY <2>3, <1>k, <1>i DEF OpenScheduler, Listening, BuffersAreSaid
    <2>4. CASE ReopenScheduler
      BY <2>4, <1>k, <1>i DEF ReopenScheduler, Listening, BuffersAreSaid
    <2>5. CASE ReadQueue \/ \E p \in Positions : ReadReply(p)
      BY <2>5, <1>s DEF ReadQueue, ReadReply
    <2>6. ASSUME NEW p \in Positions, NEW k \in Actions \ {"reschedule"}, HearAction(k, p)
          PROVE  FragmentsInv'
      BY <2>6, <1>k
      DEF HearAction, Resolve, Actions, EditKinds, FragmentsInv, BuffersAreSaid, CarriedOut
    <2>7. CASE HearReschedule
      BY <2>7, <1>k
      DEF HearReschedule, Resolve, EditKinds, FragmentsInv, BuffersAreSaid, CarriedOut
    <2>8. ASSUME NEW p \in Positions, NEW k \in {"replace", "set"},
                 NEW f \in Fields \cup {None}, NEW s \in Phrases \cup {None},
                 NEW w \in Phrases, HearFieldEdit(k, p, f, s, w)
          PROVE  FragmentsInv'
      <3>1. /\ turn'.kind = k /\ replacing' = NoReplacing /\ scheduling' = scheduling
            /\ said' = said \ {"search"}
        BY <2>8 DEF HearFieldEdit, Resolve
      <3> QED
        BY <3>1, <1>k, EmptyBuffers DEF FragmentsInv, BuffersAreSaid, CarriedOut
    <2>9. CASE Cancel
      BY <2>9, <1>i, EmptyBuffers DEF Cancel, Listening, BuffersAreSaid
    <2>10. CASE ClearAll
      BY <2>10, <1>s DEF ClearAll
    <2>11. ASSUME NEW d \in BOOLEAN, NEW t \in BOOLEAN, HearDateTime(d, t) PROVE FragmentsInv'
      <3> DEFINE s == [scheduling EXCEPT !.date = @ \/ d, !.time = @ \/ t]
      <3>1. s.date = (scheduling.date \/ d) /\ s.time = (scheduling.time \/ t)
        BY <1>a DEF Scheduling
      <3>2. said' = said \cup (IF d THEN {"date"} ELSE {}) \cup (IF t THEN {"time"} ELSE {})
        BY <2>11 DEF HearDateTime
      <3>3. (s.date => "date" \in said') /\ (s.time => "time" \in said')
        BY <3>1, <3>2, <1>k DEF BuffersAreSaid
      <3>4. scheduling' = s \/ scheduling' = NoScheduling
        BY <2>11 DEF HearDateTime
      <3>5. BuffersAreSaid'
        <4>1. replacing'.pos # 0 => "search" \in said'
          BY <2>11, <3>2, <1>k DEF HearDateTime, BuffersAreSaid
        <4> HIDE DEF s
        <4> QED
          BY <3>3, <3>4, <4>1, EmptyBuffers DEF BuffersAreSaid
      <3>6. CASE turn' = turn
        BY <2>11, <3>5, <3>6, <1>i DEF HearDateTime, Listening
      <3>7. CASE turn' # turn
        <4>1. turn'.kind = "complete" /\ scheduling' = NoScheduling /\ s.date /\ s.time
          BY <2>11, <3>7 DEF HearDateTime, Resolve
        <4> QED
          BY <3>3, <3>5, <4>1 DEF FragmentsInv, CarriedOut, EditKinds
      <3> QED
        BY <3>6, <3>7
    <2>12. ASSUME NEW s \in Phrases \cup {None}, NEW w \in Phrases, HearReplacement(s, w)
           PROVE  FragmentsInv'
      <3>1. /\ replacing' = NoReplacing /\ UNCHANGED <<scheduling, said>>
            /\ "search" \in said
            /\ turn'.kind = "continue" \/ turn'.pc = "idle"
        BY <2>12, <1>k DEF HearReplacement, Listening, Resolve, BuffersAreSaid
      <3> QED
        BY <3>1, <1>k, EmptyBuffers DEF FragmentsInv, BuffersAreSaid, CarriedOut
    <2> QED
      BY <1>1, <2>1, <2>2, <2>3, <2>4, <2>5, <2>6, <2>7, <2>8, <2>9, <2>10, <2>11, <2>12 DEF Hear
  <1>2. CASE ToolCall
    <2>1. CASE ReadField
      <3>1. /\ replacing.pos = 0 /\ UNCHANGED memory /\ said' = said \ {"search"}
            /\ turn'.pc # "resolved"
        BY <2>1, <1>a, <1>k, EmptyBuffers DEF ReadField, Finish, Turn, CarriedOut
      <3> QED
        BY <3>1, <1>k DEF FragmentsInv, BuffersAreSaid, CarriedOut
    <2>2. ASSUME NEW ok \in BOOLEAN, Act(ok) PROVE FragmentsInv'
      BY <2>2, <1>k, <1>i, EmptyBuffers DEF Act, Finish, BuffersAreSaid
    <2>3. ASSUME NEW ok \in BOOLEAN, CompleteSchedule(ok) PROVE FragmentsInv'
      <3>1. scheduling = NoScheduling
        BY <2>3, <1>k DEF CompleteSchedule, CarriedOut
      <3> QED
        BY <2>3, <3>1, <1>k, <1>i, EmptyBuffers DEF CompleteSchedule, Finish, BuffersAreSaid
    <2>4. ASSUME NEW ok \in BOOLEAN, WriteField(ok) PROVE FragmentsInv'
      BY <2>4, <1>k, <1>i, EmptyBuffers DEF WriteField, Finish, BuffersAreSaid
    <2> QED
      BY <1>2, <2>1, <2>2, <2>3, <2>4 DEF ToolCall
  <1>3. CASE Connection
    <2>1. UNCHANGED <<memory, said>> /\ (turn' = turn \/ turn'.pc = "idle")
      BY <1>3, EmptyBuffers
      DEF Connection, Start, Reconnect, Welcome, StreamFails, StreamEnds, ClientLeaves,
          CancelPumps, AudioUnsent, Stop
    <2> QED
      BY <2>1, <1>s
  <1>4. CASE Others
    BY <1>4, <1>s DEF Others, Propose, ResolveElsewhere, EditElsewhere
  <1>5. CASE UNCHANGED vars
    BY <1>5, <1>s DEF vars
  <1> QED
    BY <1>1, <1>2, <1>3, <1>4, <1>5 DEF Next

\* A schedule carried out from the buffer has a date and a time spoken since its
\* picker was opened, an edit a search, and neither was cancelled or used before.
THEOREM Fragments == Spec => []FragmentsBelongTogether
  <1>1. Init => FragmentsInv
    BY EmptyBuffers
    DEF Init, FragmentsInv, BuffersAreSaid, CarriedOut
  <1>2. FragmentsInv => FragmentsBelongTogether
    BY DEF FragmentsInv, CarriedOut, FragmentsBelongTogether
  <1> QED
    BY <1>1, <1>2, TypeInvariant, StepFragments, PTL DEF Spec
=============================================================================
