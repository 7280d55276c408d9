---------------------------- MODULE VoiceIntent ----------------------------
(***************************************************************************)
(* The router's reading of an utterance: what is wanted, of which reply,   *)
(* and when.  The classifier is a pure function, tried from the exact      *)
(* phrases down to a bare destination; the first that applies wins.        *)
(* Utterances grow word by word.                                           *)
(***************************************************************************)
EXTENDS VoiceTime, FiniteSets

CONSTANT
  Scenes        \* [now, words, length]: words that may be spoken together, and when

ASSUME ScenesAssumption ==
  \A s \in Scenes : /\ s.now \in Datetimes
                    /\ s.words \subseteq STRING \ {""}
                    /\ s.length \in Nat

VARIABLES
  scene,
  said,         \* the words so far
  intent        \* what they are taken for

vars == <<now, scene, said, intent>>

Words(t) == ToSet(t)
Leads(t, phrases) == \E p \in phrases : IsPrefix(p, t)
Rest(t, i) == SubSeq(t, i, Len(t))
Drop(t, n) == Rest(t, n + 1)
\* A word directly after another.
Follows(t, a, S) == \E i \in 1..(Len(t) - 1) : t[i] = a /\ t[i + 1] \in S

\* _normalize: the colon goes too.
Normalize(text) ==
  FlattenSeq([i \in DOMAIN text |->
     IF text[i] \in DOMAIN Colons THEN <<Numerals[Colons[text[i]].hour], Numerals[Colons[text[i]].minute]>>
     ELSE IF text[i] \in DOMAIN Spelling THEN Spelling[text[i]] ELSE <<text[i]>>])

\* IntentResult; a position of 0 is none.
Kinds == {"navigate", "unknown_destination", "help", "cancel", "clear_all_pending",
          "list_pending", "list_unread", "read_position", "regenerate_position",
          "regenerate_body_position", "edit_position", "focus_field_position",
          "approve_draft_position", "approve_send_position", "approve_schedule_position",
          "reschedule_position", "reject_position", "replace_in_field_position",
          "set_field_position", "edit_search_pending", "edit_replacement"}
Edits == [search : Seq(STRING), repl : Seq(STRING)]
ASSUME NothingAssumption == None \notin Kinds \cup Edits

Nothing == [kind |-> None, pos |-> 0, field |-> None, search |-> <<>>, repl |-> <<>>,
            when |-> None, path |-> None]
Plain(kind) == [Nothing EXCEPT !.kind = kind]
Or(a, b) == IF a # Nothing THEN a ELSE b

-----------------------------------------------------------------------------
(* Positions *)

PositionWords ==
  [w \in {Units[i] : i \in 1..9} |-> CHOOSE i \in 1..9 : Units[i] = w]
    @@ [w \in {HourNames[i] : i \in 1..10} |-> CHOOSE i \in 1..10 : HourNames[i] = w]
    @@ ("tenth" :> 10) @@ ("1st" :> 1) @@ ("2nd" :> 2) @@ ("3rd" :> 3)
Value(w) == IF IsNumeral(w) THEN NumeralOf(w) ELSE 0

\* _is_time_context
IsTime(t, i) == After(t, i) \in {"pm", "am", "oclock"}

\* _parse_position: "number 5", else the first ordinal or number that is no time.
NumberedAt(t, i) == t[i] \in {"number", "no", "num"} /\ IsNumeral(After(t, i))
PositionAt(t, i) ==
  /\ ~IsTime(t, i)
  /\ t[i] \in DOMAIN PositionWords \/ Value(t[i]) > 0
FirstOf(S) == CHOOSE i \in S : \A j \in S : i <= j
Numbered(t, places) == IF places = {} THEN 0 ELSE Value(t[FirstOf(places) + 1])
ValueOf(w) == IF w \in DOMAIN PositionWords THEN PositionWords[w] ELSE Value(w)
Placed(t, places) == IF places = {} THEN 0 ELSE ValueOf(t[FirstOf(places)])
Or0(p, q) == IF p # 0 THEN p ELSE q
Position(t) == Or0(Numbered(t, {i \in DOMAIN t : NumberedAt(t, i)}),
                   Placed(t, {i \in DOMAIN t : PositionAt(t, i)}))

\* The reply that is meant when no position is spoken.
At(t) == Or0(Position(t), 1)

-----------------------------------------------------------------------------
(* Requests about the whole queue *)

HelpPhrases == {<<"help">>, <<"what", "can", "i", "do">>, <<"what", "can", "you", "do">>,
                <<"options">>, <<"commands">>}

\* "all" and "every" are looked for in the letters, not in the words.
HoldsAll == {"all", "every", "everything", "small", "call"}
ClearVerbs == {"clear", "delete", "reject", "discard", "remove", "dismiss", "trash", "wipe"}
IsClearAll(t) == Words(t) \cap HoldsAll # {} /\ Words(t) \cap ClearVerbs # {}

CancelPhrases == {<<"discard", "changes">>, <<"close", "the", "editor">>,
                  <<"close", "editor">>, <<"forget", "it">>}
IsCancel(t) ==
  \/ t \in CancelPhrases
  \/ Leads(t, {<<"cancel">>, <<"never", "mind">>, <<"nevermind">>, <<"stop", "editing">>})

ListVerbs == {<<"list">>, <<"read">>, <<"show">>, <<"tell", "me">>, <<"what">>, <<"whats">>,
              <<"how", "many">>, <<"do", "i", "have">>, <<"check">>, <<"any">>}
ApprovalsWords == {"approval", "approvals", "reply", "replies", "draft", "drafts"}
UnreadWords == {"email", "emails", "inbox", "mail", "messages"}
ActionLeadingVerbs == {"reply", "approve", "send", "regenerate", "edit", "schedule",
                       "change", "replace", "delete", "reject", "clear"}

\* _classify_list_request: a verb of reading first, no position, and a sign that
\* the whole collection is meant.
Collection(t) == Words(t) \cap {"my", "all", "any"} # {} \/ Leads(t, {<<"how", "many">>})
ListRequest(t) ==
  LET about(nouns, signs) == Words(t) \cap nouns # {}
                             /\ (Words(t) \cap signs # {} \/ Collection(t)) IN
  IF Position(t) # 0 \/ t[1] \in ActionLeadingVerbs \/ ~Leads(t, ListVerbs) THEN Nothing
  ELSE IF about(ApprovalsWords, {"pending", "awaiting", "replies", "drafts"})
  THEN Plain("list_pending")
  ELSE IF about(UnreadWords, {"unread", "inbox", "emails", "mail"})
  THEN Plain("list_unread")
  ELSE Nothing

-----------------------------------------------------------------------------
(* Navigation *)

NavVerbs == << <<"take", "me", "to">>, <<"bring", "up">>, <<"go", "to">>,
               <<"navigate", "to">>, <<"navigate">>, <<"open">>, <<"show", "me">>,
               <<"show">>, <<"click">> >>
NavKeys == <<"integrations", "approvals", "rules", "team", "workspace", "admin">>
NavSynonyms == ("members" :> "workspace") @@ ("approval" :> "approvals") @@ ("rule" :> "rules")
            @@ ("integration" :> "integrations") @@ ("services" :> "integrations")
            @@ ("service" :> "integrations") @@ ("connections" :> "integrations")
            @@ ("connection" :> "integrations")
NavFillers == {"the", "go", "to", "open", "my", "menu", "tab", "page", "section", "screen",
               "view", "please", "a", "an"}
\* Words that hold the letters of a key, or are part of it.
NavParts == ("integ" :> "integrations") @@ ("teammates" :> "team") @@ ("min" :> "admin")
\* team and workspace are one page.
Route(key) == IF key = "team" THEN "workspace" ELSE key

\* _resolve_nav_target
Resolve(target) ==
  LET t == SelectSeq(target, LAMBDA w : w \notin NavFillers)
      k == FirstSaid(t, NavKeys)
      s == FirstIn(t, DOMAIN NavSynonyms) IN
  IF k # 0 THEN Route(NavKeys[k])
  ELSE IF s # 0 THEN NavSynonyms[t[s]]
  ELSE IF Len(t) = 1 /\ t[1] \in DOMAIN NavParts THEN Route(NavParts[t[1]])
  ELSE None

To(path) == [Plain("navigate") EXCEPT !.path = path]

\* A destination after a verb of navigation; one that is not known is refused.
Destination(path) == IF path = None THEN Plain("unknown_destination") ELSE To(path)
Navigation(t) ==
  LET v == SelectInSeq(NavVerbs, LAMBDA p : IsPrefix(p, t)) IN
  IF v = 0 THEN Nothing ELSE Destination(Resolve(Drop(t, Len(NavVerbs[v]))))

\* A destination by itself, in a sentence that does not lead with another verb.
NonNavLeadingVerbs == {"read", "reply", "approve", "send", "regenerate", "edit", "schedule",
                       "summarize", "tell"}
Known(path) == IF path = None THEN Nothing ELSE To(path)
BareDestination(t) == IF t[1] \in NonNavLeadingVerbs THEN Nothing ELSE Known(Resolve(t))

-----------------------------------------------------------------------------
(* Edits of the wording *)

FieldWords == [w \in {"body", "message", "content", "text"} |-> "body"]
           @@ [w \in {"subject", "title"} |-> "subject"]
           @@ [w \in {"recipient", "recipients", "address", "to"} |-> "to"]
Nouns == {"reply", "email", "approval", "message"}
ClauseOrdinals == ToSet(Units) \cup {"tenth", "1st", "2nd", "3rd"}
IsOrdinal(w) == w \in ClauseOrdinals \/ IsNumeral(w)

\* _clean_operand: "the word ..." and the like.
CleanOperand(t) ==
  IF Len(t) > 2 /\ t[1] = "the" /\ t[2] \in {"words", "word", "phrase", "text", "line"}
  THEN Drop(t, 2) ELSE t

\* "in the body ...": the field it names, and what follows.
Scope(t) ==
  IF Len(t) >= 3 /\ t[1] \in {"in", "on", "within", "inside"} /\ t[2] = "the"
       /\ t[3] \in DOMAIN FieldWords
  THEN [field |-> FieldWords[t[3]],
        rest |-> IF Len(t) > 4 /\ t[4] \in {"and", "then"} THEN Drop(t, 4) ELSE Drop(t, 3)]
  ELSE [field |-> None, rest |-> t]

\* "for the first reply ...", then "of the reply ...", are dropped.
Article(t, i) == IF i <= Len(t) /\ t[i] = "the" THEN i + 1 ELSE i
WithoutClause(t) ==
  LET i == Article(t, 2)
      u == IF Leads(t, {<<"for">>, <<"in">>, <<"on">>, <<"of">>}) /\ Len(t) > i
                /\ IsOrdinal(t[i]) /\ t[i + 1] \in Nouns
           THEN Drop(t, i + 1) ELSE t
      j == Article(u, 2) IN
  IF Leads(u, {<<"of">>}) /\ Len(u) >= j /\ u[j] \in Nouns THEN Drop(u, j) ELSE u

\* "... of the first reply", at the end of an operand.
IsClause(t) ==
  LET r == IF t # <<>> /\ t[1] = "the" THEN Tail(t) ELSE t IN
  /\ Len(r) \in 1..3
  /\ IsOrdinal(r[1]) \/ r[1] \in Nouns
  /\ Len(r) = 2 => r[2] \in Nouns \/ IsOrdinal(r[2])
  /\ Len(r) = 3 => r[2] \in Nouns /\ IsOrdinal(r[3])
WithoutTrailingClause(t) ==
  LET ends == {i \in 2..Len(t) : t[i] = "of" /\ IsClause(Drop(t, i))} IN
  IF ends = {} THEN t ELSE SubSeq(t, 1, (CHOOSE i \in ends : \A j \in ends : i <= j) - 1)

\* "the subject", "the to field": nothing but a field.
NamesField(t) ==
  LET r == IF t # <<>> /\ t[1] = "the" THEN Tail(t) ELSE t IN
  Len(r) \in 1..2 /\ r[1] \in DOMAIN FieldWords /\ (Len(r) = 2 => r[2] = "field")

\* _is_field_or_position_operand
IsFieldOrPosition(t) ==
  \/ Words(t) \cap (DOMAIN FieldWords \cup Nouns \cup {"replies", "emails", "approvals"}) # {}
  \/ Position(t) # 0

\* One of the verbs, an operand, the first connector after it, and another operand.
Cuts(t, verbs, connectors) ==
  {c \in (1..Len(t)) \X (1..Len(t)) : /\ t[c[1]] \in verbs /\ t[c[2]] \in connectors
                                     /\ c[1] + 2 <= c[2] /\ c[2] < Len(t)}
CutAt(t, c) == [search |-> CleanOperand(SubSeq(t, c[1] + 1, c[2] - 1)),
                repl |-> CleanOperand(Drop(t, c[2]))]
FirstCut(t, cuts) ==
  IF cuts = {} THEN None
  ELSE CutAt(t, CHOOSE d \in cuts :
                  \A e \in cuts : d[1] < e[1] \/ (d[1] = e[1] /\ d[2] <= e[2]))
Parts(t, verbs, connectors) == FirstCut(t, Cuts(t, verbs, connectors))

\* "replace X with Y" before "swap X for Y" before "change X to Y".
Operands(t) ==
  Else(Parts(t, {"replace", "change", "swap"}, {"with"}),
       Else(Parts(t, {"swap", "change"}, {"for"}),
            Parts(t, {"change", "correct", "fix", "set", "make", "update", "rename"}, {"to"})))

\* What is to be replaced, when the utterance stops before the replacement.
SearchVerbs == {"change", "correct", "fix", "replace", "swap"}
Operand(words) == IF words # <<>> /\ ~IsFieldOrPosition(words) THEN words ELSE <<>>
OrWords(a, b) == IF a # <<>> THEN a ELSE b
Opened(t) ==
  IF Len(t) >= 3 /\ t[Len(t)] \in {"to", "with", "into", "for"}
       /\ t[1] \in SearchVerbs \cup {"set", "make", "update", "rename"}
  THEN CleanOperand(SubSeq(t, 2, Len(t) - 1)) ELSE <<>>
Searched(t) == IF Len(t) >= 2 /\ t[1] \in SearchVerbs THEN CleanOperand(Tail(t)) ELSE <<>>
Unfinished(t) == OrWords(Operand(Opened(t)), Operand(Searched(t)))

\* An edit in one turn: all of a field, or some of its words.
SetField(text, field, core, repl) ==
  [Plain("set_field_position") EXCEPT !.pos = Position(text), !.repl = repl,
     !.field = IF field # None THEN field
               ELSE FieldWords[core[FirstIn(core, DOMAIN FieldWords)]]]
ReplaceWords(text, field, o) ==
  [Plain("replace_in_field_position") EXCEPT !.pos = Position(text), !.field = field,
     !.search = o.search, !.repl = o.repl]
EditOf(text, field, o, core) ==
  IF NamesField(core) THEN SetField(text, field, core, o.repl) ELSE ReplaceWords(text, field, o)
Edit(text, field, o) ==
  IF o = None THEN Nothing ELSE EditOf(text, field, o, WithoutTrailingClause(o.search))

\* And the first turn of two.
EditBegun(text, field, search) ==
  IF search = <<>> THEN Nothing
  ELSE [Plain("edit_search_pending") EXCEPT !.pos = Position(text), !.field = field,
          !.search = search]

\* _classify_replace_action
ReplaceIn(text, field, t) ==
  Or(Edit(text, field, Operands(t)), EditBegun(text, field, Unfinished(t)))
ReplaceScoped(text, scope) == ReplaceIn(text, scope.field, WithoutClause(scope.rest))
ReplaceAction(text) == ReplaceScoped(text, Scope(text))

\* "to" is taken off the front of a word, too.
Bitten == ("tomorrow" :> "morrow") @@ ("today" :> "day") @@ ("tonight" :> "night")
WithoutConnector(t, connectors) ==
  IF t[1] \in connectors THEN IF Len(t) > 1 THEN Tail(t) ELSE t
  ELSE IF t[1] \in DOMAIN Bitten THEN <<Bitten[t[1]]>> \o Tail(t) ELSE t

\* _classify_replacement_continuation: "change it to Y", "to Y".
Continuation(t) ==
  LET it == Len(t) > 2 /\ Leads(t, {<<v, "it">> : v \in {"change", "make", "set", "replace"}})
      y == IF it THEN WithoutConnector(Drop(t, 2), {"to", "with", "into", "for"}) ELSE Tail(t) IN
  IF it \/ (Len(t) > 1 /\ t[1] \in {"to", "with", "into"})
  THEN [Plain("edit_replacement") EXCEPT !.repl = CleanOperand(y)]
  ELSE Nothing

\* _split_edit_continuation: more of the search before the last connector, or
\* nothing but the replacement, after some words that are skipped.
Fillers == << <<"um">>, <<"uh">>, <<"er">>, <<"well">>, <<"okay">>, <<"ok">>, <<"so">>,
              <<"make", "it">>, <<"set", "it", "to">>, <<"change", "it", "to">>, <<"to">>,
              <<"it", "to">>, <<"with">>, <<"it", "should", "be">>, <<"should", "be">>,
              <<"the", "replacement", "is">>, <<"use">> >>
WithoutFiller(t) ==
  LET f == SelectInSeq(Fillers, LAMBDA p : IsStrictPrefix(p, t)) IN
  IF f = 0 THEN t ELSE Drop(t, Len(Fillers[f]))
SplitContinuation(t) ==
  LET cut == SelectLastInSubSeq(t, 2, Len(t) - 1, LAMBDA w : w \in {"to", "with", "into"}) IN
  IF cut # 0 THEN [search |-> SubSeq(t, 1, cut - 1), repl |-> Drop(t, cut)]
  ELSE [search |-> <<>>, repl |-> WithoutFiller(t)]

\* Variant: the search of the first turn is given up for that of the second.
ExtendAnew(search, c) ==
  [search |-> IF c.search = <<>> THEN search ELSE c.search, repl |-> c.repl]

\* The edit, when the rest of it is spoken in a second turn.
Extend(search, c) == [search |-> search \o c.search, repl |-> c.repl]

CompleteEdit(search, t) == Extend(search, SplitContinuation(t))

-----------------------------------------------------------------------------
(* Actions on one reply *)

\* _classify_reschedule
TimeNouns == {<<"schedule">>, <<"scheduled", "time">>, <<"send", "time">>, <<"time">>, <<"date">>}
NewTime(t) ==
  LET i == Article(t, 2)
      heads == {n \o c : n \in TimeNouns, c \in {<<"to">>, <<"for">>, <<"back", "to">>}}
      head == {h \in heads : IsStrictPrefix(h, Rest(t, i))}
      r == Tail(t)
      named == Len(r) > 3 /\ r[1] = "the" /\ r[3] = "reply"
      body == IF Len(r) > 1 /\ r[1] = "it" THEN Tail(r) ELSE IF named THEN Drop(r, 3) ELSE r IN
  IF t[1] \in {"change", "set", "update", "make", "move", "push"} /\ head # {}
  THEN Drop(t, i - 1 + Len(CHOOSE h \in head : TRUE))
  ELSE IF t[1] = "reschedule" /\ Len(t) > 1
  THEN WithoutConnector(body, {"to", "for"})
  ELSE <<>>
MoveTo(when) ==
  IF when = <<>> THEN Nothing
  ELSE [Plain("reschedule_position") EXCEPT !.when = ParseSpoken(when)]
Reschedule(t) == MoveTo(NewTime(t))

On(kind, t) == [Plain(kind) EXCEPT !.pos = At(t)]
Has(t, S) == Words(t) \cap S # {}

\* Rejecting, scheduling, saving to drafts and sending, in this order.
RejectVerbs == {"reject", "decline", "discard", "dismiss", "trash"}
Starting(t, prefix) == t[1] \in {prefix, prefix \o "d", prefix \o "ing"}

Resolution(t) ==
  IF t[1] \in RejectVerbs THEN On("reject_position", t)
  ELSE IF Has(t, {"schedule"}) /\ (Has(t, {"approve", "it", "reply", "this"}) \/ Starting(t, "schedule"))
  THEN [On("approve_schedule_position", t) EXCEPT !.when = ParseSpoken(t)]
  ELSE IF Has(t, {"draft", "drafts"}) /\ Has(t, {"approve", "send", "save"})
  THEN On("approve_draft_position", t)
  ELSE IF Has(t, {"send"}) /\ (Has(t, {"approve", "it", "reply"}) \/ Starting(t, "send"))
  THEN On("approve_send_position", t)
  ELSE Nothing

\* The field an edit is about, and editing or writing it anew.
EditVerbs == {"edit", "change", "modify", "update", "focus"}
FieldSaid(t) ==
  IF Has(t, {"subject"}) THEN "subject"
  ELSE IF Has(t, {"body", "message", "content"}) THEN "body"
  ELSE IF Has(t, {"recipient", "recipients", "address"}) THEN "to"
  ELSE IF Has(t, {"to"}) /\ Has(t, EditVerbs)
            /\ (Has(t, {"field"}) \/ Follows(t, "the", {"to"} \cup DOMAIN Bitten))
  THEN "to" ELSE None
Anew(t) == Has(t, {"regenerate", "generate", "rewrite"})
           \/ (Has(t, {"write"}) /\ Has(t, {"again", "new"}))
Editing(t) ==
  LET field == FieldSaid(t) IN
  IF field = "body" /\ (Anew(t) \/ Has(t, {"rephrase"}))
  THEN [On("regenerate_body_position", t) EXCEPT !.field = "body"]
  ELSE IF field # None /\ Has(t, EditVerbs)
  THEN [On("focus_field_position", t) EXCEPT !.field = field]
  ELSE IF Anew(t) THEN On("regenerate_position", t)
  ELSE IF Has(t, {"edit", "modify"})
            \/ (Has(t, {"change"}) /\ (Has(t, {"reply", "email"}) \/ Position(t) # 0))
  THEN On("edit_position", t)
  ELSE Nothing

\* "reply to the first" reads it; "read the reply", unless several are meant.
Reading(t) ==
  LET replyTo == t = <<"reply">> \/ Leads(t, {<<"reply", w>> : w \in {"to"} \cup DOMAIN Bitten})
      one == Follows(t, "the", {"reply", "email", "emails", "approval", "approvals", "message", "messages"})
             /\ ~Has(t, {"my", "unread", "pending", "emails", "approvals", "replies"}) IN
  IF \/ replyTo /\ Position(t) # 0
     \/ ~replyTo /\ Starting(t, "read") /\ (Position(t) # 0 \/ one)
  THEN On("read_position", t) ELSE Nothing

\* _classify_fragmented_search
Fragment(words) ==
  IF words = <<>> \/ Has(words, ClauseOrdinals) THEN Nothing
  ELSE [Plain("edit_search_pending") EXCEPT !.search = words]
FragmentedSearch(t) == Fragment(Operand(Searched(t)))

\* Variant: an edit of the wording is looked for after the resolutions.
PositionActionLateEdit(t) ==
  Or(Reschedule(t), Or(Resolution(t), Or(ReplaceAction(t), Or(Editing(t), Or(Reading(t), FragmentedSearch(t))))))

\* _classify_position_action
PositionAction(t) ==
  Or(Reschedule(t), Or(ReplaceAction(t), Or(Resolution(t), Or(Editing(t), Or(Reading(t), FragmentedSearch(t))))))

-----------------------------------------------------------------------------
(* classify *)

ClassifyWords(t) ==
  IF t \in HelpPhrases THEN Plain("help")
  ELSE IF IsClearAll(t) THEN Plain("clear_all_pending")
  ELSE IF IsCancel(t) THEN Plain("cancel")
  ELSE Or(ListRequest(t), Or(Navigation(t), Or(Continuation(t), Or(PositionAction(t), BareDestination(t)))))

Classify(text) == IF text = <<>> THEN Nothing ELSE ClassifyWords(Normalize(text))

-----------------------------------------------------------------------------
Init ==
  /\ scene \in Scenes
  /\ now = scene.now
  /\ said = <<>>
  /\ intent = Nothing

\* One more word is heard.
Speak(w) ==
  /\ Len(said) < scene.length
  /\ said' = Append(said, w)
  /\ intent' = Classify(said')
  /\ UNCHANGED <<now, scene>>

Next == \E w \in scene.words : Speak(w)

Spec == Init /\ [][Next]_vars

-----------------------------------------------------------------------------
(* Correctness *)

ResolvingKinds == {"reject_position", "approve_schedule_position", "approve_draft_position",
                   "approve_send_position", "clear_all_pending"}

\* Wording is never taken for an order: an utterance of the form "change X to Y"
\* does not approve, send, schedule or reject a reply, whatever X and Y say ("so
\* a spoken wording edit is performed server-side instead of falling through").
\* The one way it still rejects, and then every reply, is a verb of clearing
\* together with a word that holds "all" or "every": clearing is tried before.
WordingIsNoOrder ==
  /\ Len(said) > 3 /\ said[1] = "change" /\ "to" \in Words(SubSeq(said, 3, Len(said) - 1))
  /\ intent.kind \in ResolvingKinds
  => /\ intent.kind = "clear_all_pending"
     /\ Words(Normalize(said)) \cap ClearVerbs # {}
     /\ Words(Normalize(said)) \cap HoldsAll # {}

\* An edit with one verb and one connector, spoken in two turns, is the edit that
\* is spoken in one (edit_search_pending, then edit_replacement or a bare phrase): the user may
\* stop anywhere but before a "for", which the second turn does not cut at, or
\* around "the word", which is dropped in one turn only.  A replacement that is
\* all of the second turn loses the filler it begins with.
Connectors == {"to", "with", "into", "for"}
EditOfTurns(a, b, rest) ==
  IF a.kind # "edit_search_pending" \/ b.kind \notin {None, "edit_replacement"} THEN None
  ELSE IF b.kind = None THEN CompleteEdit(a.search, rest)
  ELSE [search |-> a.search, repl |-> b.repl]
Stops(t) ==
  {i \in 1..(Len(t) - 1) :
    /\ "for" \notin Words(Drop(t, i))
    /\ \A k \in (i - 1)..(i + 1) : k \in 1..(Len(t) - 1)
         => ~(t[k] = "the" /\ t[k + 1] \in {"words", "word", "phrase", "text", "line"})}
TurnsMakeTheEdit ==
  /\ intent.kind = "replace_in_field_position"
  /\ \A S \in {Connectors, SearchVerbs \cup {"set", "make", "update", "rename"}} :
       \A i, j \in DOMAIN said : said[i] \in S /\ said[j] \in S => i = j
  => \A i \in Stops(said) :
       EditOfTurns(Classify(SubSeq(said, 1, i)), Classify(Drop(said, i)), Drop(said, i))
         \in {None, [search |-> intent.search,
                     repl |-> IF said[i] \in Connectors THEN WithoutFiller(intent.repl)
                              ELSE intent.repl]}

\* What is scheduled lies ahead: never on a day that has passed, and not earlier
\* today unless a day was named ("so 3pm never schedules into the past").
DayWords == ToSet(MonthNames) \cup ToSet(ShortMonths) \cup ToSet(WeekdayNames)
              \cup {"today", "tonight", "this"}
LiesAhead(r) ==
  r # None => /\ r.day >= Today
              /\ Words(said) \cap DayWords = {} => ~Before(r, Present)
ScheduleLiesAhead == LiesAhead(ParseSpoken(said))

\* The splitter finds the date and the time that the parser finds, where one day
\* is named and no bare number stands beside an hour in words ("so it stays in
\* agreement with parse_spoken_datetime").
DaysNamed == Cardinality({i \in DOMAIN said : said[i] \in DayWords \cup {"tomorrow"}})
BareNumber(c) == c # None /\ ~c.sure
TwoHours(rest) == BareNumber(DigitClock(rest)) /\ WordClock(rest) # None
Agree(t, p) ==
  p.date # None /\ p.time # None /\ DaysNamed = 1 /\ ~IsDuration(t) /\ ~TwoHours(WithoutDate(t))
    => Parse(t) = Moment(p.date, p.time)
PartsAgree == Agree(NormalizeTime(said), ScheduleParts(said))
=============================================================================
