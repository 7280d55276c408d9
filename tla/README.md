# A formal model of Atomic AI

Atomic AI lets agents read a team's mail and propose replies; a person approves
each one, in the browser or by voice. This directory holds TLA+ modules of the
parts of the backend that decide *whether something happens, once, to whom and
on whose word*: the approval hub, the Gmail intake, the agent run with its kill
switch, membership, login, the voice session with its classifier and its parser
of times, and the integrations with their authorization and webhooks. TLC
checks them on small instances, TLAPS proves the results that matter most for
every instance.

Paths are relative to the repository; unless they say otherwise, below
`backend/app/`. Every definition that models code is listed in `PROJECT.json`
under `map`, with the file and the lines it stands for.

To check a run: `tlc -config ApprovalHub.cfg MCApprovalHub` (module and
configuration of each run are in `PROJECT.json`). To check the proofs:
`tlapm ApprovalHub_proofs.tla`.

## 1. The system

Three kinds of process share one PostgreSQL database and one Redis: the API
servers (FastAPI: REST, WebSocket, webhooks, the voice gateway), the workers
(ARQ: agent runs and four crons) and the browsers. What makes the code hard is
common to nearly all of it:

* **Read, await, write.** Sessions are `AsyncSession(expire_on_commit=False,
  autoflush=False)` under READ COMMITTED. A handler reads its rows, awaits
  Gmail, an OAuth provider, Redis or another session, and commits later. No
  `SELECT .. FOR UPDATE`, no version column. Inside one session the identity map
  answers `session.get` from memory and a query keeps the values of the rows it
  meets again, so a second "read" of a row is the first, as long as the handler
  still refers to that row. Where it does not (`complete_authorize` after the code
  exchange) the row is read anew.
* **UPDATE by primary key, changed columns only.** What a commit overwrites is
  what differs from the value *read*, not what differs from the row. A row that
  is gone by then fails the whole transaction.
* **Two session scopes.** `session_scope()` commits on success,
  `get_session()` leaves the commit to the router. Code shared by both
  (`record_seen`) behaves differently in a worker and in a request.
* **At-least-once work.** ARQ runs a job again after its worker died. Crons
  may overlap their own previous run. Gmail may do what it was asked and the
  answer be lost.
* **Positions for identities.** By voice a reply is "the second one", and what
  that means is decided turn by turn against a queue others change.

### 1.1 Inventory

| Component | State | Operations | Hard behaviour | What makes it correct | Module |
|---|---|---|---|---|---|
| Approval hub (`services/approval_service.py`, `api/approvals.py`) | `approval_requests` (status, arguments with draft and schedule, reviewer), `processed_messages`, audit rows | propose (tool-call hook), approve, reject, edit, regenerate, schedule, draft or send through Gmail, clear the queue | two reviewers on one row; Gmail between check and commit; a lost answer | what leaves was chosen by the reviewer named; resolved once, audited; nothing reopens | `ApprovalHub` |
| Scheduled-send cron (`agents/tasks.py`) | one session with copies of the due rows | load due rows, execute each | sweep overlaps reviewers and the next sweep; partial failure | due replies go out, with the draft that was scheduled | `ApprovalHub` |
| Gmail intake (`services/gmail_poll.py`, `agents/tasks.py`, `api/webhooks.py`) | Redis lock, `processed_messages`, job queue | poll, push, enqueue, run, duplicate check, persist | lock expiry; commit before enqueue; push never commits; job run twice | each message reaches a run, one run, one reply | `GmailIntake` |
| Agent engine, kill switch (`services/strands_engine.py`, `services/admin_service.py`) | `agent_sessions` rows, worker processes, pending requests | run, propose, finish, kill, sweep of stale sessions | kill overlaps the live run and reviewers; orphaned rows | a killed session does nothing more; no session runs for ever | `AgentRun` |
| Workspaces, members, invites, super admins (`services/workspace_service.py`, `services/admin_service.py`) | users, workspaces, members, invites | create, delete, invite, accept, change role, reassign owner, promote, demote, delete account | guards on counts and roles read before the commit | keys consistent, a super admin remains, invites used once | `Membership` |
| Login and sessions (`services/auth_service.py`, `core/security.py`, `api/deps.py`) | flow entries in Redis, `users`, `sessions` | start and finish OAuth, log out, expire, ban, delete account | flow entry read and deleted in two calls; ban against a login in flight; two first logins | the session is the account's the provider vouched for; a logout, a ban hold | `AuthSession` |
| Voice session (`services/voice_gateway.py`, `services/voice_tools.py`, `api/voice.py`) | cached queue, buffered edit and schedule, last reply edited, connection attempts | speak, list, read out, edit, schedule, tool calls, reconnect | positions against a queue that changed; halves of a schedule; field read and written in two sessions | the action hits the reply that was meant | `VoiceSession` |
| Voice intents (`services/voice_intent.py`, `services/voice_datetime.py`, `services/voice_tools.py`) | none | classify, split an edit, parse dates and times | precedence of dozens of rules; boundaries of days, months, years | wording is never an order; what is scheduled lies ahead | `VoiceIntent`, `VoiceTime` |
| Integration vault and OAuth (`services/integration_vault.py`, `services/integration_oauth.py`, `services/oauth_refresh.py`) | `integrations` (credentials, config, status, sharing), flow entries | connect, authorize, share, disconnect | credentials read before the code exchange and written after it beside a config read anew; lookup and insert apart | tokens fit their client, newest credentials kept, a toggle stays | `IntegrationVault` |
| Webhook subscriptions (`services/webhook_subscriptions.py`, `services/webhook_registration.py`, cron) | the `config` column | register, answer a handshake, renew | provider told before the commit, and calling back; renewal writes a config read at the start of its sweep | a registered webhook told to send our secret is heard | `IntegrationVault` |
| Webhook receipt (`api/webhooks.py`, `services/webhook_verify.py`) | none | verify, enqueue | secret in the URL, secret that signs, one key of the config for both | a webhook told to send our secret is accepted | `IntegrationVault`, Gmail's in `GmailIntake` |
| Approvals feed (`api/ws.py`, `frontend/src/lib/use-approvals-socket.ts`) | connections with the role at connect time, cached list in the browser | connect, broadcast, reconnect, refetch | role cached; broadcast over a snapshot | a connected reviewer's list converges to the table | none yet, see 6 |
| SMS cap (`services/sns_service.py`, `services/approval_service.py`) | SMS ledger | read spend, send, record | check and record in separate transactions | overspend bounded by the senders at work | none yet, see 6 |
| Rules, registry, capabilities, tenancy (`services/rules_service.py`, `services/mcp_registry.py`, `core/rbac.py`) | rows edited one at a time | evaluate, toggle | none concurrent | decisions match a reference definition | none |
| Middleware (`core/middleware.py`) | fixed-window counters in Redis | count, refuse | increment and expiry are two calls | a window ends | none |
| Provider calls, encryption, scrubbing | none | request, encrypt | outcomes only | | no: I/O and cryptography |
| Profile, usage, analytics | none of their own | read | | | no: read-only |
| Web client (`frontend/`) | React state | | | | no |
| Migrations, seed, configuration | schema | once | | | no: their constraints are used |

### 1.2 How the components meet

```
 Gmail --push--> webhook \                                     reviewers (REST)    voice session
                          >- lock -> list -> filter -> record      |            (positions -> ids)
 cron ---------> poll    /            |                            v                  |
                                   job queue -> agent run -> hook -> approval_requests <+
                                                 ^   |                 |        ^
 super admin --kill------------------------------+   +-- pending ------+        |
 cron ---------sweep of stale sessions-------^         processed_messages   scheduled-send cron
                                                              ^                 |
                                                              +--- Gmail <------+
                                                                     ^
 user --connect, authorize--> integrations <--renewal cron           | tokens
                                   ^   +-----------------------------+
 login, ban --> users, sessions    +-- webhook secrets <--> provider
 invite, reassign, promote --> workspaces, members
```

The hub and the intake share `processed_messages`: an answered message is not
handed to a run again. The run and the hub share `approval_requests`: a kill
rejects what it finds pending. The voice session and the hub share them too: it
works on the rows through the same service as the REST handlers. Each module
contains the other side of the table it shares as far as its properties need
it: `GmailIntake` has one `Answer` action for the hub, `AgentRun` a short form
of the reviewers' handlers, `VoiceSession` the actions of `Others`. Accounts are
shared by `Membership` (who is in which workspace) and `AuthSession` (who is
logged in): both delete them.

## 2. How the modules are written

*Steps.* A handler is split exactly where the code lets others in: at its
awaits on a provider or Redis and between its reads and its commit. What a commit
writes is one step. The part in between is a record of a variable: `flight`
(hub), `pass` and `job` (intake), `op` (runs, membership, login, vault), `turn`
(voice). It holds what the handler read, because the identity map keeps the
handler from seeing more.

*Failures.* `Abort` is a handler whose transaction is rolled back: the process
died, the client went away, a constraint failed, the database refused. What
another system already did (a mail that was sent, a webhook that was registered)
stays done.

*Data.* Drafts, users, messages and workspaces are model values. Gmail messages
and replies are numbers, because their order matters. Words are strings only in
`VoiceIntent` and `VoiceTime`, where the words are the input.

*History variables* (`decided`, `handed`, `late`, `sent`, `joined`, `consumed`,
`latest`, `aim`, `heard`, `said`) are read by properties, never by a guard.

*How far a promise holds.* Some docstrings promise what the code keeps only as
long as handlers do not overlap. These modules have a history variable
`overlapped` (`crossed` in `AgentRun`, where a kill of a live run counts too)
that turns true when a handler begins while another is at work. The property
then says: the promise, or `overlapped`. So one run has the handlers that overlap
and those that do not, and one theorem without assumptions says that overlap is
the only way the promise fails. Where such a failure has consequences a
reader should see, a run of its own shows the counterexample (4.3).

*Variants.* A definition whose comment starts with "Variant" is the definition
that follows it with a plausible defect: a forgotten guard, a swapped order, a
missing commit. No specification uses it. `PROJECT.json` names for each
property the variant that breaks it; with the variant in place of the original
TLC finds a violation, so the property does depend on that code.

*Types.* Each state machine has one type invariant, `TypeOK`. It is proved
(`TypeCorrect`), so the runs check the other properties only. `VoiceIntent`
has none: its one variable beside the words heard is what `Classify` returns.

## 3. The modules

### ApprovalHub, ApprovalLifecycle

| Variable | Code |
|---|---|
| `row[r]` | the `approval_requests` row: status, arguments (draft, `scheduled_at`, `scheduled_by`), reviewer |
| `flight` | handlers between first read and commit; for a sweep one record per due row it loaded |
| `seen` | `processed_messages` for the request's source message |
| `mail`, `sends` | what Gmail accepted (external) |
| `audit` | `system_audit_logs` |
| `decided` | history: which draft which reviewer had in front of them when they drafted, sent or scheduled |
| `clock`, `calls` | the cron's minute; bound on API calls |

`Begin..` actions are the part of a handler up to its first await after the
guards, `Commit..` its transaction. `execute_and_approve_request` is
`BeginExecute`, then one of `GmailAccepts`, `GmailRefuses`, `GmailAnswerLost`,
then `CommitResolve`. `send_scheduled_replies` loads all due rows
(`SweepLoad`), then takes them one by one through the same Gmail and commit
steps with the copies it loaded (`SweepNext`). `edit_request` and
`regenerate_request` are one action: both replace the arguments by rebuilt ones
without schedule; what the model writes is any draft.

`ApprovalLifecycle` is the documented promise: proposed once, resolved once, the
reviewer fixed from then on. `ResolvedOnce` is its specification under the
refinement mapping that takes status and reviewer of each row, up to the first
overlap.

| Property | Says |
|---|---|
| `SentDraftWasChosen` | whatever reaches Gmail carries a draft its reviewer chose, through edits, schedules, sweeps and overlaps |
| `ResolutionIsAudited` | the resolution a row ends with has its audit row, naming that reviewer |
| `SeenOnlyAfterReply` | a message is recorded as answered only after Gmail took a reply |
| `ResolvedNeverReopens` | no late edit or schedule brings a resolved row back |
| `DueIsHandled` | a due reply does not stay due (liveness) |
| `ResolvedOnce` | without overlap the hub implements `ApprovalLifecycle` |
| `NoMailUnlessOverlapped` | it takes an overlap to mail a reply for a resolved request |

Observed while modelling: a schedule that commits late writes back arguments
read before another reviewer's edit, and may leave a row that is due but has no
draft; `DueIsHandled` counts it as handled, because every sweep skips it.

### GmailIntake, IntakeLedger

| Variable | Code |
|---|---|
| `arrived`, `unread` | the mailbox (external) |
| `lock` | the Redis key of `_integration_poll_lock` |
| `pass[p]` | a trip of `poll_integrations` or a call of `_handle_gmail_push`: where it is, whether it owns the lock, the ids it works on |
| `seen` | committed `processed_messages` |
| `job[j]` | an agent run in the queue or at work: ids, those not looked at yet, the one between duplicate check and insert |
| `replies`, `answered` | reply requests per message; messages answered by a reviewer |
| `handed`, `faults` | history; bound on failed enqueues and crashes |

A pass is `Lock`, `List`, `Filter`, `Record`, `Enqueue`, `Unlock`, `Close`. The
difference between the two kinds of pass is in `Record`: the poll's
`session_scope` commits, the push runs in the request's `get_session`, which
nobody commits, so its rows hold other inserts back (`Uncommitted`) and then
vanish. `Unlock` deletes the key whatever value it has. `LockExpires` lets the
TTL pass under a working holder, the holder die, and Redis fail (the lock then
fails open).

`IntakeLedger` is what the intake promises about a message, without passes, locks,
jobs and workers: a poll hands over what is on record and was not handed over by a
poll before, a push as often as Gmail calls, replies stay behind the runs that were
given the message, an answer goes on record. `Ledger` maps the rows and the
counters to it. Where the intake is in the middle of a pass or of a run the ledger
stands still, so a defect shows as a step the ledger does not have. That polls hand a
message to one run only (`PollHandsOnce`) and that a message handed over once gets
one reply (`OneReplyPerHandling`) follow from it; both are also theorems of their own.

| Property | Says |
|---|---|
| `OnePassAtATime` | while no lock is lost, passes exclude each other |
| `PolledIsRecorded` | what a polled run works on is recorded: nobody else lists it as new |
| `LossIsBounded` | what is recorded and then forgotten (in no run, unanswered, not about to be enqueued) is at most one run's ids per failed enqueue or crash |
| `KeepsLedger` | while no lock is lost, the intake implements `IntakeLedger`; so a run started again after a crash does not reply twice |
| `UnreadIsHanded` | each unread message reaches a run or gets read (liveness) |

Observed: `poll_integrations` commits the record before it enqueues, so an enqueue
that fails, or a worker that dies in between, leaves messages that are on record and
in no run, and nothing looks for them again. `LossIsBounded` counts them; lost locks
and overlapping passes add none.

### AgentRun, RunLifecycle

`status[s]` is the `agent_sessions` row and `proc[s]` the process that executes
the run; the two disagree after a crash, and after the errors between the
commit of the running row and the `try` block (`SetupFails`). `req[r]` are the
approval requests, `op[o]` a kill, a sweep or a review between reads and
commit, `old` the sessions past `STALE_SESSION_AFTER_MINUTES`.

`RunLifecycle` is what the handlers mean to do: each is one step that reads and
writes at once. A kill ends a running session and rejects all that is pending of
it, a session ends once, a request is mailed while it is pending and resolved once.
A review is one of three handlers: execute (mail, then approved), approve (approved
with nothing mailed) and reject. `AgentRun` takes these steps at the
commits and when Gmail answers; its other steps leave the lifecycle as it is. That
it implements the lifecycle until handlers cross (`crossed`) says that the gap
between reads and commit is harmless exactly that long.

| Property | Says |
|---|---|
| `KilledPendingIsLate` | a request of a killed session is open only if it was proposed after the kill had read them |
| `TerminationIsExplained` | a terminated session has the super admin's audit row or reached the sweep's age |
| `RunningEnds` | no row stays running for ever (liveness) |
| `KilledOrphansNeverProceed` | nothing of a killed session is sent, as long as kills meet dead runs and no other handler |
| `HandlersAreAtomic` | until then `AgentRun` implements `RunLifecycle`; so a session ends once (`EndIsFinal`, also a theorem of its own) |

### Membership, Directory

`users`, `admins`, `creator[w]`, `role[w][u]` and `invite[i]` are the tables.
`op[o]` is a handler with what it read. A commit is refused where PostgreSQL
refuses it: a second member row for a user, a member of a workspace or an
account that is gone, an account that created a live workspace, an update that
finds no row (an invite's went with its workspace). `CommitReassign` writes only the rows whose role differs from the
role *read*, which is what SQLAlchemy does.

`Directory` has each handler in one step, which checks and writes at once: whoever
acts has the authority at the moment the rows change, and the rows are what the
guards said of them. Its variables are the tables, so the mapping is the identity
and the commits are its steps. An accepted invite is one user's, a reassignment
leaves one Owner (`ReassignMakesOneOwner`, also a theorem of its own), a demotion
or deletion leaves a super admin.

| Property | Says |
|---|---|
| `NoDanglingRows` | no workspace, membership or invite refers to an account or workspace that is gone |
| `JoiningChangesNoMember` | following an invite changes nobody's role, an Owner's neither |
| `SuperadminRemainsUnlessOverlapped` | a super admin remains |
| `InviteUsedOnce` | no two users join by one invite, without overlap |
| `HandlersAreAtomic` | without overlap `Membership` implements `Directory` |

Observed: two demotions or deletions that overlap each count two super admins
and leave none, although `_superadmin_count` is there "so the platform can never
be left without a super admin"; the guard that protects a workspace's last Owner
from deletion looks at who *created* the workspace, so a sole Owner by
reassignment can be deleted; the "expired" status that `accept_invite` writes is
rolled back with the 410 it raises.

### AuthSession, Accounts

| Variable | Code |
|---|---|
| `user[u]`, `created` | the `users` rows; ids are given once |
| `flow[f]` | the Redis entry of a state: absent, the provider, deleted or expired |
| `code[f]` | the address the provider's code stands for (external) |
| `sess[t]`, `issued`, `expired` | the `sessions` rows; tokens issued, tokens past `expires_at` |
| `audit` | `auth.login` rows |
| `loggedOut`, `consumed` | history: tokens whose logout was answered; callbacks that went on with a flow |
| `op[o]` | a callback, logout or ban in progress |

A callback is `ReadFlow`, `ConsumeFlow` (get and delete are two Redis calls),
`Exchange`, `FindUser` (or `Create`), `CommitLogin`. A ban is `BeginBan`,
`CommitBan`: it deletes the sessions the statement sees. A logout marks the row
it loaded. `Accepted` is what the session dependency looks at, and that is not
the ban.

`Accounts` has a login in one step: somebody began it at a provider, somebody
agreed there with an address, and that one agreement opens one session, of the
account the address has at that provider. `AuthSession` implements it with no
condition on overlap: two callbacks may both read a flow's entry, but the code is
redeemed once. `Promise` maps to `known` the entries in Redis together with those a
callback read, and to `open` the codes together with those a callback redeemed.

| Property | Says |
|---|---|
| `LoginMatchesAccount` | a login ends in an account of its provider, and there is one account per address, whichever callbacks overlap (the unique key on the address does it: the second insert fails) |
| `LoggedOutIsRefused` | a token whose logout was answered is never accepted again, around bans and deletions |
| `LoginsAreAtomic` | `AuthSession` implements `Accounts`, whatever overlaps (that a code is redeemed in the flow it was issued in is PKCE's doing at Google; at GitHub, whose URL carries no challenge, it is an assumption of the model: a browser brings back the code of its own flow) |
| `FlowUsedOnce` | a state is used by one callback, without overlap |
| `BannedIsLockedOut` | no token of a banned user is accepted, without overlap |

With overlap `FlowUsedOnce` and `BannedIsLockedOut` fail: two callbacks read one entry before either
deletes it (the provider's single-use code is what stops the second), and a
login that read the account before the ban commits its session after it. No
endpoint lifts a ban.

### VoiceSession

| Variable | Code |
|---|---|
| `status`, `text`, `scheduled` | the `approval_requests` rows, newest first in the queue |
| `phase`, `conn`, `attempts` | the endpoint, its stream to the model, failures so far |
| `lastEdit`, `replacing`, `scheduling` | `_last_edit_target`, `_pending_replace`, `_pending_schedule`: positions with what was said |
| `turn` | the turn being carried out: its kind, where its position came from, the id it resolved to |
| `aim`, `heard` | history: the reply at a remembered position, or read out under a number; 0 once the queue changes |
| `said` | history: the parts of the edit and of the schedule spoken since they began |

`Hear..` actions are turns up to the resolution of the position, `Act`,
`CompleteSchedule`, `ReadField` and `WriteField` the tool calls, each in a
transaction of its own; `Others` are the agents, reviewers and the cron between
them. `StreamFails`, `Reconnect`, `AudioUnsent`, `ClientLeaves` and `Stop` are
the connection: a stream failure between turns is retried `MaxReconnects` times,
audio sent meanwhile ends the session, and the buffers survive the reconnect.

| Property | Says |
|---|---|
| `FollowUpStays` | a turn that names no position acts on the reply opened, searched or scheduled before, while the queue has not changed |
| `ActsOnWhatWasHeard` | a spoken position acts on the reply read out under that number, while the queue has not changed |
| `FragmentsBelongTogether` | a schedule is carried out with a date and a time of the same attempt, an edit with a search; nothing after a cancel |
| `ResolvedStays` | no turn changes a resolved reply, though a field is read in one session and written in another |

The condition "while the queue has not changed" is needed: memory between turns
is a position, and when another reviewer resolves a reply the position means the
next one. That follows from the design; a
session that kept ids would not need it. `_handle_position_intent` does not look
at what the tool answered (`Act`): the model is told "ALREADY completed" also
when the service refused.

### VoiceIntent, VoiceTime

`Classify` is `classify_intent` with its order of precedence: the first rule
that matches decides. Positions, fields, edits ("change X to Y", in one turn or
two), reschedules and navigation are operators on sequences of words; `VoiceTime`
is `parse_spoken_datetime` with its days, months, weekdays, clock times and
durations, and `ScheduleParts` the splitter of `voice_gateway`. The state machine
says one word after the other, so each run visits every utterance over a
vocabulary up to a length, and an utterance is checked with all its prefixes.
The operators were compared with the Python functions on some 33,000 random
utterances, without a difference.

| Property | Says |
|---|---|
| `WordingIsNoOrder` | "change X to Y" never approves, sends, schedules or rejects, whatever X and Y say, but for clearing the queue: that takes a verb of clearing together with a word that holds "all" or "every" |
| `TurnsMakeTheEdit` | an edit with one verb and one connector, spoken in two turns, is the edit spoken in one, unless the user stops before a "for" or around "the word"; a replacement that is all of the second turn loses the filler it begins with |
| `ScheduleLiesAhead` | nothing is scheduled into the past |
| `PartsAgree` | splitter and parser find the same date and time, where one day is named and no bare number stands beside an hour in words |

Both exceptions of `PartsAgree` were found by TLC, and both contradict the comment
on the splitter ("so it stays in agreement with `parse_spoken_datetime`",
`voice_gateway.py:243`). "this friday at five pm": the parser takes "this" for
today, the splitter finds Friday. "tomorrow at 7 and one pm": the parser takes
the bare number, the splitter, for which a bare number is no hour, the word. So a
schedule spoken in two turns can be carried out at another time than the same
words spoken in one.

Observed, all within what the code says of itself but hardly what a speaker
means: "change reject all to hi" clears the queue, because clearing is tried before
edits (`classify`, rule 1a); an edit that is completed in a second turn loses a
leading "um" that it keeps in one turn, and "for" connects the two parts in one turn
but not in two (`SplitContinuation`); "this friday" is today; "october fourteenth at 5 pm" is October 5 at nine;
"schedule the second reply for may third" is May 2; "schedule it in 2 hours" and
"schedule it 5:30" are taken for replies 2 and 5; "reject the small one" clears
everything ("small" contains "all"); "change the send time of the reply"
sends it; "reschedule tomorrow" is not heard as a reschedule to tomorrow.

### IntegrationVault, Connection

| Variable | Code |
|---|---|
| `kind` | how the provider is registered, see below |
| `row[r]` | the `integrations` row: credentials (client, refresh token, access token entered, decryptable), config (client, authorized, secret, registered), status, sharing |
| `lock[r]` | the transaction that has flushed a change of the row |
| `used`, `entered`, `made` | ids, clients and webhook secrets given out |
| `flow[f]`, `code[f]` | the Redis entry of an authorization; the client the code was issued to |
| `hooks` | webhooks the provider has been made to call (external) |
| `op[o]`, `sweep` | a connect, callback or handshake; the renewal with its copies of the active rows |
| `latest` | history: what the last answered connect had entered |

Providers differ in what they are told and what they sign with (`Trigger`, `Told`,
`Call`). "watch" (Google Calendar and Drive), "graph" (Microsoft) and "ours" are
given a URL that ends in our secret and send or sign with it, or have nothing but
the URL to be known by (monday, whose challenge needs the row like Microsoft's
validation, is one of these, and its registration may fail). "pubsub" is Gmail: it is
told a topic, no URL and no secret, so nobody calls our URL, and still the config says
registered. "own" are LINE, Trello and Mailgun: they get the URL and sign with a key of
their own, which the user may have entered as the secret (`EnteredSecret`). "issued" are
Stripe, Zendesk and SendGrid, which answer with a secret of their own; "handshake" is
Asana; "poll" has nothing to register.

`Select` looks for the row by creator and provider, `Store` flushes (and takes
the row's lock), `Register` calls the provider, `Commit` writes what `Merge`
leaves of the row: the columns that differ from what was loaded. The renewal
loads all active rows once, flushes row by row and commits once. `Handshake` is
`receive_webhook` called by Asana while it is being asked to create the webhook;
Microsoft's validation call is the guard `Answers`. A callback is `ReadFlow`, `Load`
(the credentials, before the exchange), `Exchange`, `Reload` (config and sharing, read
anew after it, because nothing in the session refers any more to the row that was
loaded; a row that is gone is a 404), then `Select`, `Store`, `Commit`.

`Connection` is what a user sees of the integrations with one provider, without
locks, webhooks, secrets and copies: a connect leaves one integration with nothing of
what it replaces, an authorization adds the tokens of the client it was asked
for, once, and only while that client is still the one of the same integration. The
integration appears at the commit of the connect that entered it; an authorization
is pending while its flow entry, its code or the callback that redeems it is
there. A renewal may show an error of credentials that cannot be decrypted, and
nothing else.

| Property | Says |
|---|---|
| `TokensFitClient` | a refresh token was issued to the client stored beside it, whatever overlaps |
| `SharingSticks` | a callback, handshake or renewal that overlaps with a toggle of the sharing does not undo it |
| `OursAreHeard` | a config that says "registered" has a webhook whose deliveries are accepted, as long as the integration keeps its id, for the providers that send what `verify_webhook` compares: not "issued" (see 4.3), not Gmail (its push comes in elsewhere, see `GmailIntake`), and "own" only where that key was entered as the secret |
| `RowIsLatest` | without overlap: one row, with what the last connect entered, authorized only with a token |
| `HandlersAreAtomic` | without overlap `IntegrationVault` implements `Connection` |

Observed: LINE, Trello and Mailgun are shown as registered also where nobody entered
their key, and then every delivery is refused; a disconnect that a callback overlaps
after it has read the row anew (before that, the callback ends in a 404) brings the
integration back under a new id, whose webhook URL the provider was never told (the
reason for "keeps its id"); Microsoft's validation and Asana's handshake call back into a
row that is not committed or is locked, and only the time limit of the outer call
ends the wait; the "error" status of credentials that cannot be decrypted is
rolled back with the request that sets it (the renewal's commit keeps it); a row
deleted during a sweep breaks the session of the whole sweep; a toggle survives
an overlapping callback only because unchanged columns are not written; a
reconnect resets the sharing to the request's default.

## 4. Runs, bounds and fairness

| Run | Instance | Question | States |
|---|---|---|---|
| `approval_hub` | 2 requests (1 with a source message), 2 reviewers, 2 drafts, 2 handlers, 1 sweep, 2 calls, 1 minute, fairness | do handlers and the cron, overlapping, send what was chosen, once, and all that is due? | 174,482 |
| `approval_sweep_race` | 1 request, 1 reviewer, 1 handler, 1 sweep | counterexample to `NoMailOnceResolved` | 397 |
| `intake_safety` | 2 messages, 2 polls, 1 push, 1 job, 1 id per run, 1 fault, lock kept | does each message reach one run and get one reply, as the ledger says? | 1,732,763 |
| `intake_liveness` | 2 messages, 2 polls, 1 job, lock may expire or fail open, fairness | is every message handed over, even if passes overlap? | 665,772 |
| `agent_run` | 2 sessions, 1 request, 2 handlers, fairness | does a kill stop what it can, does every session end? | 436,820 |
| `agent_run_killed_proceeds` | 1 session, 1 request, 1 handler | counterexample to `KilledNeverProceeds` | 312 |
| `membership` | 3 users, all super admins at first, 1 workspace, 1 invite, 2 handlers | do keys, roles and the last super admin survive overlap, and is each handler one step without? | 2,000,733 |
| `auth_session` | 1 address, 2 providers, 3 account ids, 3 flows, 2 tokens, 2 handlers | whose session is it, is it gone after logout and ban, and is a login one step? | 368,201 |
| `voice_session` | 2 replies, 2 phrases, 1 field, 1 reconnect | does a turn hit the reply it meant? | 852,753 |
| `voice_intent` | 5 vocabularies of 7 to 14 words, utterances of up to 3 to 6 words, a leap day and the last minute of a year | are wording and times understood as promised? | 430,476 |
| `integration_vault` | 6 kinds of provider, 2 row ids, 2 clients, 1 flow, 2 handlers and the renewal, 2 transactions at once, 2 secrets | do columns written from stale reads stay consistent, and is each handler one step without overlap? | 1,956,178 |
| `issued_secret` | 1 row, 1 connect, a provider that issues its secret | counterexample to `RegisteredIsHeard` | 21 |

### 4.1 Why these bounds

*Hub.* Rows do not interact: a handler works on one row, and the only handlers
that span several (the sweep, the bulk clear) take them one after the other. So
what two requests add is the queue inside one sweep or one clear. Two handlers
and a sweep are three actors on one row; every hazard listed for the hub needs
two. `MaxCalls` bounds the API calls of a behaviour: a schedule and whatever
overlaps the sweep that sends it, or two overlapping resolutions. `MaxTime` is
one cron minute: a due time is either ahead or reached.

*Intake.* Two messages with a cap of one id per run force the rest of a listing
into a later pass. Two polls and a push compete for the lock in the safety run;
passes that overlap need a lost lock, so they are in the run where it may be
lost. One fault is one failed enqueue or one crash, and loses what one run was to
get; that two lose no more than two runs' ids is the theorem's.

*Runs.* A second session is what makes "the requests of the killed session"
different from "all requests". Two handlers are a kill and whatever overlaps it.

*Membership.* A reassignment needs the old owner, the new owner and a third
member; a demotion or deletion needs a second super admin, and the guards of
deletions a third account that acts. Every constraint of the schema is violated
by two rows.

*Login.* One address at two providers is where accounts can be confused, two
addresses do not meet. Three flows let two callbacks overlap after a first login
has come and gone; three ids let an account be deleted and the address come back
twice.

*Voice.* With two replies a position can slip by one, in either direction and by
proposal or resolution. Phrases are interchangeable; two suffice for a field to
be rewritten between read and write. The second reconnect does what the first
does.

*Intents.* Each rule of the classifier needs three to five words to fire. The
vocabularies hold the words of rules that compete: times with times, edits with
orders and with clearing the queue, orders with positions, and the rest; the fifth,
in utterances of six words, holds what a second turn may treat in another way than
the first ("for", "um", "the word"). The two moments are the ones where
"tomorrow", a weekday and a day of the month cross a boundary.

*Vault.* Two clients are a connect and the reconnect that replaces it; two ids an
integration that comes back under a new one; two transactions at once every pair
of connect, callback, handshake and renewal; two secrets what two connects make of a
provider that takes ours, or one of a provider that issues its own. Left out of the
instance, but not of the proofs: Microsoft's provider (a restriction of Google's: same
steps, one more guard), providers with nothing to register, tokens pasted at the
connect (a refresh token, or an access token that registers without one), and a
connect that asks for sharing. Not modelled apart: Zoho's watch, which is renewed like
Google's but takes its access token as it was entered. Not modelled: PayPal, whose
deliveries are checked by asking PayPal (`_paypal_postback_ok`), not by the secret.

Every safety property but `TurnsMakeTheEdit` is also proved for any number of
everything, or any words (section 5; of that one, `TurnsMeet` proves the general
part). Numbers of states are after symmetry, which is used only in runs without
a liveness property, and only among values that no property and no refinement
mapping tells apart.

`CHECK_DEADLOCK FALSE` is set everywhere: with all calls made, all messages
handled, all sessions ended, all words said or all identifiers used up, nothing
is left to do.

### 4.2 Fairness

* `SweepFairness` (hub). `send_scheduled_replies` runs every minute, so a sweep
  that can load does (weak). It takes each due row anew in every sweep until it
  is resolved; Gmail or the commit may fail any time but not for ever (strong,
  per row). Nothing is assumed of reviewers or API handlers.
* `Fairness` (intake). `poll_integrations` runs every `GMAIL_POLL_MINUTES` (10
  by default), a pass at work goes on (weak, per poll); a listing fails now and
  then, not always (strong, of some poll: if one fails for ever, so does every
  other). A queued job is taken and a started run ends, since it has a job
  timeout (weak). Nothing is assumed of pushes.
* `Fairness` (runs). Time passes (weak `Age`). The sweep runs every 15 minutes
  and, although the database may refuse it, not for ever (strong
  `BeginSweep`, `CommitSweep`). A request handler ends, if only by an abort
  (weak). Nothing is assumed of the runs themselves, nor of a super admin:
  `RunningEnds` holds because of the sweep alone.

Login, voice and vault have no liveness property: nothing in them is retried
until it succeeds but the renewal, whose result nobody waits for.

### 4.3 What the documentation says and the code does not

* `approval_sweep_race`. `execute_and_approve_request` refuses a resolved
  request, "checked before any side effect". It checks the row its session
  loaded; the cron loads all due rows once and works through the copies, one
  Gmail call after another. A reviewer who rejects the second row during the
  first call sees the reply go out, and the row end as whichever commit came
  last says.
* `agent_run_killed_proceeds`. "A killed session must never proceed with a
  gated tool call", and so the kill rejects the pending requests. But it reads
  them before it commits, the run's process is not stopped, and the hook that
  persists a proposal does not look at the session. A proposal that comes later
  stays pending, and a reviewer's click sends it. `KilledPendingIsLate` says
  how far the promise goes: only what came after the read is left.
* `issued_secret`. `register_subscription` tells the provider a URL that ends in
  the secret it generated, and then stores the secret the provider issued under
  the same key, "the secret we verify inbound signatures against (overrides our
  generated one)". `receive_webhook` compares the stored secret with the one in
  the URL as well, and refuses every delivery of Stripe, Zendesk and SendGrid, and
  of Asana after its handshake. No concurrency is needed.

## 5. Proofs

Proofs are in `<Module>_proofs.tla`, one per module. TLAPS checks them for all
values of the constants that meet the module's assumption: any number of
requests, users, sessions, passes, replies, integrations, handlers; any
vocabulary, length of utterance and moment.

| Theorem | Proves | Assumes | By the invariant |
|---|---|---|---|
| `TypeCorrect`, in each of the seven state machines | `TypeOK` | | itself or `TypeInv` |
| `ApprovalHub_proofs!SentDraftsWereChosen` | `SentDraftWasChosen` | | `ChoiceInv` |
| `ResolutionsAreAudited` | `ResolutionIsAudited` | | itself, with `RowSteps` |
| `ResolvedStaysResolved` | `ResolvedNeverReopens` | | `RowSteps` |
| `SeenWereReplied` | `SeenOnlyAfterReply` | | `SeenInv` |
| `SerialResolvedOnce` | `ResolvedOnce` (implements `ApprovalLifecycle`) | | `SerialInv`, `ScheduleInv` |
| `SerialMailIsTimely` | `NoMailUnlessOverlapped` | | `SerialInv` |
| `GmailIntake_proofs!PassesExclude` | `OnePassAtATime` | `LockKept` | `LockInv` |
| `PolledAreRecorded` | `PolledIsRecorded` | | `RecordInv` |
| `PollsHandOnce` | `PollHandsOnce` | `LockKept` | `LockInv`, `RecordInv`, `HandInv` |
| `OneReplyEach` | `OneReplyPerHandling` | | `ReplyInv` |
| `LedgerIsKept` | `KeepsLedger` (implements `IntakeLedger`) | `LockKept` | `RecordInv`, `HandInv`, `ReplyInv` |
| `LossesAreBounded` | `LossIsBounded` | | itself, with `CapInv` |
| `RunsAreCapped` | `RunIsCapped` | | `CapInv` |
| `AgentRun_proofs!TerminationsAreExplained` | `TerminationIsExplained` | | `SweepInv` |
| `KillsLeaveLateOnly` | `KilledPendingIsLate` | | `KillInv` |
| `OrphansNeverProceed` | `KilledOrphansNeverProceed` | | `OrphanInv` |
| `OrphanEndsAreFinal` | `EndIsFinal` | | `OrphanInv` |
| `OrphanKillsKeepResolved` | `KillKeepsResolved`: a kill leaves approved requests approved | | `OrphanInv` |
| `UncrossedAreAtomic` | `HandlersAreAtomic` (implements `RunLifecycle`) | | `OrphanInv`, `KillInv`, `HandlersInv` |
| `Membership_proofs!NothingDangles` | `NoDanglingRows` | | itself |
| `JoiningIsHarmless` | `JoiningChangesNoMember` | | `TypeInv` |
| `SerialKeepsSuperadmin` | `SuperadminRemainsUnlessOverlapped` | | `SerialInv` |
| `SerialInvitesUsedOnce` | `InviteUsedOnce` | | `SerialInv` |
| `SerialReassigns` | `ReassignMakesOneOwner` | | `SerialInv` |
| `SerialHandlersAreAtomic` | `HandlersAreAtomic` (implements `Directory`) | | `NoDanglingRows`, `SerialInv`, `CarriedInv` |
| `AuthSession_proofs!LogoutIsFinal` | `LoggedOutIsRefused` | | `LoggedInv` |
| `LoginsMatchAccounts` | `LoginMatchesAccount` | | `AccountInv` |
| `SerialFlowsUsedOnce` | `FlowUsedOnce` | | `SerialInv` |
| `SerialBansLockOut` | `BannedIsLockedOut` | | `SerialInv` |
| `EachLoginIsOneStep` | `LoginsAreAtomic` (implements `Accounts`) | | `AccountInv`, `HeldInv` |
| `VoiceSession_proofs!FollowUps` | `FollowUpStays` | | `PositionsKept` |
| `HearsRight` | `ActsOnWhatWasHeard` | | `PositionsKept` |
| `Fragments` | `FragmentsBelongTogether` | | `FragmentsInv` |
| `ResolvedIsFinal` | `ResolvedStays` | | `TypeInv` |
| `IntegrationVault_proofs!TokensFit` | `TokensFitClient` | | `Inv`, `HandlersFit` |
| `SharingIsKept` | `SharingSticks` | | `Inv`, `KeepsSharing` |
| `RegisteredOursAreHeard` | `OursAreHeard` | | `Inv`, `WebhooksHeard` |
| `SerialRowIsLatest` | `RowIsLatest` | | `Inv`, `LatestInv` |
| `SerialHandlersAreAtomic` | `HandlersAreAtomic` (implements `Connection`) | | `Inv`, `LatestInv`, `CarryInv` |
| `VoiceIntent_proofs!VoiceInvariant` | the types of `VoiceIntent` | | `VoiceInv` |
| `ScheduledInTheFuture` | `ScheduleLiesAhead` | | `VoiceInv` |
| `PartsAgreeWithTheParser` | `PartsAgree` | | `VoiceInv` |
| `WordingIsNeverAnOrder` | `WordingIsNoOrder` | | itself, with `VoiceInv` |
| `TurnsMeet` | what `CompleteEdit` makes of two turns, for any search and any replacement without "to", "with", "into" | | none |
| `SpokenDaysAreNext` | a date or weekday is the next of its kind | | `VoiceInv` |

`LockKept` says `LockExpires = FALSE`: the one assumption on a constant that names a
fault model. The `Serial..` and `Orphan..`
theorems assume nothing: their properties hold in every behaviour up to the first
overlap, and TLC's counterexamples show what may come after it.

### 5.1 Why the invariants have their shape

Nearly all properties have the same difficulty: a handler acts on what it read.
The property speaks of the tables, its inductive strengthening also of what
handlers carry.

* `ChoiceInv`: a draft in a handler, in a sweep's copy, or in a scheduled row,
  was chosen by the user next to it. A schedule taken by an overlapping handler
  does not break it because draft, time and user are one column, written
  together or not at all.
* `SeenInv`: a handler past Gmail has its mail in `mail`.
* `RowSteps` is a lemma about one step: a row changes only to keep its status,
  to appear, or to resolve together with its audit row. Two theorems follow
  from it; it is where the cases of `Next` are gone through.
* `SerialInv` (hub): until an overlap, the only handler holds a row that is
  still pending. `ScheduleInv`: who schedules a reply is a reviewer, and no row has
  a reviewer before it is proposed.
* `LockInv`: who is inside owns the key. This fails as soon as a key may
  expire under its holder, which is the exact content of `LockKept`.
* `HandInv`: what a poll handed is recorded, and what a pass is about to hand
  was never handed. The lock is needed to keep the second part while another
  pass enqueues, the filter to establish it.
* `ReplyInv`: while a message was handed over once, one job has it, and if that
  job is between check and insert there is no reply yet.
* `LedgerIsKept` puts the three together: `RecordInv` and `HandInv` are the two
  guards of the ledger's `Poll`, and `ReplyInv`, before and after the insert,
  is the guard of its `Reply`. An enqueue of a push counts only up to two, so
  it is mapped to the `Push` of those messages whose count moves.
* `CapInv` needs that the newest `n` of a finite set are at most `n`; this is
  lemma `NewestCapped`, from the least element of the chosen set. `LossIsBounded`
  is inductive with it: only a fault takes a poll's ids from "about to be enqueued"
  to nowhere, they are at most `RunCap`, and the fault is counted in the same step.
* `KillInv`: while a kill is under way, what it has not read is late.
* `UncrossedAreAtomic`: at the commit, what was read is what would be read now.
  `OrphanInv` says so of the pending requests and the running session,
  `HandlersInv` that a handler has one session with requests of it, or one request;
  `KillInv` that a run in its loop has a row.
* `OrphanInv`, `SerialInv` (membership): until an overlap, what the only handler
  read still holds.
* `CarriedInv`: the same for the guards. Whoever is at work is still the owner or
  super admin the guard saw, and the role, workspace, invite or super admin it is
  about to change is still as it was seen. `SerialInv` has what is counted and
  copied, `CarriedInv` the rest of the guards of `Directory`'s steps.
* `AccountInv`: a callback that found an account commits into an account of its
  provider or into none, because an id is given once. `LoggedInv`: the row of a
  logged-out token is revoked or gone, and a token is issued once.
* `HeldInv`: a callback that knows an address holds the one redeemed code of its
  flow, no other callback holds it, and the code is gone from the provider. So the
  commit finds its agreement open and closes it. The account it found still has
  its address, or was deleted, and then the commit fails.
* `PositionsKept`: every remembered position still names the reply it named, or
  the history says the queue changed since. Each action that reorders the queue
  must therefore be one that resets the history, and each that resolves a
  position must do so against the queue of the same step; lemma `QueueStands`
  says that nothing but `status` moves it.
* `FragmentsInv`: what is buffered was spoken since the buffer was opened, and a
  turn that carries a buffer out has emptied it.
* `Inv` (vault) is `TypeInv`, `Held` (a transaction that flushed a row has its
  lock, and the row is there) and `Owned` (an id is given once; a row that is
  being inserted is nobody else's). `Next` has some twenty cases, and the rows,
  handlers and flows change in few ways: the lemmas `RowsChange`, `HandlerSteps`,
  `IdsChange`, `FlowsChange` and `Carries` go through the cases once, the five
  invariants above `Inv` are proved from the lemmas.
* `HandlersFit`: the token a handler carries fits the client it carries. It
  survives the merge because both are one encrypted column.
* `WebhooksHeard`: a config that says "registered" names a webhook of its id,
  wherever it is carried: in a row, a handler, or a copy of the sweep.
* `LatestInv`: until an overlap, whoever is at work carries what it loaded from
  a row that is still the same.
* `CarryInv`: a callback past its load has taken the flow entry, past its exchange
  the code, so an authorization completes once; what it carries is what it loaded,
  and after the second read the row as it is with the tokens and the marker added. A
  connect carries what was entered, a renewal at most the error of
  credentials that are unsound. Most of it holds whatever overlaps, unlike `LatestInv`.

* `VoiceIntent`'s invariants are shallow, its lemmas are not. Normalization is
  `FlattenSeq`, a recursive function, which the prover sees as a `CHOOSE` of a
  function that satisfies the equation. `FlattensExists` shows that there is
  one and `FlattenWords`, `FlattenPlaces` what it computes: by the least
  counterexample (`Least`, `Upward`), since the induction theorems of the
  library cannot be instantiated here. From there on each operator gets a lemma
  that says what it returns. `ScheduleLiesAhead` rests on `NextYear` (all days of a
  year come before all days of the next, leap years and centuries
  included), because a date that has passed is taken to be next year's;
  `PartsAgree` on `SameDay` and `SameTime`; `WordingIsNoOrder` on
  `NormalChangeTo` (the form survives normalization: the first word stays first, and
  a "to" in the middle stays in the middle) and `ReplacementFirst` (an edit
  is found in whatever has the form); what is left is the clearing of the queue, which
  the property names.
* `SpokenDaysAreNext` is about all days, where `ScheduleLiesAhead` only looks at
  the day that was read: a date is the earliest with that month and day that is
  not past (`YearsInOrder`, from `NextYear` by `Upward`), a weekday the earliest
  that is not before today, nor today if "next" was said (`WeekApart`: days of the
  same weekday are equal or seven days apart). It cannot be a run's invariant,
  since it quantifies over all years.

The assumptions of `VoiceTime` and `VoiceIntent` beside the vocabulary
(`NumeralsAssumption`, `SpellingAssumption`, `NothingAssumption`) are facts about
literals: numerals and words are strings, and `None` is no intent. The provers do not
know what `ToString` returns, nor that a quoted word is a member of `STRING`;
TLC evaluates the three.

### 5.2 Only model-checked

* Liveness (`DueIsHandled`, `UnreadIsHanded`, `RunningEnds`): fairness needs
  `ENABLED`, which the prover does not treat.
* `TurnsMakeTheEdit`. It is true of the run's vocabularies and not of every one, so
  there is no theorem with its statement: `SplitContinuation` does not know the
  connector "for", and it drops a filler ("um") that an edit in one turn keeps.
  The property names both exceptions, and "the word", which only one turn drops.
  `TurnsMeet` proves what a second turn does for any search X and any replacement Y
  without one of "to", "with" and "into": stopping within X, the edit is X to Y;
  stopping at the connector, Y without the filler it begins with; stopping right before
  it, Y without "the word" it begins with. A Y that holds a connector is cut at the
  last one, and no theorem speaks of it.

## 6. Not modelled, and why

* The approvals feed. It carries hints to refetch; the rows are the hub's. Read
  for the inventory, it has gaps a module would state as violations: only
  `api/approvals.py` publishes, inside its own process, so what workers propose
  and what the cron resolves reaches no browser, although `api/ws.py` names
  `approval.created` among its events; the browser does not refetch after a
  reconnect; a resolve that fails restores the list captured before a newer
  refresh; a connection keeps the role it had when it was opened.
* SMS. Spend is read, compared and recorded in separate transactions, and a
  record that fails is swallowed: overspend is one message per sender at work,
  plus what was not recorded.
* Renaming of users and workspaces: one column, no guard but uniqueness.
* The roles that allow a connect, a disconnect or a toggle of the sharing: one
  decision per request, on roles `Membership` has. `can_use_integration`, which
  would combine them with the sharing, is called by tests only.
* The request builders of single providers in `webhook_registration.py`, and
  deliveries other than Gmail's after they were accepted: they keep no state.
* The wording of what the voice session answers, its transcript, listing and
  reading mail at the provider, navigation and typing in the browser.
* Rules, tool registry, tenancy: decisions over one request's data.
* Provider clients, encryption, prompt scrubbing, MCP transport: I/O and
  cryptography. Their outcomes (accepted, refused, answer lost) are the inputs
  of the models.
* What the language model writes: drafts, whether a rule matches. Any outcome is
  allowed.
* Profile, usage and analytics pages: read-only. The rate limiter: one counter
  with an expiry.
* The web client: state is refetched from the API.
* Migrations and seed data: their keys and cascades are what `Membership` and
  `AuthSession` use.
* Read skew inside one `SELECT`: PostgreSQL's statement snapshot rules it out.

## 7. Plan

Done in this order: `ApprovalHub` with its lifecycle, `GmailIntake` with its
ledger, `AgentRun` with its lifecycle, `Membership` with `Directory`, `AuthSession`
with `Accounts`, `VoiceSession` with `VoiceIntent`, `IntegrationVault` with
`Connection`.
What would come next:

1. `ApprovalFeed`: server broadcast, connections with the role at connect time,
   the browser's cached list, refetch and reconnect. An abstract specification
   (the list shown is some past state of the table, and converges) that it would
   have to implement, composed with the status machine of `ApprovalHub`.
2. `SmsCap` and the rate limiter: check and count in two steps; overspend
   bounded by the senders in flight, for every number of them. Theorem: the
   bound.
3. Rules, registry, capabilities: evaluation as operators against a reference
   definition, over all small inputs.
