-------------------------- MODULE IntegrationVault --------------------------
(***************************************************************************)
(* The integrations of one user with one provider in one workspace: the    *)
(* row with its encrypted credentials, its config, status and sharing, the *)
(* OAuth authorization that adds tokens to it, the webhook its provider is *)
(* told of, and the cron that renews short-lived subscriptions.            *)
(*                                                                         *)
(* Every writer loads the row, awaits the provider, and writes columns     *)
(* computed from what it loaded.  An UPDATE names the columns whose value  *)
(* differs from the loaded one, takes the row's lock when it is flushed    *)
(* and keeps it until the transaction ends.                                *)
(***************************************************************************)
EXTENDS Naturals, FiniteSets

CONSTANTS
  Kinds,       \* how providers are registered, see Trigger
  Rows,        \* ids of rows, each given once
  Gens,        \* what a user enters at a connect: an OAuth client with its config
  Flows,       \* values of state
  Ops,         \* request handlers that may be in progress at once
  Sharing,     \* what a connect may ask for
  Pasted,      \* the sets of tokens that may be entered with the client
  MaxOpen,     \* bound on the transactions in progress at once
  MaxSecrets,  \* bound on the webhook secrets that are made
  None

\* "graph": Microsoft, "watch": Google Calendar and Drive, "pubsub": Gmail, which is
\* told a topic, "ours": those that take our secret or only the URL, "own": LINE,
\* Trello and Mailgun, which take the URL and sign with a key of their own, "issued":
\* Stripe, Zendesk and SendGrid, which issue a secret, "handshake": Asana, "poll":
\* nothing to register.
Trigger == {"graph", "watch", "pubsub", "ours", "own", "issued", "handshake", "poll"}

ASSUME ConstantsAssumption ==
  /\ Kinds \subseteq Trigger
  /\ Sharing \subseteq BOOLEAN
  /\ Pasted \subseteq SUBSET {"refresh", "access"}
  /\ MaxOpen \in Nat \ {0}
  /\ MaxSecrets \in Nat
  /\ IsFiniteSet(Ops)
  /\ None \notin Rows \cup Gens \cup Flows \cup Ops
  /\ "sweep" \notin Ops \cup {None}
  /\ "gone" \notin Rows \cup {None}
  /\ None \notin 0..MaxSecrets

VARIABLES
  kind,       \* the provider
  row,        \* row[r]: the integrations row, NoRow before and after
  lock,       \* lock[r]: the transaction that has flushed a change of the row
  used,       \* ids that have been given
  entered,    \* Gens that have been entered
  made,       \* number of webhook secrets made
  flow,       \* flow[f]: the Redis entry: the row, None before and after
  code,       \* code[f]: the client the provider's code was issued to
  hooks,      \* webhooks the provider has been made to call
  op,         \* op[o]: a request handler in progress
  sweep,      \* the renewal in progress
  latest,     \* history: what the last answered connect had entered, None once it
              \* is disconnected
  overlapped  \* history: two transactions have been in progress at once

provider == <<hooks, code>>
db == <<row, lock, used>>
vars == <<kind, db, entered, made, flow, provider, op, sweep, latest, overlapped>>

\* The key a provider of kind "own" signs with, and the secrets made here or issued.
Key == 0
Secret == {None} \cup 0..MaxSecrets

\* The decrypted credentials: the client that was entered, the client a refresh
\* token was issued to, whether an access token was entered, and whether the
\* ciphertext can be decrypted.
Cred == [gen : Gens, token : Gens \cup {None}, access : BOOLEAN, sound : BOOLEAN]

\* The config: what was entered, the authorized marker, the webhook's secret
\* and whether the provider was told of it.
Conf == [gen : Gens, auth : BOOLEAN, secret : Secret, reg : BOOLEAN]
Row == [cred : Cred, conf : Conf, status : {"active", "error"}, shared : BOOLEAN]
NoRow == [gone |-> TRUE]

Op == [pc : {"select", "store", "register", "commit", "load", "exchange", "reload"},
       by : {"connect", "callback", "handshake"}, flow : Flows \cup {None},
       id : Rows \cup {None}, old : Row \cup {NoRow}, new : Row \cup {NoRow}]
Idle == [pc |-> "idle"]

Sweep == [pc : {"run", "flush", "broken"}, todo : SUBSET Rows, id : Rows \cup {None},
          old : [Rows -> Row \cup {NoRow}], new : [Rows -> Row \cup {NoRow}]]

TypeOK ==
  /\ kind \in Kinds
  /\ row \in [Rows -> Row \cup {NoRow}]
  /\ lock \in [Rows -> Ops \cup {None, "sweep"}]
  /\ used \subseteq Rows
  /\ entered \subseteq Gens
  /\ made \in 0..MaxSecrets
  /\ flow \in [Flows -> Rows \cup {None, "gone"}]
  /\ code \in [Flows -> Gens \cup {None}]
  /\ hooks \subseteq [id : Rows, url : Secret, sign : Secret]
  /\ op \in [Ops -> Op \cup {Idle}]
  /\ sweep \in Sweep \cup {Idle}
  /\ latest \in Gens \cup {None}
  /\ overlapped \in BOOLEAN

Init ==
  /\ kind \in Kinds
  /\ row = [r \in Rows |-> NoRow]
  /\ lock = [r \in Rows |-> None]
  /\ used = {}
  /\ entered = {}
  /\ made = 0
  /\ flow = [f \in Flows |-> None]
  /\ code = [f \in Flows |-> None]
  /\ hooks = {}
  /\ op = [o \in Ops |-> Idle]
  /\ sweep = Idle
  /\ latest = None
  /\ overlapped = FALSE

Exists(r) == row[r] # NoRow
Open == Cardinality({o \in Ops : op[o] # Idle}) + IF sweep = Idle THEN 0 ELSE 1
Busy == Open # 0
Free(r) == lock[r] = None
OAuth == kind \in {"graph", "watch", "pubsub"}
Renewable == kind \in {"graph", "watch", "pubsub"}

Begin(o, handler) ==
  /\ op[o] = Idle /\ Open < MaxOpen
  /\ op' = [op EXCEPT ![o] = handler]
  /\ overlapped' = (overlapped \/ Busy)

Advance(o, handler) ==
  /\ op[o] # Idle
  /\ op' = [op EXCEPT ![o] = handler]
  /\ UNCHANGED overlapped

\* A transaction of one step.
Now == UNCHANGED op /\ overlapped' = (overlapped \/ Busy)

Release(t) == lock' = [r \in Rows |-> IF lock[r] = t THEN None ELSE lock[r]]

\* Variant: the UPDATE names every column.
MergeAll(encrypts, cur, old, new) == new

\* What an UPDATE leaves of a row.  Credentials that were encrypted anew always
\* differ from what was loaded.
Merge(encrypts, cur, old, new) ==
  [cred   |-> IF encrypts THEN new.cred ELSE cur.cred,
   conf   |-> IF new.conf # old.conf THEN new.conf ELSE cur.conf,
   status |-> IF new.status # old.status THEN new.status ELSE cur.status,
   shared |-> IF new.shared # old.shared THEN new.shared ELSE cur.shared]

-----------------------------------------------------------------------------
(* Webhooks *)

\* verify_webhook: the secret in the URL and the one that signs must both be
\* the stored one.
Accepted(h) ==
  /\ Exists(h.id)
  /\ h.url = row[h.id].conf.secret
  /\ h.sign = row[h.id].conf.secret

\* ensure_access_token: Google and Microsoft need a refresh token, or take the
\* access token that was entered.
CanCall(cred) == OAuth => cred.token # None \/ cred.access

\* Before it creates a subscription Microsoft posts to the URL, Asana waits
\* for the handshake: our answer comes from another transaction, which does not
\* see a row that is not committed and cannot write one that is locked.
Answers(r) == (kind = "graph" => Exists(r)) /\ kind # "handshake"
CanRegister(r, cred) == CanCall(cred) /\ Answers(r) /\ kind # "poll"

\* A config keeps the secret it has.
EnsureSecret(conf) == IF conf.secret = None THEN made + 1 ELSE conf.secret

NewSecrets(conf) == IF conf.secret = None THEN 1 ELSE 0

\* The secret a provider issues in its answer.
Issued(conf) == made + NewSecrets(conf) + 1

\* Variant: the URL is built from a secret of its own.
ToldAnew(r, conf) == [id |-> r, url |-> made + 1, sign |-> made + 1]

\* The create request of _auto_register: the URL, and what the provider signs with.
Told(r, conf) ==
  [id |-> r, url |-> EnsureSecret(conf),
   sign |-> CASE kind = "issued" -> Issued(conf)
              [] kind = "own" -> Key
              [] OTHER -> EnsureSecret(conf)]

\* register_subscription calls the provider.  Gmail's watch names a topic: it
\* makes nobody call the URL.
Call(r, conf, ok) ==
  /\ made' = made + NewSecrets(conf) + IF ok /\ kind = "issued" THEN 1 ELSE 0
  /\ made' <= MaxSecrets
  /\ hooks' = IF ok /\ kind # "pubsub" THEN hooks \cup {Told(r, conf)} ELSE hooks

\* Variant: the config is made anew, without the authorized marker.
RegisteredAnew(r, conf, ok) ==
  {[gen |-> conf.gen, auth |-> FALSE, secret |-> EnsureSecret(conf), reg |-> ok]}

\* The config it may return: with a secret, the provider's own if that could be
\* read from its answer.
Registered(r, conf, ok) ==
  {[conf EXCEPT !.secret = s, !.reg = ok] :
     s \in {EnsureSecret(conf)} \cup IF ok /\ kind = "issued" THEN {Issued(conf)} ELSE {}}

-----------------------------------------------------------------------------
(* store *)

\* The config may come with the key the provider signs with, as the secret.
EnteredSecret == IF kind = "own" THEN {None, Key} ELSE {None}

\* POST /integrations: the required fields are there.
BeginConnect(o, g, tokens, secret, shared) ==
  /\ g \notin entered
  /\ entered' = entered \cup {g}
  /\ LET new == [cred |-> [gen |-> g, token |-> IF "refresh" \in tokens THEN g ELSE None,
                          access |-> "access" \in tokens, sound |-> TRUE],
                 conf |-> [gen |-> g, auth |-> FALSE, secret |-> secret, reg |-> FALSE],
                 status |-> "active", shared |-> shared] IN
     Begin(o, [pc |-> "select", by |-> "connect", flow |-> None,
               id |-> None, old |-> NoRow, new |-> new])
  /\ UNCHANGED <<kind, db, made, flow, provider, sweep, latest>>

\* store looks for the row by creator and provider.  A row that the session
\* loaded before keeps the values it had then; a new row gets an id.
Select(o, r) ==
  /\ op[o].pc = "select"
  /\ \/ /\ Exists(r)
        /\ used' = used
        /\ Advance(o, [op[o] EXCEPT !.pc = "store", !.id = r,
                                    !.old = IF op[o].id = r THEN @ ELSE row[r]])
     \/ /\ \A q \in Rows : ~Exists(q)
        /\ r \notin used
        /\ used' = used \cup {r}
        /\ Advance(o, [op[o] EXCEPT !.pc = "store", !.id = r, !.old = NoRow])
  /\ UNCHANGED <<kind, row, lock, entered, made, flow, provider, sweep, latest>>

\* The flush: an UPDATE waits for the row's lock, an inserted row is nobody
\* else's yet.  A row that is gone by now fails the request (Abort).
Store(o) ==
  LET r == op[o].id IN
  /\ op[o].pc = "store"
  /\ op[o].old # NoRow => Exists(r) /\ Free(r)
  /\ lock' = [lock EXCEPT ![r] = o]
  /\ Advance(o, [op[o] EXCEPT !.pc = IF op[o].by = "connect" THEN "register" ELSE "commit"])
  /\ UNCHANGED <<kind, row, used, entered, made, flow, provider, sweep, latest>>

\* connect_integration registers the webhook while its change of the row is
\* not committed; an exception leaves the config as it was entered.
Register(o, ok) ==
  LET r == op[o].id  conf == op[o].new.conf IN
  /\ op[o].pc = "register"
  /\ ok => CanRegister(r, op[o].new.cred)
  /\ \/ /\ Call(r, conf, ok)
        /\ \E c \in Registered(r, conf, ok) :
             Advance(o, [op[o] EXCEPT !.pc = "commit", !.new.conf = c])
     \/ /\ ~ok
        /\ Advance(o, [op[o] EXCEPT !.pc = "commit"])
        /\ UNCHANGED <<made, hooks>>
  /\ UNCHANGED <<kind, db, entered, flow, code, sweep, latest>>

Commit(o) ==
  LET r == op[o].id  h == op[o] IN
  /\ h.pc = "commit"
  /\ row' = [row EXCEPT ![r] = IF h.old = NoRow THEN h.new
                               ELSE Merge(h.by # "handshake", @, h.old, h.new)]
  /\ Release(o)
  /\ latest' = IF h.by = "connect" THEN h.new.cred.gen ELSE latest
  /\ Advance(o, Idle)
  /\ UNCHANGED <<kind, used, entered, made, flow, provider, sweep>>

\* The request is refused or fails, or its process dies: nothing of its
\* transaction stays, what the provider was told does.
Abort(o) ==
  /\ Release(o)
  /\ Advance(o, Idle)
  /\ UNCHANGED <<kind, row, used, entered, made, flow, provider, sweep, latest>>

\* receive_webhook, while Asana is asked to create the webhook: the config is
\* loaded, its secret replaced by Asana's.
Handshake(o, r) ==
  /\ kind = "handshake"
  /\ \E c \in Ops : op[c] # Idle /\ op[c].pc = "register" /\ op[c].id = r
  /\ Exists(r)
  /\ made < MaxSecrets
  /\ made' = made + 1
  /\ Begin(o, [pc |-> "store", by |-> "handshake", flow |-> None, id |-> r,
               old |-> row[r], new |-> [row[r] EXCEPT !.conf.secret = made + 1]])
  /\ UNCHANGED <<kind, db, entered, flow, provider, sweep, latest>>

-----------------------------------------------------------------------------
(* The authorization *)

\* GET /integrations/{id}/authorize: needs the client of the row.
BeginAuthorize(f, r) ==
  /\ OAuth
  /\ Exists(r) /\ row[r].cred.sound
  /\ flow[f] = None
  /\ flow' = [flow EXCEPT ![f] = r]
  /\ code' = [code EXCEPT ![f] = row[r].cred.gen]
  /\ Now
  /\ UNCHANGED <<kind, db, entered, made, hooks, sweep, latest>>

FlowExpires(f) ==
  /\ flow[f] \in Rows
  /\ flow' = [flow EXCEPT ![f] = "gone"]
  /\ UNCHANGED <<kind, db, entered, made, provider, op, sweep, latest, overlapped>>

\* GET /integrations/oauth/callback: the entry is read,
ReadFlow(o, f) ==
  /\ flow[f] \in Rows
  /\ Begin(o, [pc |-> "load", by |-> "callback", flow |-> f, id |-> flow[f],
               old |-> NoRow, new |-> NoRow])
  /\ UNCHANGED <<kind, db, entered, made, flow, provider, sweep, latest>>

\* Variant: the flow entry carries the credentials of the time it was stored.
LoadFromFlow(o) ==
  LET h == op[o]  g == code[h.flow]
      then == [cred |-> [gen |-> g, token |-> None, access |-> FALSE, sound |-> TRUE],
               conf |-> [gen |-> g, auth |-> FALSE, secret |-> None, reg |-> FALSE],
               status |-> "active", shared |-> FALSE] IN
  /\ h.pc = "load"
  /\ g # None
  /\ flow' = [flow EXCEPT ![h.flow] = "gone"]
  /\ Advance(o, [h EXCEPT !.pc = "exchange", !.old = then])
  /\ UNCHANGED <<kind, db, entered, made, provider, sweep, latest>>

\* deleted, and the row loaded for its credentials.  Those that cannot be decrypted
\* end the request, and with it the status it set.
Load(o) ==
  LET h == op[o] IN
  /\ h.pc = "load"
  /\ flow' = [flow EXCEPT ![h.flow] = "gone"]
  /\ Exists(h.id) /\ row[h.id].cred.sound
  /\ Advance(o, [h EXCEPT !.pc = "exchange", !.old = row[h.id]])
  /\ UNCHANGED <<kind, db, entered, made, provider, sweep, latest>>

\* The provider takes a code once, from the client it was issued to.  Without a
\* refresh token the request ends (Abort).
Exchange(o) ==
  LET h == op[o] IN
  /\ h.pc = "exchange"
  /\ code[h.flow] = h.old.cred.gen
  /\ code' = [code EXCEPT ![h.flow] = None]
  /\ Advance(o, [h EXCEPT !.pc = "reload"])
  /\ UNCHANGED <<kind, db, entered, made, flow, hooks, sweep, latest>>

\* Variant: the tokens are merged into the credentials of the row as it is now.
AuthorizedAsIs(cred, cur) ==
  [cur EXCEPT !.cred.token = cred.gen, !.conf.auth = TRUE, !.status = "active"]

\* The tokens are merged into the credentials loaded before the exchange, the
\* marker into the config of the row as it is now.
Authorized(cred, cur) ==
  [cred |-> [cred EXCEPT !.token = cred.gen], conf |-> [cur.conf EXCEPT !.auth = TRUE],
   status |-> "active", shared |-> cur.shared]

\* Nothing refers any more to the row that was loaded, so the session reads it
\* anew.  A row that is gone by now fails the request (Abort).
Reload(o) ==
  LET h == op[o]  cur == row[h.id] IN
  /\ h.pc = "reload"
  /\ Exists(h.id)
  /\ Advance(o, [h EXCEPT !.pc = "select", !.old = cur, !.new = Authorized(h.old.cred, cur)])
  /\ UNCHANGED <<kind, db, entered, made, flow, provider, sweep, latest>>

-----------------------------------------------------------------------------
(* Single writes *)

\* PATCH /integrations/{id}/sharing
SetSharing(r, shared) ==
  /\ Exists(r) /\ Free(r)
  /\ row' = [row EXCEPT ![r].shared = shared]
  /\ row' # row
  /\ Now
  /\ UNCHANGED <<kind, lock, used, entered, made, flow, provider, sweep, latest>>

\* DELETE /integrations/{id}
Disconnect(r) ==
  /\ Exists(r) /\ Free(r)
  /\ row' = [row EXCEPT ![r] = NoRow]
  /\ latest' = None
  /\ Now
  /\ UNCHANGED <<kind, lock, used, entered, made, flow, provider, sweep>>

\* The key is rotated, or the ciphertext damaged; what was loaded before has been
\* decrypted.
Damage(r) ==
  /\ Exists(r) /\ ~Busy /\ row[r].cred.sound
  /\ row' = [row EXCEPT ![r].cred.sound = FALSE]
  /\ UNCHANGED <<kind, lock, used, entered, made, flow, provider, op, sweep, latest,
                 overlapped>>

-----------------------------------------------------------------------------
(* renew_short_lived_subscriptions *)

Loaded(live) == [r \in Rows |-> IF r \in live THEN row[r] ELSE NoRow]

\* One query loads the active rows for the whole sweep.
BeginSweep ==
  LET live == {r \in Rows : Exists(r) /\ row[r].status = "active"} IN
  /\ Renewable /\ sweep = Idle /\ Open < MaxOpen /\ live # {}
  /\ sweep' = [pc |-> "run", todo |-> live, id |-> None, old |-> Loaded(live), new |-> Loaded(live)]
  /\ overlapped' = (overlapped \/ Busy)
  /\ UNCHANGED <<kind, db, entered, made, flow, provider, op, latest>>

\* The next row: credentials that cannot be decrypted set the status, which the
\* sweep's commit keeps; else the webhook is registered again.
Renew(r, ok) ==
  LET old == sweep.old[r] IN
  /\ sweep # Idle /\ sweep.pc = "run"
  /\ r \in sweep.todo
  /\ IF old.cred.sound
     THEN \/ /\ ok => CanRegister(r, old.cred)
             /\ Call(r, old.conf, ok)
             /\ \E c \in Registered(r, old.conf, ok) :
                  sweep' = [sweep EXCEPT !.pc = "flush", !.id = r, !.todo = @ \ {r},
                                         !.new[r].conf = c]
          \/ /\ ~ok
             /\ sweep' = [sweep EXCEPT !.todo = @ \ {r}]
             /\ UNCHANGED <<made, hooks>>
     ELSE /\ ~ok
          /\ sweep' = [sweep EXCEPT !.pc = "flush", !.id = r, !.todo = @ \ {r},
                                    !.new[r].status = "error"]
          /\ UNCHANGED <<made, hooks>>
  /\ UNCHANGED <<kind, db, entered, flow, code, op, latest, overlapped>>

\* A change is flushed and its lock kept until the end of the sweep.  A row that
\* is gone breaks the session: everything the sweep does is rolled back.
Flush ==
  LET r == sweep.id IN
  /\ sweep # Idle /\ sweep.pc = "flush"
  /\ \/ /\ sweep.new[r] = sweep.old[r]
        /\ sweep' = [sweep EXCEPT !.pc = "run", !.id = None]
        /\ lock' = lock
     \/ /\ sweep.new[r] # sweep.old[r] /\ Exists(r) /\ Free(r)
        /\ sweep' = [sweep EXCEPT !.pc = "run", !.id = None]
        /\ lock' = [lock EXCEPT ![r] = "sweep"]
     \/ /\ sweep.new[r] # sweep.old[r] /\ ~Exists(r)
        /\ sweep' = [sweep EXCEPT !.pc = "broken", !.id = None]
        /\ Release("sweep")
  /\ UNCHANGED <<kind, row, used, entered, made, flow, provider, op, latest, overlapped>>

\* The sweep's one commit.
EndSweep ==
  /\ sweep # Idle /\ sweep.pc = "run" /\ sweep.todo = {}
  /\ row' = [r \in Rows |-> IF lock[r] = "sweep"
                            THEN Merge(FALSE, row[r], sweep.old[r], sweep.new[r]) ELSE row[r]]
  /\ Release("sweep")
  /\ sweep' = Idle
  /\ UNCHANGED <<kind, used, entered, made, flow, provider, op, latest, overlapped>>

\* The commit of a broken session is refused; the worker dies at any time.
LoseSweep ==
  /\ sweep # Idle
  /\ Release("sweep")
  /\ sweep' = Idle
  /\ UNCHANGED <<kind, row, used, entered, made, flow, provider, op, latest, overlapped>>

-----------------------------------------------------------------------------
HandlerStep(o) ==
  \/ \E r \in Rows : Select(o, r)
  \/ Store(o)
  \/ \E ok \in BOOLEAN : Register(o, ok)
  \/ Commit(o)
  \/ Load(o)
  \/ Exchange(o)
  \/ Reload(o)
  \/ Abort(o)

OpNext(o) ==
  \/ \E g \in Gens, tokens \in Pasted, secret \in EnteredSecret, shared \in Sharing :
       BeginConnect(o, g, tokens, secret, shared)
  \/ \E r \in Rows : Handshake(o, r)
  \/ \E f \in Flows : ReadFlow(o, f)
  \/ op[o] # Idle /\ HandlerStep(o)

RowNext(r) ==
  \/ \E f \in Flows : BeginAuthorize(f, r)
  \/ \E shared \in BOOLEAN : SetSharing(r, shared)
  \/ Disconnect(r)
  \/ Damage(r)

SweepNext ==
  \/ \E r \in Rows, ok \in BOOLEAN : Renew(r, ok)
  \/ Flush
  \/ EndSweep
  \/ LoseSweep

Next ==
  \/ \E o \in Ops : OpNext(o)
  \/ \E r \in Rows : RowNext(r)
  \/ \E f \in Flows : FlowExpires(f)
  \/ BeginSweep
  \/ SweepNext

Spec == Init /\ [][Next]_vars

-----------------------------------------------------------------------------
(* Correctness *)

\* A stored refresh token was issued to the client stored beside it, whatever
\* overlaps: they are read and written together (complete_authorize).
TokensFitClient == \A r \in Rows : Exists(r) /\ row[r].cred.token # None =>
  row[r].cred.token = row[r].cred.gen

\* As long as no two transactions overlap, there is at most one row, it holds what
\* the last answered connect had entered, and it is shown as authorized only with
\* a refresh token: a reconnect replaces a row with its old tokens and marker, and
\* an authorization that was pending neither brings back what it replaced nor
\* what was disconnected (store: "reconnecting a provider replaces its
\* credentials"; disconnect; _IntegrationView: "a refresh token is stored").
RowIsLatest == overlapped \/ \A r \in Rows : Exists(r) =>
  /\ \A q \in Rows : Exists(q) => q = r
  /\ row[r].cred.gen = latest /\ row[r].conf.gen = latest
  /\ row[r].conf.auth => row[r].cred.token # None

\* A webhook of the integration r whose deliveries are accepted.
Hears(r) == \E h \in hooks : h.id = r /\ Accepted(h)

\* A config that says its webhook was registered has one whose deliveries are
\* accepted (register_subscription, receive_webhook).
RegisteredIsHeard == \A r \in Rows : Exists(r) /\ row[r].conf.reg => Hears(r)

\* The same, as long as the integration keeps its id (a callback that overlaps with
\* a disconnect moves the config to a row the provider does not know), for
\* providers that send what verify_webhook compares: not those that issue a secret
\* of their own, not Gmail, which calls another endpoint, and those that sign with
\* a key of their own only if that was entered as the secret.
OursAreHeard == kind \notin {"issued", "pubsub"} /\ (\A q, r \in used : q = r) =>
  \A r \in Rows :
    Exists(r) /\ row[r].conf.reg /\ (kind = "own" => row[r].conf.secret = Key) => Hears(r)

\* Only the sharing endpoint and a connect change the sharing, as long as the
\* integration keeps its id: a callback, a handshake or a renewal that overlaps
\* with a toggle does not undo it (set_sharing).
SharingSticks == [][
  \A r \in Rows :
    (Exists(r) /\ row'[r] # NoRow /\ row'[r].shared # row[r].shared /\ used = {r}) =>
      \/ UNCHANGED <<op, sweep>>
      \/ \E o \in Ops : op[o] # Idle /\ op'[o] = Idle /\ op[o].by = "connect"]_vars

\* What the API shows of a row, with the client its tokens are for.
Seen(x) ==
  IF x = NoRow THEN NoRow
  ELSE [client |-> x.cred.gen, config |-> x.conf.gen, token |-> x.cred.token,
        authorized |-> x.conf.auth, sound |-> x.cred.sound, status |-> x.status,
        shared |-> x.shared]

\* The client whose code a callback has to redeem, or has redeemed.
Client(h) == CASE h.pc \in {"load", "exchange"} -> code[h.flow]
               [] h.pc = "reload" -> h.old.cred.gen
               [] OTHER -> h.new.cred.gen

Pending(f, r, g) ==
  \/ flow[f] = r /\ code[f] = g
  \/ \E o \in Ops :
       /\ op[o] # Idle /\ op[o].by = "callback"
       /\ op[o].flow = f /\ op[o].id = r /\ Client(op[o]) = g

Requested(g) == \E o \in Ops :
  op[o] # Idle /\ op[o].by = "connect" /\ op[o].new.cred.gen = g

Promise == INSTANCE Connection WITH
  integration <- [r \in Rows |-> Seen(row[r])],
  entered <- {g \in Gens : Requested(g)},
  asked <- {a \in Flows \X Rows \X Gens : Pending(a[1], a[2], a[3])}

\* As long as no two transactions overlap, every handler looks like one step of
\* Connection, at the moment it commits: a callback adds tokens to the row and the
\* client it was begun for, once, and a renewal or a refused request changes
\* nothing a user sees (store, complete_authorize, renew_short_lived_subscriptions).
HandlersAreAtomic == Promise!Init /\ [][overlapped \/ Promise!Next]_(Promise!vars)
=============================================================================
