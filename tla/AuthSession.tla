---------------------------- MODULE AuthSession ----------------------------
(***************************************************************************)
(* Login through Google or GitHub, sessions, logout and ban: the flow      *)
(* entries in Redis, users and sessions.                                   *)
(*                                                                         *)
(* A callback awaits Redis twice, the provider, and the database twice     *)
(* before it commits; a ban and a logout read before they write.  What a   *)
(* transaction has not committed nobody else sees: a ban deletes the       *)
(* sessions that exist, not those of a login that commits after it.        *)
(***************************************************************************)
EXTENDS Naturals

CONSTANTS
  Users,      \* ids of accounts, each given once
  Emails,
  Providers,
  Flows,      \* values of state
  Tokens,     \* session tokens, each issued once
  Ops,        \* handlers that may be in progress at once
  None

ASSUME ConstantsAssumption ==
  /\ None \notin Users \cup Emails \cup Providers \cup Flows \cup Tokens
  /\ {"none", "gone", "redeemed"} \cap (Emails \cup Providers) = {}

VARIABLES
  user,       \* user[u]: the users row, NoUser before it is created and after
  created,    \* ids that have been given
  flow,       \* flow[f]: the Redis entry
  code,       \* code[f]: the mail address the provider's code stands for
  sess,       \* sess[t]: the sessions row
  issued,     \* tokens that have been issued
  expired,    \* tokens past expires_at
  audit,      \* auth.login rows: who logged in through which provider
  loggedOut,  \* history: tokens whose logout was answered
  consumed,   \* history: how many callbacks went on with a flow, at most 2
  op,         \* op[o]: a handler in progress
  overlapped  \* history: two handlers have been in progress at once

db == <<user, created, sess, issued, audit>>
external == <<code, expired>>
vars == <<db, external, flow, loggedOut, consumed, op, overlapped>>

User == [email : Emails \cup {None}, provider : Providers \cup {None}, banned : BOOLEAN]
NoUser == [email |-> None, provider |-> None, banned |-> FALSE]
Sess == [of : Users \cup {None}, revoked : BOOLEAN]
NoSess == [of |-> None, revoked |-> FALSE]

Op == [pc : {"idle", "flow", "exchange", "profile", "login", "logout", "ban"},
       flow : Flows \cup {None}, provider : Providers \cup {None},
       email : Emails \cup {None}, user : Users \cup {None}, new : BOOLEAN,
       token : Tokens \cup {None}]
Idle == [pc |-> "idle", flow |-> None, provider |-> None, email |-> None, user |-> None,
         new |-> FALSE, token |-> None]

TypeOK ==
  /\ user \in [Users -> User]
  /\ created \subseteq Users
  /\ flow \in [Flows -> {"none", "gone"} \cup Providers]
  /\ code \in [Flows -> {"none", "redeemed"} \cup Emails]
  /\ sess \in [Tokens -> Sess]
  /\ issued \subseteq Tokens
  /\ expired \subseteq issued
  /\ audit \subseteq [user : Users, provider : Providers]
  /\ loggedOut \subseteq issued
  /\ consumed \in [Flows -> 0..2]
  /\ op \in [Ops -> Op]
  /\ overlapped \in BOOLEAN

Init ==
  /\ user = [u \in Users |-> NoUser]
  /\ created = {}
  /\ flow = [f \in Flows |-> "none"]
  /\ code = [f \in Flows |-> "none"]
  /\ sess = [t \in Tokens |-> NoSess]
  /\ issued = {}
  /\ expired = {}
  /\ audit = {}
  /\ loggedOut = {}
  /\ consumed = [f \in Flows |-> 0]
  /\ op = [o \in Ops |-> Idle]
  /\ overlapped = FALSE

Exists(u) == user[u].email # None
Pending(f) == flow[f] \notin {"none", "gone"}
Upto2(n) == IF n < 2 THEN n + 1 ELSE 2

\* is_session_valid: a row, not revoked, not expired.
Valid(t) == sess[t].of # None /\ ~sess[t].revoked /\ t \notin expired

\* What the session dependency accepts.  It does not look at the ban.
Accepted(t) == Valid(t) /\ Exists(sess[t].of)

Begin(o, handler) ==
  /\ op[o].pc = "idle"
  /\ op' = [op EXCEPT ![o] = handler]
  /\ overlapped' = (overlapped \/ \E p \in Ops : op[p].pc # "idle")

Advance(o, handler) ==
  /\ op' = [op EXCEPT ![o] = handler]
  /\ UNCHANGED overlapped

End(o) == Advance(o, Idle)

-----------------------------------------------------------------------------
(* The login *)

\* GET /auth/login: the entry is stored under a fresh state.
BeginLogin(f, p) ==
  /\ flow[f] = "none"
  /\ flow' = [flow EXCEPT ![f] = p]
  /\ UNCHANGED <<db, external, loggedOut, consumed, op, overlapped>>

\* The entry's time to live is over.
FlowExpires(f) ==
  /\ Pending(f)
  /\ flow' = [flow EXCEPT ![f] = "gone"]
  /\ UNCHANGED <<db, external, loggedOut, consumed, op, overlapped>>

\* Somebody with address e agrees at the provider, which sends them back.
Consent(f, e) ==
  /\ flow[f] # "none"
  /\ code[f] = "none"
  /\ code' = [code EXCEPT ![f] = e]
  /\ UNCHANGED <<db, expired, flow, loggedOut, consumed, op, overlapped>>

\* Variant: the provider of the callback is not compared with the entry's.
ReadFlowUnmatched(o, f, p) ==
  /\ Pending(f)
  /\ Begin(o, [Idle EXCEPT !.pc = "flow", !.flow = f, !.provider = p])
  /\ UNCHANGED <<db, external, flow, loggedOut, consumed>>

\* GET /auth/callback, first await: the entry is read.
ReadFlow(o, f, p) ==
  /\ Pending(f)
  /\ Begin(o, [Idle EXCEPT !.pc = "flow", !.flow = f,
                           !.provider = IF flow[f] = p THEN p ELSE None])
  /\ UNCHANGED <<db, external, flow, loggedOut, consumed>>

\* Variant: the entry is left to its time to live.
ConsumeFlowKeeping(o) ==
  LET f == op[o].flow IN
  /\ op[o].pc = "flow"
  /\ IF op[o].provider = None
     THEN End(o) /\ consumed' = consumed
     ELSE /\ Advance(o, [op[o] EXCEPT !.pc = "exchange"])
          /\ consumed' = [consumed EXCEPT ![f] = Upto2(@)]
  /\ UNCHANGED <<db, external, flow, loggedOut>>

\* Second await: the entry is deleted, whether it is still there or not.  An
\* entry of the other provider ends the callback.
ConsumeFlow(o) ==
  LET f == op[o].flow IN
  /\ op[o].pc = "flow"
  /\ flow' = [flow EXCEPT ![f] = "gone"]
  /\ IF op[o].provider = None
     THEN End(o) /\ consumed' = consumed
     ELSE /\ Advance(o, [op[o] EXCEPT !.pc = "exchange"])
          /\ consumed' = [consumed EXCEPT ![f] = Upto2(@)]
  /\ UNCHANGED <<db, external, loggedOut>>

\* The provider takes a code once.
Exchange(o) ==
  LET f == op[o].flow IN
  /\ op[o].pc = "exchange"
  /\ code[f] \notin {"none", "redeemed"}
  /\ code' = [code EXCEPT ![f] = "redeemed"]
  /\ Advance(o, [op[o] EXCEPT !.pc = "profile", !.email = code[f]])
  /\ UNCHANGED <<db, expired, flow, loggedOut, consumed>>

\* resolve_user_identity: an account of the address and the provider is
\* returned, one is created when the address has none, else there is a conflict.
ReturnExisting(u, e, p) == user[u].email = e /\ user[u].provider = p
Create(e) == \A v \in Users : user[v].email # e

\* Variant: the ban is not looked at.
FindUserBanned(o, u) ==
  LET e == op[o].email IN
  /\ op[o].pc = "profile"
  /\ \/ /\ ReturnExisting(u, e, op[o].provider)
        /\ Advance(o, [op[o] EXCEPT !.pc = "login", !.user = u])
     \/ /\ Create(e) /\ u \notin created
        /\ Advance(o, [op[o] EXCEPT !.pc = "login", !.user = u, !.new = TRUE])
  /\ UNCHANGED <<db, external, flow, loggedOut, consumed>>

\* The account is looked up by its address; a banned one is refused, as is a
\* conflict (Abort).
FindUser(o, u) ==
  LET e == op[o].email IN
  /\ op[o].pc = "profile"
  /\ \/ /\ ReturnExisting(u, e, op[o].provider) /\ ~user[u].banned
        /\ Advance(o, [op[o] EXCEPT !.pc = "login", !.user = u])
     \/ /\ Create(e) /\ u \notin created
        /\ Advance(o, [op[o] EXCEPT !.pc = "login", !.user = u, !.new = TRUE])
  /\ UNCHANGED <<db, external, flow, loggedOut, consumed>>

\* persist_session and the audit row, inserted with the account.
Insert(o, t) ==
  /\ op[o].pc = "login"
  /\ t \notin issued
  /\ sess' = [sess EXCEPT ![t] = [of |-> op[o].user, revoked |-> FALSE]]
  /\ issued' = issued \cup {t}
  /\ audit' = audit \cup {[user |-> op[o].user, provider |-> op[o].provider]}
  /\ End(o)
  /\ UNCHANGED <<external, flow, loggedOut, consumed>>

NewUser(o) ==
  LET u == op[o].user IN
  /\ u \notin created
  /\ user' = [user EXCEPT ![u] = [email |-> op[o].email, provider |-> op[o].provider,
                                  banned |-> FALSE]]
  /\ created' = created \cup {u}

\* Variant: the users table has no unique key on the address.
CommitLoginDuplicate(o, t) ==
  /\ Insert(o, t)
  /\ \/ op[o].new /\ NewUser(o)
     \/ ~op[o].new /\ Exists(op[o].user) /\ UNCHANGED <<user, created>>

\* The callback commits: the account if it is new, the session, the audit row.
\* The unique key on the address and the foreign key of the session may
\* refuse (Abort).
CommitLogin(o, t) ==
  /\ Insert(o, t)
  /\ \/ op[o].new /\ Create(op[o].email) /\ NewUser(o)
     \/ ~op[o].new /\ Exists(op[o].user) /\ UNCHANGED <<user, created>>

\* The handler is refused or fails; nothing of its transaction stays.
Abort(o) ==
  /\ op[o].pc # "idle"
  /\ End(o)
  /\ UNCHANGED <<db, external, flow, loggedOut, consumed>>

-----------------------------------------------------------------------------
(* Sessions *)

\* The row reaches its expires_at.
SessionExpires(t) ==
  /\ t \in issued \ expired
  /\ expired' = expired \cup {t}
  /\ UNCHANGED <<db, code, flow, loggedOut, consumed, op, overlapped>>

\* POST /auth/logout: the row is loaded.
BeginLogout(o, t) ==
  /\ sess[t].of # None
  /\ Begin(o, [Idle EXCEPT !.pc = "logout", !.token = t])
  /\ UNCHANGED <<db, external, flow, loggedOut, consumed>>

\* Variant: the router does not commit.
CommitLogoutLost(o) ==
  LET t == op[o].token IN
  /\ op[o].pc = "logout"
  /\ sess[t].of # None
  /\ loggedOut' = loggedOut \cup {t}
  /\ End(o)
  /\ UNCHANGED <<db, external, flow, consumed>>

\* The row is marked; one that is gone by now fails the request (Abort).
CommitLogout(o) ==
  LET t == op[o].token IN
  /\ op[o].pc = "logout"
  /\ sess[t].of # None
  /\ sess' = [sess EXCEPT ![t].revoked = TRUE]
  /\ loggedOut' = loggedOut \cup {t}
  /\ End(o)
  /\ UNCHANGED <<user, created, issued, audit, external, flow, consumed>>

\* POST /admin/users/{id}/ban by some super admin.
BeginBan(o, u) ==
  /\ Exists(u)
  /\ Begin(o, [Idle EXCEPT !.pc = "ban", !.user = u])
  /\ UNCHANGED <<db, external, flow, loggedOut, consumed>>

\* The account's sessions are deleted and it is marked, in one transaction.
CommitBan(o) ==
  LET u == op[o].user IN
  /\ op[o].pc = "ban"
  /\ Exists(u)
  /\ user' = [user EXCEPT ![u].banned = TRUE]
  /\ sess' = [t \in Tokens |-> IF sess[t].of = u THEN NoSess ELSE sess[t]]
  /\ End(o)
  /\ UNCHANGED <<created, issued, audit, external, flow, loggedOut, consumed>>

\* DELETE /admin/users/{id}: the sessions go with the account, audit rows no
\* longer name it.
DeleteUser(u) ==
  /\ Exists(u)
  /\ user' = [user EXCEPT ![u] = NoUser]
  /\ sess' = [t \in Tokens |-> IF sess[t].of = u THEN NoSess ELSE sess[t]]
  /\ audit' = {a \in audit : a.user # u}
  /\ UNCHANGED <<created, issued, external, flow, loggedOut, consumed, op, overlapped>>

-----------------------------------------------------------------------------
LoginNext(o) ==
  \/ \E f \in Flows, p \in Providers : ReadFlow(o, f, p)
  \/ ConsumeFlow(o)
  \/ Exchange(o)
  \/ \E u \in Users : FindUser(o, u)
  \/ \E t \in Tokens : CommitLogin(o, t)

OpNext(o) ==
  \/ LoginNext(o)
  \/ \E t \in Tokens : BeginLogout(o, t)
  \/ CommitLogout(o)
  \/ \E u \in Users : BeginBan(o, u)
  \/ CommitBan(o)
  \/ Abort(o)

Next ==
  \/ \E f \in Flows : \/ \E p \in Providers : BeginLogin(f, p)
                      \/ FlowExpires(f)
                      \/ \E e \in Emails : Consent(f, e)
  \/ \E t \in Tokens : SessionExpires(t)
  \/ \E u \in Users : DeleteUser(u)
  \/ \E o \in Ops : OpNext(o)

Spec == Init /\ [][Next]_vars

-----------------------------------------------------------------------------
(* Correctness *)

\* A login never ends in an account of the other provider, nor in a second
\* account for the address, whichever callbacks overlap (complete_login,
\* Requirements 1.3 and 1.7).
LoginMatchesAccount ==
  /\ \A a \in audit : user[a.user].provider = a.provider
  /\ \A u, v \in Users : Exists(u) /\ user[u].email = user[v].email => u = v

\* A token is never accepted again once its logout was answered, also when a
\* ban or a deletion of the account overlaps with it (logout).
LoggedOutIsRefused == \A t \in loggedOut : ~Accepted(t)

\* As long as no two handlers overlap, a state is used by one callback
\* (_consume_flow: "single-use").
FlowUsedOnce == overlapped \/ \A f \in Flows : consumed[f] <= 1

\* As long as no two handlers overlap, no token of a banned user is accepted
\* (ban_user, whose marks nobody but the login reads).
BannedIsLockedOut == overlapped \/ \A t \in Tokens : Accepted(t) => ~user[sess[t].of].banned

\* Handlers that hold a profile the provider gave them.
Holding == {o \in Ops : op[o].pc \in {"profile", "login"}}
Opened == {x \in Flows \X Providers : flow[x[1]] = x[2]}
            \cup {<<op[o].flow, op[o].provider>> : o \in {q \in Ops : op[q].provider # None}}
Agreed == {x \in Flows \X Emails : code[x[1]] = x[2]}
            \cup {<<op[o].flow, op[o].email>> : o \in Holding}

Promise == INSTANCE Accounts WITH
  begun <- {f \in Flows : flow[f] # "none"},
  known <- Opened,
  asked <- {f \in Flows : code[f] # "none"},
  open <- Agreed

\* Whichever callbacks, bans, logouts and deletions overlap, each login might as
\* well be one step of Accounts: one agreement at the provider opens one session
\* at most, also when two callbacks carry the same state, and it is a session of
\* the account its address has at the provider the state was made for
\* (complete_login with the unique keys, and the provider taking a code once).
LoginsAreAtomic == Promise!Spec
=============================================================================
