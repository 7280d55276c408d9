------------------------- MODULE AuthSession_proofs -------------------------
(***************************************************************************)
(* Proofs about AuthSession, for any accounts, flows, tokens and handlers. *)
(***************************************************************************)
EXTENDS AuthSession, TLAPS

USE DEF db, external

-----------------------------------------------------------------------------
(* Type correctness.  A handler works with the flow, the account or the      *)
(* token that its step calls for, and only issued tokens have rows.          *)

TypeInv ==
  /\ TypeOK
  /\ \A t \in Tokens : sess[t].of # None => t \in issued
  /\ \A o \in Ops :
       /\ op[o].pc \in {"flow", "exchange", "profile", "login"} => op[o].flow \in Flows
       /\ op[o].pc \in {"exchange", "profile", "login"} => op[o].provider \in Providers
       /\ op[o].pc \in {"profile", "login"} => op[o].email \in Emails
       /\ op[o].pc \in {"login", "ban"} => op[o].user \in Users
       /\ op[o].pc = "logout" => op[o].token \in Tokens

LEMMA ConstantTypes == Idle \in Op /\ NoUser \in User /\ NoSess \in Sess
  BY DEF Idle, Op, NoUser, User, NoSess, Sess

THEOREM InitTypeInv == Init => TypeInv
  <1> SUFFICES ASSUME Init PROVE TypeInv
    OBVIOUS
  <1>1. overlapped \in BOOLEAN
    BY Zenon DEF Init
  <1> QED
    BY <1>1, ConstantTypes, ConstantsAssumption DEF Init, TypeInv, TypeOK, Idle, NoSess

THEOREM StepTypeInv == TypeInv /\ [Next]_vars => TypeInv'
  <1> SUFFICES ASSUME TypeInv, [Next]_vars PROVE TypeInv'
    OBVIOUS
  <1> USE DEF TypeInv, TypeOK
  <1>a. overlapped' \in BOOLEAN
    BY Zenon DEF Next, BeginLogin, FlowExpires, Consent, SessionExpires, DeleteUser, OpNext,
       LoginNext, ReadFlow, ConsumeFlow, Exchange, FindUser, CommitLogin, Insert, BeginLogout,
       CommitLogout, BeginBan, CommitBan, Abort, Begin, Advance, End, vars
  <1> USE <1>a
  <1>1. ASSUME NEW f \in Flows PROVE
          /\ \A p \in Providers : BeginLogin(f, p) => TypeInv'
          /\ FlowExpires(f) => TypeInv'
          /\ \A e \in Emails : Consent(f, e) => TypeInv'
    BY DEF BeginLogin, FlowExpires, Consent
  <1>2. ASSUME NEW t \in Tokens, SessionExpires(t) PROVE TypeInv'
    BY <1>2 DEF SessionExpires
  <1>3. ASSUME NEW u \in Users, DeleteUser(u) PROVE TypeInv'
    BY <1>3, ConstantTypes DEF DeleteUser, NoSess
  <1>4. ASSUME NEW o \in Ops, OpNext(o) PROVE TypeInv'
    <2>0. op[o] \in Op
      OBVIOUS
    <2>1. ASSUME NEW f \in Flows, NEW p \in Providers, ReadFlow(o, f, p) PROVE TypeInv'
      BY <2>1, ConstantTypes DEF ReadFlow, Begin, Idle, Op
    <2>2. CASE ConsumeFlow(o)
      <3>1. CASE op[o].provider = None
        <4>1. /\ op' = [op EXCEPT ![o] = Idle]
              /\ flow' = [flow EXCEPT ![op[o].flow] = "gone"]
              /\ UNCHANGED <<db, external, loggedOut, consumed>>
          BY <2>2, <3>1 DEF ConsumeFlow, End, Advance
        <4> QED
          BY <4>1, ConstantTypes DEF Idle
      <3>2. CASE op[o].provider # None
        <4>1. /\ op[o].flow \in Flows
              /\ op[o].provider \in Providers
              /\ consumed' \in [Flows -> 0..2]
          BY <2>2, <3>2, <2>0 DEF ConsumeFlow, Op, Upto2
        <4> QED
          BY <2>2, <3>2, <4>1, <2>0 DEF ConsumeFlow, Advance, Op
      <3> QED
        BY <3>1, <3>2
    <2>3. CASE Exchange(o)
      BY <2>3, <2>0 DEF Exchange, Advance, Op
    <2>4. ASSUME NEW u \in Users, FindUser(o, u) PROVE TypeInv'
      <3>1. PICK new \in BOOLEAN :
              /\ op' = [op EXCEPT ![o] = [op[o] EXCEPT !.pc = "login", !.user = u, !.new = new]]
              /\ UNCHANGED <<db, external, flow, loggedOut, consumed>>
        <4>1. \/ op' = [op EXCEPT ![o] = [op[o] EXCEPT !.pc = "login", !.user = u]]
              \/ op' = [op EXCEPT ![o] = [op[o] EXCEPT !.pc = "login", !.user = u, !.new = TRUE]]
          BY <2>4 DEF FindUser, Advance
        <4>2. [op[o] EXCEPT !.pc = "login", !.user = u]
                = [op[o] EXCEPT !.pc = "login", !.user = u, !.new = op[o].new]
          BY <2>0 DEF Op
        <4>3. op[o].new \in BOOLEAN
          BY <2>0, Zenon DEF Op
        <4> QED
          BY <2>4, <4>1, <4>2, <4>3 DEF FindUser
      <3>2. op[o].pc = "profile"
        BY <2>4 DEF FindUser
      <3>3. [op[o] EXCEPT !.pc = "login", !.user = u, !.new = new] \in Op
        BY <2>0 DEF Op
      <3> QED
        BY <3>1, <3>2, <3>3, <2>0 DEF Op
    <2>5. ASSUME NEW t \in Tokens, CommitLogin(o, t) PROVE TypeInv'
      <3>1. /\ sess' \in [Tokens -> Sess]
            /\ audit' \subseteq [user : Users, provider : Providers]
            /\ issued' = issued \cup {t}
            /\ \A k \in Tokens : sess'[k].of # None => k \in issued'
        BY <2>5 DEF CommitLogin, Insert, Sess
      <3>2. user' \in [Users -> User] /\ created' \subseteq Users
        <4>1. [email |-> op[o].email, provider |-> op[o].provider, banned |-> FALSE] \in User
          BY <2>5 DEF CommitLogin, Insert, User
        <4>2. op[o].user \in Users
          BY <2>5 DEF CommitLogin, Insert
        <4> QED
          BY <2>5, <4>1, <4>2 DEF CommitLogin, NewUser
      <3> QED
        BY <2>5, <3>1, <3>2, ConstantTypes DEF CommitLogin, Insert, End, Advance, Idle
    <2>6. ASSUME NEW t \in Tokens, BeginLogout(o, t) PROVE TypeInv'
      BY <2>6, ConstantTypes DEF BeginLogout, Begin, Idle, Op
    <2>7. CASE CommitLogout(o)
      BY <2>7, ConstantTypes DEF CommitLogout, End, Advance, Idle, Sess
    <2>8. ASSUME NEW u \in Users, BeginBan(o, u) PROVE TypeInv'
      BY <2>8, ConstantTypes DEF BeginBan, Begin, Idle, Op
    <2>9. CASE CommitBan(o)
      BY <2>9, ConstantTypes DEF CommitBan, End, Advance, Idle, User, NoSess
    <2>10. CASE Abort(o)
      BY <2>10, ConstantTypes DEF Abort, End, Advance, Idle
    <2> QED
      BY <1>4, <2>1, <2>2, <2>3, <2>4, <2>5, <2>6, <2>7, <2>8, <2>9, <2>10
      DEF OpNext, LoginNext
  <1>5. CASE UNCHANGED vars
    BY <1>5 DEF vars
  <1> QED
    BY <1>1, <1>2, <1>3, <1>4, <1>5 DEF Next

THEOREM TypeInvariant == Spec => []TypeInv
  BY InitTypeInv, StepTypeInv, PTL DEF Spec

\* The type invariant: rows, flow entries, codes and handlers are well formed;
\* only issued tokens expire or are logged out.
THEOREM TypeCorrect == Spec => []TypeOK
  <1>1. TypeInv => TypeOK
    BY DEF TypeInv
  <1> QED
    BY <1>1, TypeInvariant, PTL

-----------------------------------------------------------------------------
(* Logout.  The mark is kept as long as the row is there, and a token is     *)
(* issued once: its row never comes back.                                    *)

LoggedInv == \A t \in loggedOut : sess[t].of = None \/ sess[t].revoked

THEOREM StepLogged == TypeInv /\ LoggedInv /\ [Next]_vars => LoggedInv'
  <1> SUFFICES ASSUME TypeInv, LoggedInv, [Next]_vars, NEW t \in loggedOut'
               PROVE  sess'[t].of = None \/ sess'[t].revoked
    BY DEF LoggedInv
  <1> USE DEF TypeInv, TypeOK, LoggedInv
  <1>1. ASSUME NEW f \in Flows PROVE
          /\ \A p \in Providers : BeginLogin(f, p) => sess'[t].of = None \/ sess'[t].revoked
          /\ FlowExpires(f) => sess'[t].of = None \/ sess'[t].revoked
          /\ \A e \in Emails : Consent(f, e) => sess'[t].of = None \/ sess'[t].revoked
    BY DEF BeginLogin, FlowExpires, Consent
  <1>2. ASSUME NEW k \in Tokens, SessionExpires(k)
        PROVE  sess'[t].of = None \/ sess'[t].revoked
    BY <1>2 DEF SessionExpires
  <1>3. ASSUME NEW u \in Users, DeleteUser(u) PROVE sess'[t].of = None \/ sess'[t].revoked
    BY <1>3 DEF DeleteUser, NoSess
  <1>4. ASSUME NEW o \in Ops, OpNext(o) PROVE sess'[t].of = None \/ sess'[t].revoked
    <2>1. ASSUME NEW k \in Tokens, CommitLogin(o, k)
          PROVE  sess'[t].of = None \/ sess'[t].revoked
      BY <2>1 DEF CommitLogin, Insert
    <2>2. CASE CommitLogout(o)
      BY <2>2 DEF CommitLogout, Sess
    <2>3. CASE CommitBan(o)
      BY <2>3 DEF CommitBan, NoSess
    <2>4. CASE UNCHANGED <<sess, loggedOut>>
      BY <2>4
    <2> QED
      BY <1>4, <2>1, <2>2, <2>3, <2>4
      DEF OpNext, LoginNext, ReadFlow, ConsumeFlow, Exchange, FindUser, BeginLogout, BeginBan,
          Abort
  <1>5. CASE UNCHANGED vars
    BY <1>5 DEF vars
  <1> QED
    BY <1>1, <1>2, <1>3, <1>4, <1>5 DEF Next

\* No token is accepted after its logout was answered, whatever bans, deletions
\* and logins overlap with it.
THEOREM LogoutIsFinal == Spec => []LoggedOutIsRefused
  <1>1. Init => LoggedInv
    BY DEF Init, LoggedInv
  <1>2. LoggedInv => LoggedOutIsRefused
    BY DEF LoggedInv, LoggedOutIsRefused, Accepted, Valid
  <1> QED
    BY <1>1, <1>2, StepLogged, TypeInvariant, PTL DEF Spec

-----------------------------------------------------------------------------
(* Accounts.  An id stands for one account for ever, so a callback that      *)
(* found an account of its provider commits into that account or none.       *)

AccountInv ==
  /\ \A u \in Users : Exists(u) => u \in created
  /\ \A a \in audit : Exists(a.user) /\ user[a.user].provider = a.provider
  /\ \A u, v \in Users : Exists(u) /\ user[u].email = user[v].email => u = v
  /\ \A o \in Ops : op[o].pc = "login" /\ ~op[o].new =>
       /\ op[o].user \in created
       /\ Exists(op[o].user) => user[op[o].user].provider = op[o].provider

LEMMA InitAccount == Init => AccountInv
  BY DEF Init, AccountInv, Exists, NoUser, Idle

THEOREM StepAccount == TypeInv /\ AccountInv /\ [Next]_vars => AccountInv'
  <1> SUFFICES ASSUME TypeInv, AccountInv, [Next]_vars PROVE AccountInv'
    OBVIOUS
  <1> USE DEF TypeInv, TypeOK, AccountInv, Exists
  <1>1. ASSUME NEW f \in Flows PROVE
          /\ \A p \in Providers : BeginLogin(f, p) => AccountInv'
          /\ FlowExpires(f) => AccountInv'
          /\ \A e \in Emails : Consent(f, e) => AccountInv'
    BY DEF BeginLogin, FlowExpires, Consent
  <1>2. ASSUME NEW t \in Tokens, SessionExpires(t) PROVE AccountInv'
    BY <1>2 DEF SessionExpires
  <1>3. ASSUME NEW u \in Users, DeleteUser(u) PROVE AccountInv'
    BY <1>3 DEF DeleteUser, NoUser
  <1>4. ASSUME NEW o \in Ops, OpNext(o) PROVE AccountInv'
    <2>0. op[o] \in Op
      OBVIOUS
    <2>1. ASSUME NEW f \in Flows, NEW p \in Providers, ReadFlow(o, f, p) PROVE AccountInv'
      BY <2>1 DEF ReadFlow, Begin, Idle
    <2>2. CASE ConsumeFlow(o)
      <3>1. UNCHANGED db /\ op' \in {[op EXCEPT ![o] = Idle],
                                     [op EXCEPT ![o] = [op[o] EXCEPT !.pc = "exchange"]]}
        BY <2>2 DEF ConsumeFlow, End, Advance
      <3>2. \A q \in Ops : op'[q].pc = "login" => op'[q] = op[q]
        <4>1. CASE op' = [op EXCEPT ![o] = Idle]
          BY <4>1 DEF Idle
        <4>2. CASE op' = [op EXCEPT ![o] = [op[o] EXCEPT !.pc = "exchange"]]
          BY <4>2, <2>0 DEF Op
        <4> QED
          BY <3>1, <4>1, <4>2
      <3> QED
        BY <3>1, <3>2
    <2>3. CASE Exchange(o)
      BY <2>3, <2>0 DEF Exchange, Advance, Op
    <2>4. ASSUME NEW u \in Users, FindUser(o, u) PROVE AccountInv'
      <3>0. op[o].email \in Emails /\ op[o].email # None
        BY <2>4, ConstantsAssumption DEF FindUser
      <3>1. CASE ReturnExisting(u, op[o].email, op[o].provider)
                 /\ op' = [op EXCEPT ![o] = [op[o] EXCEPT !.pc = "login", !.user = u]]
        BY <2>4, <3>0, <3>1, <2>0 DEF FindUser, ReturnExisting, Op
      <3>2. CASE op' = [op EXCEPT ![o] = [op[o] EXCEPT !.pc = "login", !.user = u, !.new = TRUE]]
        BY <2>4, <3>2, <2>0 DEF FindUser, Op
      <3> QED
        BY <2>4, <3>1, <3>2 DEF FindUser, Advance
    <2>5. ASSUME NEW t \in Tokens, CommitLogin(o, t) PROVE AccountInv'
      <3>0. /\ op[o].pc = "login"
            /\ op[o].user \in Users
            /\ op' = [op EXCEPT ![o] = Idle]
            /\ audit' = audit \cup {[user |-> op[o].user, provider |-> op[o].provider]}
        BY <2>5 DEF CommitLogin, Insert, End, Advance
      <3>1. CASE op[o].new /\ Create(op[o].email) /\ NewUser(o)
        <4>1. op[o].email # None /\ op[o].user \notin created
          BY <3>0, <3>1, ConstantsAssumption DEF NewUser
        <4>2. \A a \in audit : a.user # op[o].user
          BY <4>1
        <4> QED
          BY <3>0, <3>1, <4>1, <4>2 DEF NewUser, Create, Idle
      <3>2. CASE ~op[o].new /\ Exists(op[o].user) /\ UNCHANGED <<user, created>>
        BY <3>0, <3>2 DEF Idle
      <3> QED
        BY <2>5, <3>1, <3>2 DEF CommitLogin
    <2>6. ASSUME NEW t \in Tokens, BeginLogout(o, t) PROVE AccountInv'
      BY <2>6 DEF BeginLogout, Begin, Idle
    <2>7. CASE CommitLogout(o)
      BY <2>7 DEF CommitLogout, End, Advance, Idle
    <2>8. ASSUME NEW u \in Users, BeginBan(o, u) PROVE AccountInv'
      BY <2>8 DEF BeginBan, Begin, Idle
    <2>9. CASE CommitBan(o)
      BY <2>9 DEF CommitBan, End, Advance, Idle, User
    <2>10. CASE Abort(o)
      BY <2>10 DEF Abort, End, Advance, Idle
    <2> QED
      BY <1>4, <2>1, <2>2, <2>3, <2>4, <2>5, <2>6, <2>7, <2>8, <2>9, <2>10
      DEF OpNext, LoginNext
  <1>5. CASE UNCHANGED vars
    BY <1>5 DEF vars
  <1> QED
    BY <1>1, <1>2, <1>3, <1>4, <1>5 DEF Next

\* Whichever callbacks overlap, a login is recorded for an account of its own
\* provider and an address has one account.
THEOREM LoginsMatchAccounts == Spec => []LoginMatchesAccount
  <1>1. AccountInv => LoginMatchesAccount
    BY DEF AccountInv, LoginMatchesAccount
  <1> QED
    BY <1>1, InitAccount, StepAccount, TypeInvariant, PTL DEF Spec

-----------------------------------------------------------------------------
(* Without overlap.  One handler at most is in progress: a flow entry that   *)
(* it has read was not consumed by another callback, and an account that it  *)
(* has found is not banned before its session is there to be deleted.        *)

Serial ==
  /\ \A o, p \in Ops : op[o].pc # "idle" /\ op[p].pc # "idle" => o = p
  /\ \A o \in Ops : op[o].pc = "flow" => consumed[op[o].flow] = 0
  /\ \A f \in Flows : consumed[f] <= 1
  /\ \A o \in Ops : op[o].pc = "login" /\ ~op[o].new => user[op[o].user].banned = FALSE
  /\ \A t \in Tokens : sess[t].of # None => user[sess[t].of].banned = FALSE

SerialInv ==
  /\ \A f \in Flows : consumed[f] # 0 => flow[f] = "gone"
  /\ overlapped \/ Serial

LEMMA InitSerial == Init => SerialInv
  BY ConstantsAssumption DEF Init, SerialInv, Serial, Idle, NoSess

THEOREM StepSerial == TypeInv /\ SerialInv /\ [Next]_vars => SerialInv'
  <1> SUFFICES ASSUME TypeInv, SerialInv, [Next]_vars PROVE SerialInv'
    OBVIOUS
  <1> USE DEF TypeInv, TypeOK, SerialInv
  <1>1. ASSUME NEW f \in Flows PROVE
          /\ \A p \in Providers : BeginLogin(f, p) => SerialInv'
          /\ FlowExpires(f) => SerialInv'
          /\ \A e \in Emails : Consent(f, e) => SerialInv'
    BY DEF BeginLogin, FlowExpires, Consent, Serial
  <1>2. ASSUME NEW t \in Tokens, SessionExpires(t) PROVE SerialInv'
    BY <1>2 DEF SessionExpires, Serial
  <1>3. ASSUME NEW u \in Users, DeleteUser(u) PROVE SerialInv'
    <2>1. UNCHANGED <<flow, consumed, op, overlapped>>
      BY <1>3 DEF DeleteUser
    <2>2. \A v \in Users : user[v].banned = FALSE => user'[v].banned = FALSE
      BY <1>3 DEF DeleteUser, NoUser
    <2>3. \A t \in Tokens : sess'[t] = NoSess \/ sess'[t] = sess[t]
      BY <1>3 DEF DeleteUser
    <2>4. ASSUME Serial, NEW t \in Tokens, sess'[t].of # None
          PROVE  user'[sess'[t].of].banned = FALSE
      BY <2>2, <2>3, <2>4 DEF Serial, Sess, NoSess
    <2> QED
      BY <2>1, <2>2, <2>4 DEF Serial
  <1>4. ASSUME NEW o \in Ops, OpNext(o) PROVE SerialInv'
    <2>0. op[o] \in Op
      OBVIOUS
    <2>1. ASSUME NEW f \in Flows, NEW p \in Providers, ReadFlow(o, f, p) PROVE SerialInv'
      <3>1. consumed[f] = 0
        BY <2>1 DEF ReadFlow, Pending
      <3> QED
        BY <2>1, <3>1 DEF ReadFlow, Begin, Idle, Serial
    <2>2. CASE ConsumeFlow(o)
      <3>1. CASE op[o].provider = None
        BY <2>2, <3>1 DEF ConsumeFlow, End, Advance, Idle, Serial
      <3>2. CASE op[o].provider # None
        <4>1. /\ op[o].flow \in Flows
              /\ op' = [op EXCEPT ![o] = [op[o] EXCEPT !.pc = "exchange"]]
              /\ consumed' = [consumed EXCEPT ![op[o].flow] = Upto2(@)]
              /\ flow' = [flow EXCEPT ![op[o].flow] = "gone"]
              /\ UNCHANGED <<user, sess, overlapped>>
              /\ op[o].pc = "flow"
          BY <2>2, <3>2 DEF ConsumeFlow, Advance
        <4>2. Serial => Serial'
          BY <4>1, <2>0 DEF Op, Upto2, Serial
        <4> QED
          BY <4>1, <4>2 DEF Upto2
      <3> QED
        BY <3>1, <3>2
    <2>3. CASE Exchange(o)
      BY <2>3, <2>0 DEF Exchange, Advance, Op, Serial
    <2>4. ASSUME NEW u \in Users, FindUser(o, u) PROVE SerialInv'
      <3>1. /\ op[o].pc = "profile"
            /\ op'[o].pc = "login" /\ op'[o].user = u
            /\ \A p \in Ops \ {o} : op'[p] = op[p]
            /\ UNCHANGED <<user, sess, flow, consumed, overlapped>>
        <4>1. \/ op' = [op EXCEPT ![o] = [op[o] EXCEPT !.pc = "login", !.user = u]]
              \/ op' = [op EXCEPT ![o] = [op[o] EXCEPT !.pc = "login", !.user = u, !.new = TRUE]]
          BY <2>4 DEF FindUser, Advance
        <4>2. op'[o].pc = "login" /\ op'[o].user = u
          <5>1. CASE op' = [op EXCEPT ![o] = [op[o] EXCEPT !.pc = "login", !.user = u]]
            BY <5>1, <2>0 DEF Op
          <5>2. CASE op' = [op EXCEPT ![o] = [op[o] EXCEPT !.pc = "login", !.user = u,
                                                           !.new = TRUE]]
            BY <5>2, <2>0 DEF Op
          <5> QED
            BY <4>1, <5>1, <5>2
        <4>3. \A p \in Ops \ {o} : op'[p] = op[p]
          BY <4>1
        <4> QED
          BY <2>4, <4>2, <4>3 DEF FindUser, Advance
      <3>2. ~op'[o].new => ~user[u].banned
        <4>1. ~user[u].banned \/ op' = [op EXCEPT ![o] = [op[o] EXCEPT !.pc = "login", !.user = u,
                                                                       !.new = TRUE]]
          BY <2>4 DEF FindUser, Advance
        <4> QED
          BY <4>1, <2>0 DEF Op
      <3>3. ~op'[o].new => user[u].banned = FALSE
        BY <3>2, Zenon DEF User
      <3> QED
        BY <3>1, <3>3 DEF Serial
    <2>5. ASSUME NEW t \in Tokens, CommitLogin(o, t) PROVE SerialInv'
      <3>0. /\ op[o].pc = "login"
            /\ op[o].user \in Users
            /\ op' = [op EXCEPT ![o] = Idle]
            /\ sess' = [sess EXCEPT ![t] = [of |-> op[o].user, revoked |-> FALSE]]
            /\ UNCHANGED <<flow, consumed, overlapped>>
        BY <2>5 DEF CommitLogin, Insert, End, Advance
      <3>1. ASSUME Serial
            PROVE  \A v \in Users : user[v].banned = FALSE => user'[v].banned = FALSE
        BY <2>5, <3>0 DEF CommitLogin, NewUser
      <3>2. ASSUME Serial PROVE user'[op[o].user].banned = FALSE
        BY <2>5, <3>0, <3>2 DEF CommitLogin, NewUser, Serial
      <3>3. ASSUME Serial, NEW k \in Tokens, sess'[k].of # None
            PROVE  user'[sess'[k].of].banned = FALSE
        BY <3>0, <3>1, <3>2, <3>3 DEF Serial, Sess
      <3> QED
        BY <3>0, <3>3 DEF Idle, Serial
    <2>6. ASSUME NEW t \in Tokens, BeginLogout(o, t) PROVE SerialInv'
      BY <2>6 DEF BeginLogout, Begin, Idle, Serial
    <2>7. CASE CommitLogout(o)
      BY <2>7 DEF CommitLogout, End, Advance, Idle, Serial, Sess
    <2>8. ASSUME NEW u \in Users, BeginBan(o, u) PROVE SerialInv'
      BY <2>8 DEF BeginBan, Begin, Idle, Serial
    <2>9. CASE CommitBan(o)
      <3>1. /\ op[o].pc = "ban"
            /\ op[o].user \in Users
            /\ op' = [op EXCEPT ![o] = Idle]
            /\ UNCHANGED <<flow, consumed, overlapped>>
            /\ \A v \in Users : v # op[o].user => user'[v] = user[v]
        BY <2>9 DEF CommitBan, End, Advance
      <3>2. ASSUME Serial, NEW t \in Tokens, sess'[t].of # None
            PROVE  user'[sess'[t].of].banned = FALSE
        BY <2>9, <3>1, <3>2 DEF CommitBan, Serial, Sess, NoSess
      <3> QED
        BY <3>1, <3>2 DEF Idle, Serial
    <2>10. CASE Abort(o)
      BY <2>10 DEF Abort, End, Advance, Idle, Serial
    <2> QED
      BY <1>4, <2>1, <2>2, <2>3, <2>4, <2>5, <2>6, <2>7, <2>8, <2>9, <2>10
      DEF OpNext, LoginNext
  <1>5. CASE UNCHANGED vars
    BY <1>5 DEF vars, Serial
  <1> QED
    BY <1>1, <1>2, <1>3, <1>4, <1>5 DEF Next

THEOREM SerialInvariant == Spec => []SerialInv
  BY InitSerial, StepSerial, TypeInvariant, PTL DEF Spec

\* Until handlers overlap a state takes one callback to the provider: the gap
\* between reading and deleting its entry is the only way to use it twice.
THEOREM SerialFlowsUsedOnce == Spec => []FlowUsedOnce
  <1>1. SerialInv => FlowUsedOnce
    BY DEF SerialInv, Serial, FlowUsedOnce
  <1> QED
    BY <1>1, SerialInvariant, PTL

\* Until handlers overlap no session of a banned account is accepted: a login
\* that is under way during the ban is the only way around it.
THEOREM SerialBansLockOut == Spec => []BannedIsLockedOut
  <1>1. SerialInv => BannedIsLockedOut
    BY DEF SerialInv, Serial, BannedIsLockedOut, Accepted, Valid
  <1> QED
    BY <1>1, SerialInvariant, PTL

-----------------------------------------------------------------------------
(* Logins implement Accounts under any overlap.  A callback that holds a     *)
(* profile holds the one agreement of its flow: the provider took its code,  *)
(* and takes it once.  What it found is of its address still, or is gone.    *)

Holds(o) ==
  /\ op[o].pc = "flow" => flow[op[o].flow] # "none"
  /\ o \in Holding => code[op[o].flow] = "redeemed"
  /\ op[o].pc \in {"logout", "ban"} => op[o].provider = None
  /\ op[o].pc = "login" /\ ~op[o].new /\ Exists(op[o].user) =>
       user[op[o].user].email = op[o].email

HeldInv ==
  /\ \A o \in Ops : Holds(o)
  /\ \A o, q \in Holding : op[o].flow = op[q].flow => o = q

\* What a handler may become: a step it takes leaves the others alone.
LEMMA HandlerMoves ==
  ASSUME TypeInv, NEW o \in Ops, NEW h, op' = [op EXCEPT ![o] = h]
  PROVE  op'[o] = h /\ \A q \in Ops \ {o} : op'[q] = op[q]
  BY DEF TypeInv, TypeOK

\* A step of o does not disturb what the others hold: entries do not become
\* fresh again, nor codes, and the address of an account that was found stays.
LEMMA OthersHold ==
  ASSUME TypeInv, AccountInv, HeldInv, NEW o \in Ops,
         \A q \in Ops \ {o} : op'[q] = op[q],
         \A f \in Flows : flow[f] # "none" => flow'[f] # "none",
         \A f \in Flows : code[f] = "redeemed" => code'[f] = "redeemed",
         \A u \in created : user'[u].email \in {user[u].email, None},
         Holds(o)',
         o \in Holding' => \A q \in Holding \ {o} : op[q].flow # op'[o].flow
  PROVE  HeldInv'
  <1>1. ASSUME NEW q \in Ops \ {o} PROVE Holds(q)'
    <2>1. Holds(q) /\ op'[q] = op[q]
      BY DEF HeldInv
    <2>2. op[q].pc = "flow" => flow'[op[q].flow] # "none"
      BY <2>1 DEF Holds, TypeInv
    <2>3. q \in Holding => code'[op[q].flow] = "redeemed"
      BY <2>1 DEF Holds, Holding, TypeInv
    <2>4. op[q].pc = "login" /\ ~op[q].new /\ user'[op[q].user].email # None =>
            user'[op[q].user].email = op[q].email
      BY <2>1 DEF Holds, AccountInv, Exists
    <2> QED
      BY <2>1, <2>2, <2>3, <2>4 DEF Holds, Holding, Exists
  <1>2. \A p, q \in Holding' : op'[p].flow = op'[q].flow => p = q
    <2>1. \A q \in Holding' : q = o \/ (q \in Holding /\ op'[q] = op[q])
      BY DEF Holding
    <2> QED
      BY <2>1 DEF HeldInv
  <1> QED
    BY <1>1, <1>2 DEF HeldInv

\* A handler that is not at a profile is easily seen to hold nothing.
LEMMA EndKeepsHeld ==
  ASSUME TypeInv, AccountInv, HeldInv, NEW o \in Ops, op' = [op EXCEPT ![o] = Idle],
         UNCHANGED code,
         \A f \in Flows : flow[f] # "none" => flow'[f] # "none",
         \A u \in created : user'[u].email \in {user[u].email, None}
  PROVE  HeldInv'
  <1>1. op'[o] = Idle /\ \A q \in Ops \ {o} : op'[q] = op[q]
    BY HandlerMoves
  <1>2. Holds(o)' /\ o \notin Holding'
    BY <1>1 DEF Holds, Holding, Idle
  <1> QED
    BY <1>1, <1>2, OthersHold

LEMMA StepHeld == TypeInv /\ AccountInv /\ HeldInv /\ [Next]_vars => HeldInv'
  <1> SUFFICES ASSUME TypeInv, AccountInv, HeldInv, [Next]_vars PROVE HeldInv'
    OBVIOUS
  <1>1. ASSUME NEW f \in Flows PROVE
          /\ \A p \in Providers : BeginLogin(f, p) => HeldInv'
          /\ FlowExpires(f) => HeldInv'
          /\ \A e \in Emails : Consent(f, e) => HeldInv'
    BY ConstantsAssumption
    DEF BeginLogin, FlowExpires, Consent, Holds, HeldInv, Holding, Exists, TypeInv, TypeOK
  <1>2. ASSUME NEW t \in Tokens, SessionExpires(t) PROVE HeldInv'
    BY <1>2 DEF SessionExpires, Holds, HeldInv, Holding, Exists
  <1>3. ASSUME NEW u \in Users, DeleteUser(u) PROVE HeldInv'
    BY <1>3 DEF DeleteUser, Holds, HeldInv, Holding, Exists, NoUser, TypeInv, TypeOK
  <1>4. ASSUME NEW o \in Ops, OpNext(o) PROVE HeldInv'
    <2>0. op[o] \in Op
      BY DEF TypeInv, TypeOK
    <2>a. ASSUME op' = [op EXCEPT ![o] = Idle], UNCHANGED <<user, code, flow>> PROVE HeldInv'
      BY <2>a, EndKeepsHeld
    <2>1. ASSUME NEW f \in Flows, NEW p \in Providers, ReadFlow(o, f, p) PROVE HeldInv'
      <3>0. /\ op'[o] = [Idle EXCEPT !.pc = "flow", !.flow = f,
                                     !.provider = IF flow[f] = p THEN p ELSE None]
            /\ \A q \in Ops \ {o} : op'[q] = op[q]
        BY <2>1, HandlerMoves DEF ReadFlow, Begin
      <3>1. op'[o].pc = "flow" /\ op'[o].flow = f
        BY <3>0 DEF Idle
      <3>2. UNCHANGED <<user, code, flow>> /\ flow[f] # "none"
        BY <2>1 DEF ReadFlow, Pending
      <3>3. Holds(o)' /\ o \notin Holding'
        BY <3>1, <3>2 DEF Holds, Holding
      <3> QED
        BY <3>0, <3>1, <3>2, <3>3, OthersHold
    <2>2. CASE ConsumeFlow(o)
      <3>1. /\ \A f \in Flows : flow[f] # "none" => flow'[f] # "none"
            /\ UNCHANGED <<user, code>>
        BY <2>2 DEF ConsumeFlow, TypeInv, TypeOK
      <3>2. CASE op' = [op EXCEPT ![o] = Idle]
        BY <3>1, <3>2, EndKeepsHeld
      <3>3. CASE op' = [op EXCEPT ![o] = [op[o] EXCEPT !.pc = "exchange"]]
        <4>1. op'[o] = [op[o] EXCEPT !.pc = "exchange"] /\ \A q \in Ops \ {o} : op'[q] = op[q]
          BY <3>3, HandlerMoves
        <4>2. op'[o].pc = "exchange"
          BY <2>0, <4>1 DEF Op
        <4>3. Holds(o)' /\ o \notin Holding'
          BY <4>2 DEF Holds, Holding
        <4> QED
          BY <3>1, <4>1, <4>3, OthersHold
      <3> QED
        BY <2>2, <3>2, <3>3 DEF ConsumeFlow, End, Advance
    <2>3. CASE Exchange(o)
      <3>1. /\ op'[o] = [op[o] EXCEPT !.pc = "profile", !.email = code[op[o].flow]]
            /\ \A q \in Ops \ {o} : op'[q] = op[q]
        BY <2>3, HandlerMoves DEF Exchange, Advance
      <3>2. op'[o].pc = "profile" /\ op'[o].flow = op[o].flow
        BY <2>0, <3>1 DEF Op
      <3>3. /\ op[o].flow \in Flows
            /\ code[op[o].flow] # "redeemed"
            /\ code' = [code EXCEPT ![op[o].flow] = "redeemed"]
            /\ UNCHANGED <<user, flow>>
        BY <2>3 DEF Exchange, TypeInv
      <3>4. code'[op[o].flow] = "redeemed" /\ \A f \in Flows : code[f] = "redeemed" =>
              code'[f] = "redeemed"
        BY <3>3 DEF TypeInv, TypeOK
      <3>5. Holds(o)'
        BY <3>2, <3>4 DEF Holds
      <3>6. \A q \in Holding \ {o} : op[q].flow # op'[o].flow
        BY <3>2, <3>3 DEF HeldInv, Holds, Holding
      <3> QED
        BY <3>1, <3>3, <3>4, <3>5, <3>6, OthersHold
    <2>4. ASSUME NEW u \in Users, FindUser(o, u) PROVE HeldInv'
      <3>1. op[o].pc = "profile" /\ o \in Holding /\ UNCHANGED <<user, flow, code>>
        BY <2>4 DEF FindUser, Holding
      <3>2. ASSUME op'[o].flow = op[o].flow, op'[o].pc = "login",
                   ~op'[o].new => user[op'[o].user].email = op'[o].email,
                   \A q \in Ops \ {o} : op'[q] = op[q]
            PROVE  HeldInv'
        <4>1. Holds(o)'
          BY <3>1, <3>2 DEF Holds, HeldInv, Exists
        <4>2. \A q \in Holding \ {o} : op[q].flow # op'[o].flow
          BY <3>1, <3>2 DEF HeldInv
        <4> QED
          BY <3>1, <3>2, <4>1, <4>2, OthersHold
      <3>3. CASE ReturnExisting(u, op[o].email, op[o].provider)
                 /\ op' = [op EXCEPT ![o] = [op[o] EXCEPT !.pc = "login", !.user = u]]
        <4>1. /\ op'[o] = [op[o] EXCEPT !.pc = "login", !.user = u]
              /\ \A q \in Ops \ {o} : op'[q] = op[q]
          BY <3>3, HandlerMoves
        <4>2. /\ op'[o].flow = op[o].flow /\ op'[o].email = op[o].email
              /\ op'[o].pc = "login" /\ op'[o].user = u
          BY <2>0, <4>1 DEF Op
        <4> QED
          BY <3>2, <3>3, <4>1, <4>2 DEF ReturnExisting
      <3>4. CASE op' = [op EXCEPT ![o] = [op[o] EXCEPT !.pc = "login", !.user = u, !.new = TRUE]]
        <4>1. /\ op'[o] = [op[o] EXCEPT !.pc = "login", !.user = u, !.new = TRUE]
              /\ \A q \in Ops \ {o} : op'[q] = op[q]
          BY <3>4, HandlerMoves
        <4>2. op'[o].flow = op[o].flow /\ op'[o].pc = "login" /\ op'[o].new
          BY <2>0, <4>1 DEF Op
        <4> QED
          BY <3>2, <4>1, <4>2
      <3> QED
        BY <2>4, <3>3, <3>4 DEF FindUser, Advance
    <2>5. ASSUME NEW t \in Tokens, CommitLogin(o, t) PROVE HeldInv'
      <3>1. \A u \in created : user'[u].email = user[u].email
        BY <2>5 DEF CommitLogin, NewUser, TypeInv, TypeOK
      <3> QED
        BY <2>5, <3>1, EndKeepsHeld DEF CommitLogin, Insert, End, Advance
    <2>6. ASSUME NEW t \in Tokens, BeginLogout(o, t) PROVE HeldInv'
      <3>1. op'[o] = [Idle EXCEPT !.pc = "logout", !.token = t]
            /\ \A q \in Ops \ {o} : op'[q] = op[q]
        BY <2>6, HandlerMoves DEF BeginLogout, Begin
      <3>2. UNCHANGED <<user, code, flow>>
        BY <2>6 DEF BeginLogout
      <3>3. Holds(o)' /\ o \notin Holding'
        BY <3>1 DEF Holds, Holding, Idle
      <3> QED
        BY <3>1, <3>2, <3>3, OthersHold
    <2>7. CASE CommitLogout(o)
      BY <2>7, <2>a DEF CommitLogout, End, Advance
    <2>8. ASSUME NEW u \in Users, BeginBan(o, u) PROVE HeldInv'
      <3>1. op'[o] = [Idle EXCEPT !.pc = "ban", !.user = u]
            /\ \A q \in Ops \ {o} : op'[q] = op[q]
        BY <2>8, HandlerMoves DEF BeginBan, Begin
      <3>2. UNCHANGED <<user, code, flow>>
        BY <2>8 DEF BeginBan
      <3>3. Holds(o)' /\ o \notin Holding'
        BY <3>1 DEF Holds, Holding, Idle
      <3> QED
        BY <3>1, <3>2, <3>3, OthersHold
    <2>9. CASE CommitBan(o)
      <3>1. \A u \in Users : user'[u].email = user[u].email
        BY <2>9 DEF CommitBan, TypeInv, TypeOK, User
      <3>2. created \subseteq Users
        BY DEF TypeInv, TypeOK
      <3> QED
        BY <2>9, <3>1, <3>2, EndKeepsHeld DEF CommitBan, End, Advance
    <2>10. CASE Abort(o)
      BY <2>10, <2>a DEF Abort, End, Advance
    <2> QED
      BY <1>4, <2>1, <2>2, <2>3, <2>4, <2>5, <2>6, <2>7, <2>8, <2>9, <2>10
      DEF OpNext, LoginNext
  <1>5. CASE UNCHANGED vars
    BY <1>5 DEF vars, Holds, HeldInv, Holding, Exists
  <1> QED
    BY <1>1, <1>2, <1>3, <1>4, <1>5 DEF Next

\* A handler that drops its flow, or takes up one of an entry, opens nothing.
LEMMA OpenedShrinks ==
  ASSUME TypeInv, NEW o \in Ops, \A q \in Ops \ {o} : op'[q] = op[q],
         \A f \in Flows : flow'[f] \in {flow[f], "gone"},
         op'[o].provider # None => <<op'[o].flow, op'[o].provider>> \in Opened
  PROVE  Opened' \subseteq Opened
  <1>1. ASSUME NEW f \in Flows, NEW p \in Providers, flow'[f] = p
        PROVE  <<f, p>> \in Opened
    BY <1>1, ConstantsAssumption DEF Opened
  <1>2. ASSUME NEW q \in Ops, op'[q].provider # None
        PROVE  <<op'[q].flow, op'[q].provider>> \in Opened
    BY <1>2 DEF Opened
  <1> QED
    BY <1>1, <1>2 DEF Opened

\* A handler that drops what it holds, or takes what was agreed, agrees to nothing.
LEMMA AgreedShrinks ==
  ASSUME TypeInv, NEW o \in Ops, \A q \in Ops \ {o} : op'[q] = op[q],
         \A f \in Flows : code'[f] \in {code[f], "redeemed"},
         o \in Holding' => <<op'[o].flow, op'[o].email>> \in Agreed
  PROVE  Agreed' \subseteq Agreed
  <1>1. ASSUME NEW f \in Flows, NEW e \in Emails, code'[f] = e
        PROVE  <<f, e>> \in Agreed
    BY <1>1, ConstantsAssumption DEF Agreed
  <1>2. ASSUME NEW q \in Holding' PROVE <<op'[q].flow, op'[q].email>> \in Agreed
    <2>1. q = o \/ (q \in Holding /\ op'[q] = op[q])
      BY DEF Holding
    <2> QED
      BY <2>1 DEF Agreed
  <1> QED
    BY <1>1, <1>2 DEF Agreed

USE DEF Promise!accounts, Promise!flows

\* A step that writes no account and no session lets something lapse at most.
LEMMA HandlerLapses ==
  ASSUME TypeInv, NEW o \in Ops, \A q \in Ops \ {o} : op'[q] = op[q],
         \A f \in Flows : flow'[f] \in {flow[f], "gone"} /\ (flow[f] = "none" => flow'[f] = "none"),
         \A f \in Flows : /\ code'[f] \in {code[f], "redeemed"}
                          /\ code[f] = "none" => code'[f] = "none",
         op'[o].provider # None => <<op'[o].flow, op'[o].provider>> \in Opened,
         o \in Holding' => <<op'[o].flow, op'[o].email>> \in Agreed,
         UNCHANGED db
  PROVE  Promise!Lapse
  <1>1. Opened' \subseteq Opened /\ Agreed' \subseteq Agreed
    BY OpenedShrinks, AgreedShrinks
  <1>2. UNCHANGED <<{f \in Flows : flow[f] # "none"}, {f \in Flows : code[f] # "none"}>>
    OBVIOUS
  <1> QED
    BY <1>1, <1>2 DEF Promise!Lapse

\* A handler that ends on a row it wrote, without a flow, leaves the flows alone.
LEMMA FlowsStay ==
  ASSUME TypeInv, NEW o \in Ops, op' = [op EXCEPT ![o] = Idle], op[o].provider = None,
         o \notin Holding, UNCHANGED <<flow, code>>
  PROVE  UNCHANGED <<Opened, Agreed, {f \in Flows : flow[f] # "none"},
                     {f \in Flows : code[f] # "none"}>>
  <1>1. op'[o] = Idle /\ \A q \in Ops \ {o} : op'[q] = op[q]
    BY HandlerMoves
  <1>2. Holding' = Holding
    BY <1>1 DEF Holding, Idle
  <1>3. {q \in Ops : op[q].provider # None}' = {q \in Ops : op[q].provider # None}
    BY <1>1 DEF Idle
  <1>4. \A q \in Ops : q \in Holding \/ op[q].provider # None => op'[q] = op[q]
    BY <1>1
  <1>5. Opened' = Opened
    BY <1>3, <1>4 DEF Opened
  <1>6. Agreed' = Agreed
    BY <1>2, <1>4 DEF Agreed
  <1> QED
    BY <1>5, <1>6

\* The step of a handler that writes no account and no session.
LEMMA LoginLapses ==
  ASSUME TypeInv, HeldInv, NEW o \in Ops,
         \/ \E f \in Flows, p \in Providers : ReadFlow(o, f, p)
         \/ ConsumeFlow(o)
         \/ Exchange(o)
         \/ \E u \in Users : FindUser(o, u)
         \/ \E t \in Tokens : BeginLogout(o, t)
         \/ \E u \in Users : BeginBan(o, u)
         \/ Abort(o)
  PROVE  Promise!Lapse
  <1>0. op[o] \in Op
    BY DEF TypeInv, TypeOK
  <1>a. ASSUME op' = [op EXCEPT ![o] = Idle], UNCHANGED <<db, code>>,
               \A f \in Flows : flow'[f] \in {flow[f], "gone"}
                                /\ (flow[f] = "none" => flow'[f] = "none")
        PROVE  Promise!Lapse
    <2>1. op'[o] = Idle /\ \A q \in Ops \ {o} : op'[q] = op[q]
      BY <1>a, HandlerMoves
    <2>2. op'[o].provider = None /\ o \notin Holding'
      BY <2>1 DEF Holding, Idle
    <2> QED
      BY <1>a, <2>1, <2>2, HandlerLapses
  <1>1. ASSUME NEW f \in Flows, NEW p \in Providers, ReadFlow(o, f, p) PROVE Promise!Lapse
    <2>1. /\ op'[o] = [Idle EXCEPT !.pc = "flow", !.flow = f,
                                   !.provider = IF flow[f] = p THEN p ELSE None]
          /\ \A q \in Ops \ {o} : op'[q] = op[q]
      BY <1>1, HandlerMoves DEF ReadFlow, Begin
    <2>2. /\ o \notin Holding'
          /\ op'[o].provider # None => op'[o].flow = f /\ op'[o].provider = p /\ flow[f] = p
      BY <2>1 DEF Holding, Idle
    <2>3. op'[o].provider # None => <<op'[o].flow, op'[o].provider>> \in Opened
      BY <2>2 DEF Opened
    <2> QED
      BY <1>1, <2>1, <2>2, <2>3, HandlerLapses DEF ReadFlow
  <1>2. CASE ConsumeFlow(o)
    <2>1. /\ op[o].flow \in Flows /\ flow[op[o].flow] # "none"
          /\ flow' = [flow EXCEPT ![op[o].flow] = "gone"]
          /\ UNCHANGED <<db, code>>
      BY <1>2 DEF ConsumeFlow, TypeInv, HeldInv, Holds
    <2>2. \A f \in Flows : flow'[f] \in {flow[f], "gone"}
                           /\ (flow[f] = "none" => flow'[f] = "none")
      BY <2>1 DEF TypeInv, TypeOK
    <2>3. CASE op' = [op EXCEPT ![o] = Idle]
      BY <1>a, <2>1, <2>2, <2>3
    <2>4. CASE op' = [op EXCEPT ![o] = [op[o] EXCEPT !.pc = "exchange"]]
      <3>1. op'[o] = [op[o] EXCEPT !.pc = "exchange"] /\ \A q \in Ops \ {o} : op'[q] = op[q]
        BY <2>4, HandlerMoves
      <3>2. /\ op'[o].pc = "exchange" /\ op'[o].flow = op[o].flow
            /\ op'[o].provider = op[o].provider
        BY <1>0, <3>1 DEF Op
      <3>3. o \notin Holding' /\ (op'[o].provider # None =>
              <<op'[o].flow, op'[o].provider>> \in Opened)
        BY <3>2 DEF Holding, Opened
      <3> QED
        BY <2>1, <2>2, <3>1, <3>3, HandlerLapses
    <2> QED
      BY <1>2, <2>3, <2>4 DEF ConsumeFlow, End, Advance
  <1>3. CASE Exchange(o)
    <2>1. /\ op'[o] = [op[o] EXCEPT !.pc = "profile", !.email = code[op[o].flow]]
          /\ \A q \in Ops \ {o} : op'[q] = op[q]
      BY <1>3, HandlerMoves DEF Exchange, Advance
    <2>2. /\ op'[o].flow = op[o].flow /\ op'[o].provider = op[o].provider
          /\ op'[o].email = code[op[o].flow]
      BY <1>0, <2>1 DEF Op
    <2>3. /\ op[o].flow \in Flows
          /\ code[op[o].flow] \in Emails
          /\ code' = [code EXCEPT ![op[o].flow] = "redeemed"]
          /\ UNCHANGED <<db, flow>>
      BY <1>3 DEF Exchange, TypeInv, TypeOK
    <2>4. \A f \in Flows : code'[f] \in {code[f], "redeemed"}
                           /\ (code[f] = "none" => code'[f] = "none")
      BY <2>3, ConstantsAssumption DEF TypeInv, TypeOK
    <2>5. op'[o].provider # None => <<op'[o].flow, op'[o].provider>> \in Opened
      BY <2>2 DEF Opened
    <2>6. <<op'[o].flow, op'[o].email>> \in Agreed
      BY <2>2, <2>3 DEF Agreed
    <2> QED
      BY <2>1, <2>3, <2>4, <2>5, <2>6, HandlerLapses
  <1>4. ASSUME NEW u \in Users, FindUser(o, u) PROVE Promise!Lapse
    <2>1. \/ op' = [op EXCEPT ![o] = [op[o] EXCEPT !.pc = "login", !.user = u]]
          \/ op' = [op EXCEPT ![o] = [op[o] EXCEPT !.pc = "login", !.user = u, !.new = TRUE]]
      BY <1>4 DEF FindUser, Advance
    <2>2. /\ op'[o] \in {[op[o] EXCEPT !.pc = "login", !.user = u],
                         [op[o] EXCEPT !.pc = "login", !.user = u, !.new = TRUE]}
          /\ \A q \in Ops \ {o} : op'[q] = op[q]
      BY <2>1, HandlerMoves
    <2>3. /\ op'[o].flow = op[o].flow /\ op'[o].provider = op[o].provider
          /\ op'[o].email = op[o].email
      BY <1>0, <2>2 DEF Op
    <2>4. o \in Holding /\ UNCHANGED <<db, flow, code>>
      BY <1>4 DEF FindUser, Holding
    <2>5. op'[o].provider # None => <<op'[o].flow, op'[o].provider>> \in Opened
      BY <2>3 DEF Opened
    <2>6. <<op'[o].flow, op'[o].email>> \in Agreed
      BY <2>3, <2>4 DEF Agreed
    <2> QED
      BY <2>2, <2>4, <2>5, <2>6, HandlerLapses
  <1>5. ASSUME NEW h, h.provider = None, h.pc \in {"logout", "ban"},
               op' = [op EXCEPT ![o] = h], UNCHANGED <<db, flow, code>>
        PROVE  Promise!Lapse
    <2>1. op'[o] = h /\ \A q \in Ops \ {o} : op'[q] = op[q]
      BY <1>5, HandlerMoves
    <2>2. o \notin Holding'
      BY <1>5, <2>1 DEF Holding
    <2> QED
      BY <1>5, <2>1, <2>2, HandlerLapses
  <1>6. ASSUME NEW t \in Tokens, BeginLogout(o, t) PROVE Promise!Lapse
    <2> DEFINE h == [Idle EXCEPT !.pc = "logout", !.token = t]
    <2>1. h.provider = None /\ h.pc = "logout"
      BY DEF Idle
    <2>2. op' = [op EXCEPT ![o] = h] /\ UNCHANGED <<db, flow, code>>
      BY <1>6 DEF BeginLogout, Begin
    <2> HIDE DEF h
    <2> QED
      BY <1>5, <2>1, <2>2
  <1>7. ASSUME NEW u \in Users, BeginBan(o, u) PROVE Promise!Lapse
    <2> DEFINE h == [Idle EXCEPT !.pc = "ban", !.user = u]
    <2>1. h.provider = None /\ h.pc = "ban"
      BY DEF Idle
    <2>2. op' = [op EXCEPT ![o] = h] /\ UNCHANGED <<db, flow, code>>
      BY <1>7 DEF BeginBan, Begin
    <2> HIDE DEF h
    <2> QED
      BY <1>5, <2>1, <2>2
  <1>8. CASE Abort(o)
    BY <1>8, <1>a DEF Abort, End, Advance
  <1> QED
    BY <1>1, <1>2, <1>3, <1>4, <1>6, <1>7, <1>8

\* A commit consumes the one agreement that its callback holds.
LEMMA CommitLogsIn ==
  ASSUME TypeInv, HeldInv, AccountInv, NEW o \in Ops, NEW t \in Tokens, CommitLogin(o, t)
  PROVE  \E f \in Flows, p \in Providers, e \in Emails, u \in Users :
           Promise!LogIn(f, p, e, u, t)
  <1> DEFINE f == op[o].flow
             p == op[o].provider
             e == op[o].email
             u == op[o].user
  <1>1. /\ op[o].pc = "login" /\ t \notin issued
        /\ op' = [op EXCEPT ![o] = Idle]
        /\ sess' = [sess EXCEPT ![t] = [of |-> u, revoked |-> FALSE]]
        /\ issued' = issued \cup {t}
        /\ audit' = audit \cup {[user |-> u, provider |-> p]}
        /\ UNCHANGED <<flow, code>>
    BY DEF CommitLogin, Insert, End, Advance
  <1>2. f \in Flows /\ p \in Providers /\ e \in Emails /\ u \in Users
    BY <1>1 DEF TypeInv
  <1>3. o \in Holding /\ code[f] = "redeemed"
    BY <1>1 DEF Holding, HeldInv, Holds
  <1>4. op'[o] = Idle /\ \A q \in Ops \ {o} : op'[q] = op[q]
    BY <1>1, HandlerMoves
  <1>5. <<f, p>> \in Opened /\ <<f, e>> \in Agreed
    BY <1>2, <1>3, ConstantsAssumption DEF Opened, Agreed
  <1>6. Opened' \subseteq Opened
    <2>1. op'[o].provider = None
      BY <1>4 DEF Idle
    <2> QED
      BY <1>1, <1>4, <2>1, OpenedShrinks
  <1>7. Agreed' = Agreed \ {<<f, e>>}
    <2>1. Holding' = Holding \ {o}
      BY <1>4 DEF Holding, Idle
    <2>2. \A q \in Holding' : q # o /\ op'[q] = op[q] /\ op[q].flow # f
      BY <1>3, <1>4, <2>1 DEF HeldInv, Holding
    <2>3. <<f, e>> \notin Agreed'
      <3>1. code'[f] # e
        BY <1>1, <1>2, <1>3, ConstantsAssumption
      <3> QED
        BY <2>2, <3>1 DEF Agreed
    <2>4. Agreed' \subseteq Agreed
      BY <1>1, <2>1, <2>2 DEF Agreed
    <2>5. ASSUME NEW x \in Agreed, x # <<f, e>> PROVE x \in Agreed'
      BY <1>1, <2>1, <2>2, <2>5 DEF Agreed
    <2> QED
      BY <1>5, <2>3, <2>4, <2>5
  <1>8. \/ /\ Promise!Unused(e)
           /\ u \notin created
           /\ user' = [user EXCEPT ![u] = [email |-> e, provider |-> p, banned |-> FALSE]]
           /\ created' = created \cup {u}
        \/ /\ user[u].email = e
           /\ user[u].provider = p
           /\ UNCHANGED <<user, created>>
    <2>1. CASE op[o].new /\ Create(e) /\ NewUser(o)
      BY <2>1 DEF Create, NewUser, Promise!Unused
    <2>2. CASE ~op[o].new /\ Exists(u) /\ UNCHANGED <<user, created>>
      BY <1>1, <2>2 DEF HeldInv, Holds, AccountInv
    <2> QED
      BY <2>1, <2>2 DEF CommitLogin
  <1>9. UNCHANGED <<{g \in Flows : flow[g] # "none"}, {g \in Flows : code[g] # "none"}>>
    BY <1>1
  <1>10. Promise!LogIn(f, p, e, u, t)
    BY <1>1, <1>5, <1>6, <1>7, <1>8, <1>9 DEF Promise!LogIn
  <1> QED
    BY <1>2, <1>10

\* Everything that is no step of a handler.
LEMMA OthersOnAccounts ==
  ASSUME TypeInv,
         \/ \E f \in Flows, p \in Providers : BeginLogin(f, p)
         \/ \E f \in Flows : FlowExpires(f)
         \/ \E f \in Flows, e \in Emails : Consent(f, e)
         \/ \E t \in Tokens : SessionExpires(t)
         \/ \E u \in Users : DeleteUser(u)
  PROVE  [Promise!Next]_(Promise!vars)
  <1>1. ASSUME NEW f \in Flows, NEW p \in Providers, BeginLogin(f, p) PROVE Promise!Next
    <2>1. /\ flow[f] = "none" /\ flow' = [flow EXCEPT ![f] = p] /\ p # "none"
          /\ UNCHANGED <<db, op, code>>
      BY <1>1, ConstantsAssumption DEF BeginLogin
    <2>2. {g \in Flows : flow[g] # "none"}' = {g \in Flows : flow[g] # "none"} \cup {f}
      BY <2>1 DEF TypeInv, TypeOK
    <2>3. \A g \in Flows, q \in Providers :
            flow'[g] = q <=> flow[g] = q \/ (g = f /\ q = p)
      BY <2>1, ConstantsAssumption DEF TypeInv, TypeOK
    <2>4. Opened' = Opened \cup {<<f, p>>}
      <3>1. {x \in Flows \X Providers : flow'[x[1]] = x[2]}
              = {x \in Flows \X Providers : flow[x[1]] = x[2]} \cup {<<f, p>>}
        BY <2>3
      <3> QED
        BY <2>1, <3>1 DEF Opened
    <2>5. UNCHANGED <<Agreed, {g \in Flows : code[g] # "none"}>>
      BY <2>1 DEF Agreed, Holding
    <2>6. Promise!Start(f, p)
      BY <2>1, <2>2, <2>4, <2>5 DEF Promise!Start
    <2> QED
      BY <2>6 DEF Promise!Next
  <1>2. ASSUME NEW f \in Flows, FlowExpires(f) PROVE Promise!Next
    <2>1. /\ flow[f] # "none" /\ flow' = [flow EXCEPT ![f] = "gone"]
          /\ UNCHANGED <<db, op, code>>
      BY <1>2 DEF FlowExpires, Pending
    <2>2. {g \in Flows : flow[g] # "none"}' = {g \in Flows : flow[g] # "none"}
      BY <2>1 DEF TypeInv, TypeOK
    <2>3. Opened' \subseteq Opened
      BY <2>1, ConstantsAssumption DEF Opened, TypeInv, TypeOK
    <2>4. UNCHANGED <<Agreed, {g \in Flows : code[g] # "none"}>>
      BY <2>1 DEF Agreed, Holding
    <2>5. Promise!Lapse
      BY <2>1, <2>2, <2>3, <2>4 DEF Promise!Lapse
    <2> QED
      BY <2>5 DEF Promise!Next
  <1>3. ASSUME NEW f \in Flows, NEW e \in Emails, Consent(f, e) PROVE Promise!Next
    <2>1. /\ flow[f] # "none" /\ code[f] = "none" /\ code' = [code EXCEPT ![f] = e]
          /\ e # "none" /\ UNCHANGED <<db, op, flow>>
      BY <1>3, ConstantsAssumption DEF Consent
    <2>2. {g \in Flows : code[g] # "none"}' = {g \in Flows : code[g] # "none"} \cup {f}
      BY <2>1 DEF TypeInv, TypeOK
    <2>3. \A g \in Flows, d \in Emails : code'[g] = d <=> code[g] = d \/ (g = f /\ d = e)
      BY <2>1, ConstantsAssumption DEF TypeInv, TypeOK
    <2>4. Agreed' = Agreed \cup {<<f, e>>}
      <3>1. {x \in Flows \X Emails : code'[x[1]] = x[2]}
              = {x \in Flows \X Emails : code[x[1]] = x[2]} \cup {<<f, e>>}
        BY <2>3
      <3> QED
        BY <2>1, <3>1 DEF Agreed, Holding
    <2>5. UNCHANGED <<Opened, {g \in Flows : flow[g] # "none"}>>
      BY <2>1 DEF Opened
    <2>6. Promise!Agree(f, e)
      BY <2>1, <2>2, <2>4, <2>5 DEF Promise!Agree
    <2> QED
      BY <2>6 DEF Promise!Next
  <1>4. ASSUME NEW t \in Tokens, SessionExpires(t) PROVE UNCHANGED Promise!vars
    BY <1>4 DEF SessionExpires, Promise!vars, Opened, Agreed, Holding
  <1>5. ASSUME NEW u \in Users, DeleteUser(u) PROVE Promise!Next
    <2>1. Promise!Delete(u)
      BY <1>5 DEF DeleteUser, Exists, Opened, Agreed, Holding, NoUser, NoSess,
         Promise!Delete, Promise!Exists, Promise!Close, Promise!NoUser, Promise!NoSess
    <2> QED
      BY <2>1 DEF Promise!Next
  <1> QED
    BY <1>1, <1>2, <1>3, <1>4, <1>5

\* Logins implement Accounts, whatever overlaps: a session is opened by one
\* agreement, which is used up by it, for the account of that address at the
\* provider its flow was begun with.
THEOREM EachLoginIsOneStep == Spec => LoginsAreAtomic
  <1>1. Init => Promise!Init /\ HeldInv
    <2> SUFFICES ASSUME Init PROVE Promise!Init /\ HeldInv
      OBVIOUS
    <2>1. Holding = {}
      BY DEF Init, Holding, Idle
    <2>2. Opened = {} /\ Agreed = {}
      BY <2>1, ConstantsAssumption DEF Init, Opened, Agreed, Idle
    <2>3. HeldInv
      BY <2>1 DEF Init, HeldInv, Holds, Idle
    <2> QED
      BY <2>2, <2>3 DEF Init, NoUser, NoSess, Promise!Init, Promise!NoUser, Promise!NoSess
  <1>2. TypeInv /\ AccountInv /\ HeldInv /\ [Next]_vars => [Promise!Next]_(Promise!vars)
    <2> SUFFICES ASSUME TypeInv, AccountInv, HeldInv, [Next]_vars
                 PROVE  [Promise!Next]_(Promise!vars)
      OBVIOUS
    <2>1. ASSUME NEW o \in Ops, OpNext(o) PROVE Promise!Next
      <3>1. ASSUME NEW t \in Tokens, CommitLogin(o, t) PROVE Promise!Next
        BY <3>1, CommitLogsIn DEF Promise!Next
      <3>2. CASE CommitLogout(o)
        <4>1. op[o].provider = None /\ o \notin Holding /\ op[o].token \in Tokens
              /\ op' = [op EXCEPT ![o] = Idle]
          BY <3>2 DEF CommitLogout, End, Advance, HeldInv, Holds, Holding, TypeInv
        <4>2. UNCHANGED <<Opened, Agreed, {f \in Flows : flow[f] # "none"},
                          {f \in Flows : code[f] # "none"}>>
          BY <3>2, <4>1, FlowsStay DEF CommitLogout
        <4>3. Promise!LogOut(op[o].token)
          BY <3>2, <4>2 DEF CommitLogout, Promise!LogOut
        <4> QED
          BY <4>1, <4>3 DEF Promise!Next
      <3>3. CASE CommitBan(o)
        <4>1. op[o].provider = None /\ o \notin Holding /\ op[o].user \in Users
              /\ op' = [op EXCEPT ![o] = Idle]
          BY <3>3 DEF CommitBan, End, Advance, HeldInv, Holds, Holding, TypeInv
        <4>2. UNCHANGED <<Opened, Agreed, {f \in Flows : flow[f] # "none"},
                          {f \in Flows : code[f] # "none"}>>
          BY <3>3, <4>1, FlowsStay DEF CommitBan
        <4>3. Promise!Ban(op[o].user)
          BY <3>3, <4>2 DEF CommitBan, Exists, NoSess, Promise!Ban, Promise!Exists,
             Promise!Close, Promise!NoSess
        <4> QED
          BY <4>1, <4>3 DEF Promise!Next
      <3> QED
        BY <2>1, <3>1, <3>2, <3>3, LoginLapses DEF OpNext, LoginNext, Promise!Next
    <2>2. CASE UNCHANGED vars
      BY <2>2 DEF vars, Promise!vars, Opened, Agreed, Holding
    <2> QED
      BY <2>1, <2>2, OthersOnAccounts DEF Next
  <1>3. TypeInv /\ AccountInv /\ HeldInv /\ [Next]_vars => HeldInv'
    BY StepHeld
  <1> QED
    BY <1>1, <1>2, <1>3, TypeInvariant, InitAccount, StepAccount, PTL
    DEF Spec, LoginsAreAtomic, Promise!Spec
=============================================================================
