------------------------------ MODULE Accounts ------------------------------
(***************************************************************************)
(* What a login promises, in one step: somebody began it at a provider,    *)
(* somebody agreed there with an address, and that one agreement opens one *)
(* session, of the account that the address has at that provider.          *)
(***************************************************************************)
CONSTANTS Users, Emails, Providers, Flows, Tokens, None

VARIABLES
  user,     \* user[u]: address, provider and ban of the account
  created,  \* ids that have been given
  sess,     \* sess[t]: whose session it is, and whether it is revoked
  issued,   \* tokens that have been issued
  audit,    \* who logged in through which provider
  begun,    \* flows that have been begun
  known,    \* <<f, p>>: flow f was begun at p, and this is not forgotten yet
  asked,    \* flows somebody agreed to
  open      \* <<f, e>>: e agreed to f, and nobody logged in with it yet

accounts == <<user, created, sess, issued, audit>>
flows == <<begun, known, asked, open>>
vars == <<accounts, flows>>

NoUser == [email |-> None, provider |-> None, banned |-> FALSE]
NoSess == [of |-> None, revoked |-> FALSE]

Init ==
  /\ user = [u \in Users |-> NoUser]
  /\ sess = [t \in Tokens |-> NoSess]
  /\ created = {} /\ issued = {} /\ audit = {}
  /\ begun = {} /\ known = {} /\ asked = {} /\ open = {}

Exists(u) == user[u].email # None
Unused(e) == \A u \in Users : user[u].email # e
Close(u) == sess' = [t \in Tokens |-> IF sess[t].of = u THEN NoSess ELSE sess[t]]

Start(f, p) ==
  /\ f \notin begun
  /\ begun' = begun \cup {f}
  /\ known' = known \cup {<<f, p>>}
  /\ UNCHANGED <<accounts, asked, open>>

Agree(f, e) ==
  /\ f \in begun \ asked
  /\ asked' = asked \cup {f}
  /\ open' = open \cup {<<f, e>>}
  /\ UNCHANGED <<accounts, begun, known>>

\* Time passes, or a login fails: what was begun or agreed comes to nothing.
Lapse ==
  /\ known' \subseteq known
  /\ open' \subseteq open
  /\ UNCHANGED <<accounts, begun, asked>>

\* A new account for an address without one, or the account it has at p.
LogIn(f, p, e, u, t) ==
  /\ <<f, p>> \in known
  /\ <<f, e>> \in open
  /\ t \notin issued
  /\ \/ /\ Unused(e)
        /\ u \notin created
        /\ user' = [user EXCEPT ![u] = [email |-> e, provider |-> p, banned |-> FALSE]]
        /\ created' = created \cup {u}
     \/ /\ user[u].email = e
        /\ user[u].provider = p
        /\ UNCHANGED <<user, created>>
  /\ sess' = [sess EXCEPT ![t] = [of |-> u, revoked |-> FALSE]]
  /\ issued' = issued \cup {t}
  /\ audit' = audit \cup {[user |-> u, provider |-> p]}
  /\ open' = open \ {<<f, e>>}
  /\ known' \subseteq known
  /\ UNCHANGED <<begun, asked>>

LogOut(t) ==
  /\ sess[t].of # None
  /\ sess' = [sess EXCEPT ![t].revoked = TRUE]
  /\ UNCHANGED <<user, created, issued, audit, flows>>

Ban(u) ==
  /\ Exists(u)
  /\ user' = [user EXCEPT ![u].banned = TRUE]
  /\ Close(u)
  /\ UNCHANGED <<created, issued, audit, flows>>

Delete(u) ==
  /\ Exists(u)
  /\ user' = [user EXCEPT ![u] = NoUser]
  /\ Close(u)
  /\ audit' = {a \in audit : a.user # u}
  /\ UNCHANGED <<created, issued, flows>>

Next ==
  \/ Lapse
  \/ \E f \in Flows, p \in Providers : Start(f, p)
  \/ \E f \in Flows, e \in Emails : Agree(f, e)
  \/ \E f \in Flows, p \in Providers, e \in Emails, u \in Users, t \in Tokens :
       LogIn(f, p, e, u, t)
  \/ \E t \in Tokens : LogOut(t)
  \/ \E u \in Users : Ban(u) \/ Delete(u)

Spec == Init /\ [][Next]_vars
=============================================================================
