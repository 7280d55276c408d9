----------------------------- MODULE Connection -----------------------------
(***************************************************************************)
(* What the integrations of one user with one provider promise, with every *)
(* handler in one step: a connect leaves one integration, with nothing of  *)
(* what it replaces; an authorization adds the tokens of the client it was *)
(* asked for, once, and only while that client is still the one of the     *)
(* same integration.                                                       *)
(***************************************************************************)
CONSTANTS Rows, Gens, Flows, None

VARIABLES
  integration,  \* integration[r]: what a user sees of the row r, or NoRow
  entered,      \* clients of the connects that are pending
  asked         \* <<f, r, g>>: the authorization f of client g for r is pending

vars == <<integration, entered, asked>>

NoRow == [gone |-> TRUE]
There(r) == integration[r] # NoRow

Init ==
  /\ integration = [r \in Rows |-> NoRow]
  /\ entered = {}
  /\ asked = {}

Enter(g) ==
  /\ entered' = entered \cup {g}
  /\ UNCHANGED <<integration, asked>>

\* No authorization is pending for an integration that is new.
Connect(r, g, token, shared) ==
  /\ g \in entered
  /\ entered' = entered \ {g}
  /\ \A q \in Rows : There(q) => q = r
  /\ There(r) \/ \A f \in Flows, c \in Gens : <<f, r, c>> \notin asked
  /\ integration' = [integration EXCEPT ![r] =
       [client |-> g, config |-> g, token |-> token, authorized |-> FALSE, sound |-> TRUE,
        status |-> "active", shared |-> shared]]
  /\ UNCHANGED asked

Ask(f, r) ==
  /\ There(r) /\ integration[r].sound
  /\ \A q \in Rows, c \in Gens : <<f, q, c>> \notin asked
  /\ asked' = asked \cup {<<f, r, integration[r].client>>}
  /\ UNCHANGED <<integration, entered>>

Complete(f, r) ==
  /\ There(r) /\ integration[r].sound
  /\ <<f, r, integration[r].client>> \in asked
  /\ asked' = asked \ {<<f, r, integration[r].client>>}
  /\ integration' = [integration EXCEPT
       ![r].token = integration[r].client, ![r].authorized = TRUE, ![r].status = "active"]
  /\ UNCHANGED entered

\* Connects fail, authorizations expire, are refused or given up.
Lapse ==
  /\ entered' \subseteq entered
  /\ asked' \subseteq asked
  /\ UNCHANGED integration

Share(r, shared) ==
  /\ There(r)
  /\ integration' = [integration EXCEPT ![r].shared = shared]
  /\ UNCHANGED <<entered, asked>>

Disconnect(r) ==
  /\ There(r)
  /\ integration' = [integration EXCEPT ![r] = NoRow]
  /\ UNCHANGED <<entered, asked>>

Damage(r) ==
  /\ There(r)
  /\ integration' = [integration EXCEPT ![r].sound = FALSE]
  /\ UNCHANGED <<entered, asked>>

\* A renewal shows no more than that the credentials cannot be decrypted.
Fail(r) ==
  /\ There(r) /\ ~integration[r].sound
  /\ integration' = [integration EXCEPT ![r].status = "error"]
  /\ UNCHANGED <<entered, asked>>

Next ==
  \/ Lapse
  \/ \E g \in Gens : Enter(g)
  \/ \E r \in Rows :
       \/ \E g \in Gens, shared \in BOOLEAN : \E token \in {g, None} : Connect(r, g, token, shared)
       \/ \E f \in Flows : Ask(f, r) \/ Complete(f, r)
       \/ \E shared \in BOOLEAN : Share(r, shared)
       \/ Disconnect(r)
       \/ Damage(r)
       \/ Fail(r)

Spec == Init /\ [][Next]_vars
=============================================================================
