---------------------------- MODULE IntakeLedger ----------------------------
(***************************************************************************)
(* What the Gmail intake promises about a message, whatever happens to     *)
(* passes, locks, jobs and workers in between: the poll hands it to a run  *)
(* once, and only when it is on record; a push hands it over as often as   *)
(* Gmail calls; replies to it never outnumber the runs it was handed to,   *)
(* and an answered message goes on record.                                 *)
(***************************************************************************)
EXTENDS Naturals

CONSTANT Messages

VARIABLES
  recorded,  \* messages nobody needs to look at again
  answered,  \* messages a reviewer replied to
  polled,    \* polled[m]: runs m was handed to by the poll
  pushed,    \* pushed[m]: runs m was handed to by the push
  replies    \* replies[m]: replies proposed to m

vars == <<recorded, answered, polled, pushed, replies>>

Init ==
  /\ recorded = {}
  /\ answered = {}
  /\ polled = [m \in Messages |-> 0]
  /\ pushed = [m \in Messages |-> 0]
  /\ replies = [m \in Messages |-> 0]

\* counts, with one more for each message of S.
OneMore(counts, S) == [m \in Messages |-> IF m \in S THEN counts[m] + 1 ELSE counts[m]]

Record(S) ==
  /\ recorded' = recorded \cup S
  /\ UNCHANGED <<answered, polled, pushed, replies>>

Poll(S) ==
  /\ S \subseteq recorded
  /\ \A m \in S : polled[m] = 0
  /\ polled' = OneMore(polled, S)
  /\ UNCHANGED <<recorded, answered, pushed, replies>>

Push(S) ==
  /\ pushed' = OneMore(pushed, S)
  /\ UNCHANGED <<recorded, answered, polled, replies>>

Reply(m) ==
  /\ replies[m] < polled[m] + pushed[m]
  /\ replies' = OneMore(replies, {m})
  /\ UNCHANGED <<recorded, answered, polled, pushed>>

Answer(m) ==
  /\ replies[m] > 0
  /\ m \notin answered
  /\ answered' = answered \cup {m}
  /\ recorded' = recorded \cup {m}
  /\ UNCHANGED <<polled, pushed, replies>>

Next ==
  \/ \E S \in SUBSET Messages : Record(S) \/ Poll(S) \/ Push(S)
  \/ \E m \in Messages : Reply(m) \/ Answer(m)

Spec == Init /\ [][Next]_vars
=============================================================================
