------------------------------ MODULE Directory ------------------------------
(***************************************************************************)
(* What the workspaces and admin routers promise about users, members and  *)
(* invites, with every handler in one step: whoever acts has the authority *)
(* to at the moment the rows change, and the rows are what the guards said *)
(* of them.                                                                *)
(***************************************************************************)
CONSTANTS Users, FirstAdmins, Workspaces, Invites, InviteRoles, None

VARIABLES
  users,    \* accounts that exist
  admins,   \* super admins among them
  creator,  \* creator[w]: who created a live workspace, or None
  used,     \* workspaces that have been created
  role,     \* role[w][u]: the role of u in w, or "none"
  invite,   \* invite[i]: status, workspace and role of the invite
  joined    \* <<i, u>>: user u joined through invite i

vars == <<users, admins, creator, used, role, invite, joined>>

Live(w) == creator[w] # None
Owns(a, w) == role[w][a] = "owner"
Removed == [status |-> "deleted", on |-> None, role |-> "owner"]

Init ==
  /\ users = Users
  /\ admins = FirstAdmins
  /\ creator = [w \in Workspaces |-> None]
  /\ used = {}
  /\ role = [w \in Workspaces |-> [u \in Users |-> "none"]]
  /\ invite = [i \in Invites |-> [status |-> "none", on |-> None, role |-> "owner"]]
  /\ joined = {}

CreateWorkspace(a, w) ==
  /\ w \notin used
  /\ used' = used \cup {w}
  /\ creator' = [creator EXCEPT ![w] = a]
  /\ role' = [role EXCEPT ![w] = [u \in Users |-> IF u = a THEN "owner" ELSE "none"]]
  /\ UNCHANGED <<users, admins, invite, joined>>

DeleteWorkspace(a, w) ==
  /\ Live(w)
  /\ Owns(a, w) \/ a \in admins
  /\ creator' = [creator EXCEPT ![w] = None]
  /\ role' = [role EXCEPT ![w] = [u \in Users |-> "none"]]
  /\ invite' = [i \in Invites |-> IF invite[i].on = w THEN Removed ELSE invite[i]]
  /\ UNCHANGED <<users, admins, used, joined>>

Issue(a, w, i, r) ==
  /\ Owns(a, w)
  /\ invite[i].status = "none"
  /\ invite' = [invite EXCEPT ![i] = [status |-> "pending", on |-> w, role |-> r]]
  /\ UNCHANGED <<users, admins, creator, used, role, joined>>

\* An invite is good for one user, who is not a member yet.
Join(a, w, i) ==
  /\ invite[i].status = "pending"
  /\ invite[i].on = w
  /\ Live(w)
  /\ role[w][a] = "none"
  /\ role' = [role EXCEPT ![w][a] = invite[i].role]
  /\ invite' = [invite EXCEPT ![i].status = "accepted"]
  /\ joined' = joined \cup {<<i, a>>}
  /\ UNCHANGED <<users, admins, creator, used>>

ChangeRole(a, w, t, r) ==
  /\ Owns(a, w)
  /\ role[w][t] # "none"
  /\ role' = [role EXCEPT ![w][t] = r]
  /\ UNCHANGED <<users, admins, creator, used, invite, joined>>

\* The new Owner is the only one; the others stay on as admins.
Reassign(a, w, t) ==
  /\ a \in admins
  /\ Live(w)
  /\ t \in users
  /\ role' = [role EXCEPT ![w] = [u \in Users |->
       IF u = t THEN "owner" ELSE IF Owns(u, w) THEN "admin" ELSE role[w][u]]]
  /\ UNCHANGED <<users, admins, creator, used, invite, joined>>

Promote(a, t) ==
  /\ a \in admins
  /\ t \in users \ admins
  /\ admins' = admins \cup {t}
  /\ UNCHANGED <<users, creator, used, role, invite, joined>>

\* Never the last one.
Demote(a, t) ==
  /\ a \in admins
  /\ t \in admins
  /\ admins # {t}
  /\ admins' = admins \ {t}
  /\ UNCHANGED <<users, creator, used, role, invite, joined>>

\* Not oneself, and no one whose workspaces are still there.
DeleteUser(a, t) ==
  /\ a \in admins
  /\ t \in users \ {a}
  /\ \A w \in Workspaces : creator[w] # t
  /\ users' = users \ {t}
  /\ admins' = admins \ {t}
  /\ role' = [w \in Workspaces |-> [role[w] EXCEPT ![t] = "none"]]
  /\ UNCHANGED <<creator, used, invite, joined>>

\* Some user who exists does something.
Next ==
  \E a \in users :
    \/ \E w \in Workspaces :
         \/ CreateWorkspace(a, w)
         \/ DeleteWorkspace(a, w)
         \/ \E i \in Invites : Join(a, w, i) \/ \E r \in InviteRoles : Issue(a, w, i, r)
         \/ \E t \in Users : Reassign(a, w, t)
         \/ \E t \in Users, r \in InviteRoles \cup {"owner"} : ChangeRole(a, w, t, r)
    \/ \E t \in Users : Promote(a, t) \/ Demote(a, t) \/ DeleteUser(a, t)

Spec == Init /\ [][Next]_vars
=============================================================================
