----------------------------- MODULE Membership -----------------------------
(***************************************************************************)
(* Who belongs to which workspace with which role, and who is a super      *)
(* admin: the workspaces and admin routers over users, workspaces,         *)
(* workspace_members and workspace_invites.                                *)
(*                                                                         *)
(* A handler checks its caller and its guards on rows it has read, and     *)
(* writes at its commit, by primary key, the columns it changed; the       *)
(* foreign keys and the unique key on (workspace, user) are all that       *)
(* protects the rows in between.  A handler that breaks one of them, or    *)
(* updates a row that is gone, fails as a whole (Abort).                   *)
(***************************************************************************)
EXTENDS Naturals, FiniteSets

CONSTANTS
  Users,        \* accounts, all of them present at the start
  FirstAdmins,  \* the super admins at the start
  Workspaces,
  Invites,
  InviteRoles,  \* roles an invite can carry; "owner" is not among them
  Ops,          \* handlers that may be in progress at once
  None

Roles == {"owner"} \cup InviteRoles

ASSUME ConstantsAssumption ==
  /\ FirstAdmins \subseteq Users
  /\ "admin" \in InviteRoles
  /\ {"owner", "none"} \cap InviteRoles = {}
  /\ None \notin Users \cup Workspaces \cup Invites

VARIABLES
  users,    \* accounts that exist
  admins,   \* accounts with is_superadmin
  creator,  \* creator[w]: created_by_user_id of a live workspace, or None
  used,     \* workspaces that have been created
  role,     \* role[w][u]: the workspace_members row, or "none"
  invite,   \* invite[i]: the workspace_invites row
  expired,  \* invites whose expires_at has passed
  op,       \* op[o]: a handler between its reads and its commit
  joined,   \* history: <<i, u>>, user u joined through invite i
  overlapped \* history: a handler began while another was in progress

vars == <<users, admins, creator, used, role, invite, expired, op, joined, overlapped>>

NoRoles == [u \in Users |-> "none"]
Invite == [status : {"none", "pending", "accepted", "deleted"},
           on : Workspaces \cup {None}, role : Roles]
NoInvite == [status |-> "none", on |-> None, role |-> "owner"]

\* by: the caller; on: the workspace; to: the user, val: the value it is about;
\* was: the roles of the workspace that the handler read.
Op == [kind : {"idle", "role", "reassign", "admin", "deleteUser", "deleteWorkspace", "accept"},
       by : Users \cup {None}, on : Workspaces \cup {None}, to : Users \cup {None},
       val : Roles \cup {"yes", "no", None} \cup Invites,
       was : [Users -> Roles \cup {"none"}]]
Idle == [kind |-> "idle", by |-> None, on |-> None, to |-> None, val |-> None,
         was |-> NoRoles]

TypeOK ==
  /\ users \subseteq Users
  /\ admins \subseteq users
  /\ creator \in [Workspaces -> Users \cup {None}]
  /\ used \subseteq Workspaces
  /\ role \in [Workspaces -> [Users -> Roles \cup {"none"}]]
  /\ invite \in [Invites -> Invite]
  /\ expired \subseteq Invites
  /\ op \in [Ops -> Op]
  /\ joined \subseteq Invites \X Users
  /\ overlapped \in BOOLEAN

Init ==
  /\ users = Users
  /\ admins = FirstAdmins
  /\ creator = [w \in Workspaces |-> None]
  /\ used = {}
  /\ role = [w \in Workspaces |-> NoRoles]
  /\ invite = [i \in Invites |-> NoInvite]
  /\ expired = {}
  /\ op = [o \in Ops |-> Idle]
  /\ joined = {}
  /\ overlapped = FALSE

Live(w) == creator[w] # None
Owners(w) == {u \in Users : role[w][u] = "owner"}

Begin(o, kind, by, on, to, val, was) ==
  /\ op[o].kind = "idle"
  /\ by \in users
  /\ op' = [op EXCEPT ![o] = [kind |-> kind, by |-> by, on |-> on, to |-> to, val |-> val,
                              was |-> was]]
  /\ UNCHANGED <<users, admins, creator, used, role, invite, expired, joined>>

\* The audit row names the caller, who must still exist.
Commit(o, kind) ==
  /\ op[o].kind = kind
  /\ op[o].by \in users
  /\ op' = [op EXCEPT ![o] = Idle]

\* The handler fails and its transaction is rolled back.
Abort(o) ==
  /\ op[o].kind # "idle"
  /\ op' = [op EXCEPT ![o] = Idle]
  /\ UNCHANGED <<users, admins, creator, used, role, invite, expired, joined>>

-----------------------------------------------------------------------------
(* Workspaces and invites *)

\* Workspace and sole Owner in one transaction.  Slugs never clash for good.
CreateWorkspace(u, w) ==
  /\ u \in users
  /\ w \notin used
  /\ used' = used \cup {w}
  /\ creator' = [creator EXCEPT ![w] = u]
  /\ role' = [role EXCEPT ![w] = [NoRoles EXCEPT ![u] = "owner"]]
  /\ UNCHANGED <<users, admins, invite, expired, op, joined>>

\* By an Owner, or by a super admin.
BeginDeleteWorkspace(o, a, w) ==
  /\ Live(w)
  /\ role[w][a] = "owner" \/ a \in admins
  /\ Begin(o, "deleteWorkspace", a, w, None, None, NoRoles)

\* Members and invites go with the workspace.
CommitDeleteWorkspace(o) ==
  LET w == op[o].on IN
  /\ Commit(o, "deleteWorkspace")
  /\ Live(w)
  /\ creator' = [creator EXCEPT ![w] = None]
  /\ role' = [role EXCEPT ![w] = NoRoles]
  /\ invite' = [i \in Invites |-> IF invite[i].on = w THEN [NoInvite EXCEPT !.status = "deleted"] ELSE invite[i]]
  /\ UNCHANGED <<users, admins, used, expired, joined>>

\* An Owner invites; nothing it writes depends on what it read.
CreateInvite(a, w, i, r) ==
  /\ a \in users
  /\ role[w][a] = "owner"
  /\ invite[i].status = "none"
  /\ i \notin expired
  /\ r \in InviteRoles
  /\ invite' = [invite EXCEPT ![i] = [status |-> "pending", on |-> w, role |-> r]]
  /\ UNCHANGED <<users, admins, creator, used, role, expired, op, joined>>

Expire(i) ==
  /\ invite[i].status = "pending"
  /\ i \notin expired
  /\ expired' = expired \cup {i}
  /\ UNCHANGED <<users, admins, creator, used, role, invite, op, joined>>

\* resolve_invite_acceptance: resolved beats expired, expired beats accept.
\* The status an expired invite is given is undone with the 410 that follows.
Acceptance(i) ==
  IF invite[i].status # "pending" THEN "already_resolved"
  ELSE IF i \in expired THEN "expired" ELSE "accept"

\* Variant: an expired invite is refused, a used one is not.
BeginAcceptUnexpired(o, u, i) ==
  /\ invite[i].status \in {"pending", "accepted"}
  /\ i \notin expired
  /\ Begin(o, "accept", u, invite[i].on, u, i, NoRoles)

\* Whoever holds the token may accept.
BeginAccept(o, u, i) ==
  /\ Acceptance(i) = "accept"
  /\ Begin(o, "accept", u, invite[i].on, u, i, NoRoles)

\* Variant: the row of a user who is already a member is written over.
CommitAcceptRejoin(o) ==
  LET w == op[o].on  u == op[o].to  i == op[o].val IN
  /\ Commit(o, "accept")
  /\ Live(w)
  /\ role' = [role EXCEPT ![w][u] = invite[i].role]
  /\ invite' = [invite EXCEPT ![i].status = "accepted"]
  /\ joined' = joined \cup {<<i, u>>}
  /\ UNCHANGED <<users, admins, creator, used, expired>>

\* The member row is new: a second row for the user breaks the unique key.  The
\* invite's row went with its workspace if that is gone.
CommitAccept(o) ==
  LET w == op[o].on  u == op[o].to  i == op[o].val IN
  /\ Commit(o, "accept")
  /\ Live(w)
  /\ invite[i].status \in {"pending", "accepted"}
  /\ role[w][u] = "none"
  /\ role' = [role EXCEPT ![w][u] = invite[i].role]
  /\ invite' = [invite EXCEPT ![i].status = "accepted"]
  /\ joined' = joined \cup {<<i, u>>}
  /\ UNCHANGED <<users, admins, creator, used, expired>>

-----------------------------------------------------------------------------
(* Roles *)

BeginRole(o, a, w, t, r) ==
  /\ role[w][a] = "owner"
  /\ role[w][t] # "none"
  /\ Begin(o, "role", a, w, t, r, [NoRoles EXCEPT ![t] = role[w][t]])

\* A role equal to the one read is not written at all.
CommitRole(o) ==
  LET w == op[o].on  t == op[o].to IN
  /\ Commit(o, "role")
  /\ op[o].was[t] # op[o].val => role[w][t] # "none"
  /\ role' = IF op[o].was[t] = op[o].val THEN role
             ELSE [role EXCEPT ![w][t] = op[o].val]
  /\ UNCHANGED <<users, admins, creator, used, invite, expired, joined>>

\* Super admins make any account the Owner of any workspace.
BeginReassign(o, a, w, t) ==
  /\ a \in admins
  /\ Live(w)
  /\ t \in users
  /\ Begin(o, "reassign", a, w, t, None, role[w])

\* The role the handler gives u, from the one it read.
NewRole(o, u) ==
  LET read == op[o].was[u] IN
  IF u = op[o].to THEN "owner" ELSE IF read = "owner" THEN "admin" ELSE read

\* Variant: every Owner is demoted, the new one included.
CommitReassignAll(o) ==
  LET w == op[o].on  t == op[o].to IN
  /\ Commit(o, "reassign")
  /\ Live(w)
  /\ t \in users
  /\ role' = [role EXCEPT ![w] = [u \in Users |->
       IF role[w][u] = "owner" THEN "admin" ELSE IF u = t THEN "owner" ELSE role[w][u]]]
  /\ UNCHANGED <<users, admins, creator, used, invite, expired, joined>>

\* The rows whose role changes are written; each must exist, or not exist
\* yet, as it did when it was read.
CommitReassign(o) ==
  LET w == op[o].on
      written == {u \in Users : NewRole(o, u) # op[o].was[u]} IN
  /\ Commit(o, "reassign")
  /\ Live(w)
  /\ op[o].to \in users
  /\ \A u \in written : (op[o].was[u] = "none") = (role[w][u] = "none")
  /\ role' = [role EXCEPT ![w] = [u \in Users |->
       IF u \in written THEN NewRole(o, u) ELSE role[w][u]]]
  /\ UNCHANGED <<users, admins, creator, used, invite, expired, joined>>

-----------------------------------------------------------------------------
(* Accounts *)

\* Variant: the last super admin may be demoted too.
BeginAdminLast(o, a, t, val) ==
  /\ a \in admins
  /\ t \in users
  /\ (t \in admins) # (val = "yes")
  /\ val = "no" => Cardinality(admins) > 0
  /\ Begin(o, "admin", a, None, t, val, NoRoles)

\* Promote or demote; a demotion of the last super admin is refused.
BeginAdmin(o, a, t, val) ==
  /\ a \in admins
  /\ t \in users
  /\ (t \in admins) # (val = "yes")
  /\ val = "no" => Cardinality(admins) > 1
  /\ Begin(o, "admin", a, None, t, val, NoRoles)

\* Updating an account that is gone fails.
CommitAdmin(o) ==
  LET t == op[o].to IN
  /\ Commit(o, "admin")
  /\ t \in users
  /\ admins' = IF op[o].val = "yes" THEN admins \cup {t} ELSE admins \ {t}
  /\ UNCHANGED <<users, creator, used, role, invite, expired, joined>>

Created(t) == {w \in Workspaces : creator[w] = t}

\* Guardrails A (not oneself), B (not the last super admin) and C (no one
\* who created a workspace).
BeginDeleteUser(o, a, t) ==
  /\ a \in admins
  /\ t \in users \ {a}
  /\ t \in admins => Cardinality(admins) > 1
  /\ Created(t) = {}
  /\ Begin(o, "deleteUser", a, None, t, None, NoRoles)

\* Variant: the created workspaces keep a creator that is gone.
CommitDeleteUnrestricted(o) ==
  LET t == op[o].to IN
  /\ Commit(o, "deleteUser")
  /\ t \in users
  /\ users' = users \ {t}
  /\ admins' = admins \ {t}
  /\ role' = [w \in Workspaces |-> [role[w] EXCEPT ![t] = "none"]]
  /\ UNCHANGED <<creator, used, invite, expired, joined>>

\* Memberships go with the account; workspaces.created_by_user_id restricts.
CommitDeleteUser(o) ==
  LET t == op[o].to IN
  /\ Commit(o, "deleteUser")
  /\ t \in users
  /\ Created(t) = {}
  /\ users' = users \ {t}
  /\ admins' = admins \ {t}
  /\ role' = [w \in Workspaces |-> [role[w] EXCEPT ![t] = "none"]]
  /\ UNCHANGED <<creator, used, invite, expired, joined>>

-----------------------------------------------------------------------------
UserNext(u) ==
  \/ \E w \in Workspaces : CreateWorkspace(u, w)
  \/ \E w \in Workspaces, i \in Invites, r \in InviteRoles : CreateInvite(u, w, i, r)

OpNext(o) ==
  \/ \E a \in Users, w \in Workspaces : BeginDeleteWorkspace(o, a, w)
  \/ \E u \in Users, i \in Invites : BeginAccept(o, u, i)
  \/ \E a, t \in Users, w \in Workspaces, r \in Roles : BeginRole(o, a, w, t, r)
  \/ \E a, t \in Users, w \in Workspaces : BeginReassign(o, a, w, t)
  \/ \E a, t \in Users, val \in {"yes", "no"} : BeginAdmin(o, a, t, val)
  \/ \E a, t \in Users : BeginDeleteUser(o, a, t)
  \/ CommitDeleteWorkspace(o) \/ CommitAccept(o) \/ CommitRole(o) \/ CommitReassign(o)
  \/ CommitAdmin(o) \/ CommitDeleteUser(o) \/ Abort(o)

Step ==
  \/ \E u \in Users : UserNext(u)
  \/ \E i \in Invites : Expire(i)
  \/ \E o \in Ops : OpNext(o)

\* What the step adds to the history.
Begins(o) == op[o].kind = "idle" /\ op'[o].kind # "idle"
Observe ==
  overlapped' = (overlapped \/ \E o, p \in Ops : Begins(o) /\ op[p].kind # "idle")

Next == Step /\ Observe

Spec == Init /\ [][Next]_vars

-----------------------------------------------------------------------------
(* Correctness *)

\* No workspace, membership or invite refers to an account or a workspace that is
\* gone, however deletions, joins and creations overlap (the foreign keys of
\* db/models.py with the guards of delete_user and delete_workspace).
NoDanglingRows ==
  /\ \A w \in Workspaces :
       /\ Live(w) => creator[w] \in users
       /\ \A u \in Users : role[w][u] # "none" => u \in users /\ Live(w)
  /\ \A i \in Invites :
       invite[i].status \in {"pending", "accepted"}
         => invite[i].on \in Workspaces /\ Live(invite[i].on)

\* Joining gives the newcomer the role of the invite and takes nobody's: an
\* Owner who follows an invite to their own workspace is not demoted by it
\* (accept_invite with the unique key on workspace and user).
JoiningChangesNoMember ==
  [][joined' # joined =>
       \A w \in Workspaces, u \in Users :
         role[w][u] # "none" => role'[w][u] = role[w][u]]_vars

-----------------------------------------------------------------------------
(* Claims of the documentation, and how far they hold: as long as no handler *)
(* begins while another is in progress.                                      *)

\* The platform is never left without a super admin (_superadmin_count).
SuperadminRemains == FirstAdmins # {} => admins # {}

\* The same, as far as it holds.
SuperadminRemainsUnlessOverlapped == overlapped \/ SuperadminRemains

\* An invite is used once (accept_invite).
InviteUsedOnce ==
  \A i \in Invites : Cardinality({u \in Users : <<i, u>> \in joined}) <= 1 \/ overlapped

Reassigned(o) == op[o].kind = "reassign" /\ op'[o].kind = "idle" /\ role' # role

\* After a reassignment the designated user is the Owner, and the only one,
\* also when there were several or the user was one of them (reassign_ownership).
ReassignMakesOneOwner ==
  [][\A o \in Ops : Reassigned(o) /\ ~overlapped =>
       {u \in Users : role'[op[o].on][u] = "owner"} = {op[o].to}]_vars

Rules == INSTANCE Directory

\* Until a handler begins while another is in progress, each of them might as
\* well be one step of Directory: authority, counts and roles it read before its
\* commit still hold at the commit, whatever workspaces and invites are created
\* in between (require_capability, require_superadmin, the guardrails of
\* delete_user and set_superadmin, the snapshot of reassign_ownership).
HandlersAreAtomic == Rules!Init /\ [][overlapped \/ Rules!Next]_(Rules!vars)
=============================================================================
