-------------------------- MODULE Membership_proofs --------------------------
(***************************************************************************)
(* Proofs about Membership, for any accounts, workspaces, invites and      *)
(* handlers.                                                               *)
(***************************************************************************)
EXTENDS Membership, FiniteSetTheorems, TLAPS

-----------------------------------------------------------------------------
(* Type correctness.  A commit writes the workspace, user and value that its *)
(* handler holds, so these must be of the types that the handler's kind      *)
(* calls for.                                                                *)

TypeInv ==
  /\ TypeOK
  /\ \A i \in Invites : invite[i].status = "pending" => invite[i].on \in Workspaces
  /\ \A o \in Ops :
       /\ op[o].kind \in {"role", "reassign", "accept", "deleteWorkspace"}
            => op[o].on \in Workspaces
       /\ op[o].kind \in {"role", "reassign", "accept", "admin", "deleteUser"}
            => op[o].to \in Users
       /\ op[o].kind = "role" => op[o].val \in Roles
       /\ op[o].kind = "accept" => op[o].val \in Invites /\ op[o].by = op[o].to

LEMMA IdleType == NoRoles \in [Users -> Roles \cup {"none"}] /\ Idle \in Op
  <1>1. NoRoles \in [Users -> Roles \cup {"none"}]
    BY DEF NoRoles
  <1> QED
    BY <1>1 DEF Idle, Op

THEOREM InitTypeInv == Init => TypeInv
  <1> SUFFICES ASSUME Init PROVE TypeInv
    OBVIOUS
  <1>1. NoInvite \in Invite
    BY DEF NoInvite, Invite, Roles
  <1>2. overlapped \in BOOLEAN
    BY Zenon DEF Init
  <1> QED
    BY <1>1, <1>2, IdleType, ConstantsAssumption DEF Init, TypeInv, TypeOK, Idle, NoInvite

THEOREM StepTypeInv == TypeInv /\ [Next]_vars => TypeInv'
  <1> SUFFICES ASSUME TypeInv, [Next]_vars PROVE TypeInv'
    OBVIOUS
  <1>a. overlapped' \in BOOLEAN
    BY Zenon DEF TypeInv, TypeOK, Next, Observe, vars
  <1> USE <1>a DEF TypeInv, TypeOK
  <1>0. \A o \in Ops : op[o] \in Op
    OBVIOUS
  <1>1. ASSUME NEW u \in Users, UserNext(u) PROVE TypeInv'
    <2>1. ASSUME NEW w \in Workspaces, CreateWorkspace(u, w) PROVE TypeInv'
      BY <2>1, IdleType DEF CreateWorkspace, Roles
    <2>2. ASSUME NEW w \in Workspaces, NEW i \in Invites, NEW r \in InviteRoles,
                 CreateInvite(u, w, i, r)
          PROVE  TypeInv'
      BY <2>2 DEF CreateInvite, Invite, Roles
    <2> QED
      BY <1>1, <2>1, <2>2 DEF UserNext
  <1>2. ASSUME NEW i \in Invites, Expire(i) PROVE TypeInv'
    BY <1>2 DEF Expire
  <1>3. ASSUME NEW o \in Ops, OpNext(o) PROVE TypeInv'
    <2>1. ASSUME NEW a \in Users, NEW w \in Workspaces, BeginDeleteWorkspace(o, a, w)
          PROVE  TypeInv'
      BY <2>1, IdleType DEF BeginDeleteWorkspace, Begin, Op
    <2>2. ASSUME NEW u \in Users, NEW i \in Invites, BeginAccept(o, u, i) PROVE TypeInv'
      BY <2>2, IdleType DEF BeginAccept, Acceptance, Begin, Op
    <2>3. ASSUME NEW a \in Users, NEW t \in Users, NEW w \in Workspaces, NEW r \in Roles,
                 BeginRole(o, a, w, t, r)
          PROVE  TypeInv'
      <3>1. [NoRoles EXCEPT ![t] = role[w][t]] \in [Users -> Roles \cup {"none"}]
        BY IdleType
      <3> QED
        BY <2>3, <3>1 DEF BeginRole, Begin, Op
    <2>4. ASSUME NEW a \in Users, NEW t \in Users, NEW w \in Workspaces,
                 BeginReassign(o, a, w, t)
          PROVE  TypeInv'
      BY <2>4 DEF BeginReassign, Begin, Op
    <2>5. ASSUME NEW a \in Users, NEW t \in Users, NEW val \in {"yes", "no"},
                 BeginAdmin(o, a, t, val)
          PROVE  TypeInv'
      BY <2>5, IdleType DEF BeginAdmin, Begin, Op
    <2>6. ASSUME NEW a \in Users, NEW t \in Users, BeginDeleteUser(o, a, t)
          PROVE  TypeInv'
      BY <2>6, IdleType DEF BeginDeleteUser, Begin, Op
    <2>7. CASE CommitDeleteWorkspace(o)
      BY <2>7, IdleType DEF CommitDeleteWorkspace, Commit, Idle, NoInvite, Invite, Roles
    <2>8. CASE CommitAccept(o)
      <3>1. /\ op[o].on \in Workspaces
            /\ op[o].to \in Users
            /\ op[o].val \in Invites
            /\ invite[op[o].val].role \in Roles
        BY <2>8 DEF CommitAccept, Commit, Invite
      <3> QED
        BY <2>8, <3>1, IdleType DEF CommitAccept, Commit, Idle, Invite
    <2>9. CASE CommitRole(o)
      BY <2>9, IdleType DEF CommitRole, Commit, Idle
    <2>10. CASE CommitReassign(o)
      <3>1. \A u \in Users : NewRole(o, u) \in Roles \cup {"none"}
        BY <1>0, ConstantsAssumption DEF NewRole, Op, Roles
      <3> QED
        BY <2>10, <3>1, IdleType DEF CommitReassign, Commit, Idle
    <2>11. CASE CommitAdmin(o)
      BY <2>11, IdleType DEF CommitAdmin, Commit, Idle
    <2>12. CASE CommitDeleteUser(o)
      BY <2>12, IdleType DEF CommitDeleteUser, Commit, Idle
    <2>13. CASE Abort(o)
      BY <2>13, IdleType DEF Abort, Idle
    <2> QED
      BY <1>3, <2>1, <2>2, <2>3, <2>4, <2>5, <2>6, <2>7, <2>8, <2>9, <2>10, <2>11, <2>12,
         <2>13 DEF OpNext
  <1>4. CASE UNCHANGED vars
    BY <1>4 DEF vars
  <1> QED
    BY <1>1, <1>2, <1>3, <1>4 DEF Next, Step

LEMMA TypeInvariant == Spec => []TypeInv
  BY InitTypeInv, StepTypeInv, PTL DEF Spec

\* Every reachable state is well typed: super admins are accounts, and every
\* role is one that a membership can carry.
THEOREM TypeCorrect == Spec => []TypeOK
  <1>1. TypeInv => TypeOK
    BY DEF TypeInv
  <1> QED
    BY <1>1, TypeInvariant, PTL

-----------------------------------------------------------------------------
(* No row refers to a row that is gone.  NoDanglingRows is inductive given   *)
(* the types: each commit rereads what the foreign keys protect.             *)

THEOREM StepDangling == TypeInv /\ NoDanglingRows /\ [Next]_vars => NoDanglingRows'
  <1> SUFFICES ASSUME TypeInv, NoDanglingRows, [Next]_vars PROVE NoDanglingRows'
    OBVIOUS
  <1> USE DEF TypeInv, TypeOK, NoDanglingRows, Live
  <1>1. ASSUME NEW u \in Users, UserNext(u) PROVE NoDanglingRows'
    <2>1. ASSUME NEW w \in Workspaces, CreateWorkspace(u, w) PROVE NoDanglingRows'
      BY <2>1, ConstantsAssumption DEF CreateWorkspace, NoRoles
    <2>2. ASSUME NEW w \in Workspaces, NEW i \in Invites, NEW r \in InviteRoles,
                 CreateInvite(u, w, i, r)
          PROVE  NoDanglingRows'
      <3>1. Live(w)
        BY <2>2, ConstantsAssumption DEF CreateInvite
      <3>2. \A j \in Invites : j = i \/ invite'[j] = invite[j]
        BY <2>2 DEF CreateInvite
      <3>3. invite'[i].on = w
        BY <2>2 DEF CreateInvite
      <3> QED
        BY <2>2, <3>1, <3>2, <3>3 DEF CreateInvite
    <2> QED
      BY <1>1, <2>1, <2>2 DEF UserNext
  <1>2. ASSUME NEW i \in Invites, Expire(i) PROVE NoDanglingRows'
    BY <1>2 DEF Expire
  <1>3. ASSUME NEW o \in Ops, OpNext(o) PROVE NoDanglingRows'
    <2>1. CASE UNCHANGED <<users, creator, role, invite>>
      BY <2>1
    <2>2. CASE CommitDeleteWorkspace(o)
      BY <2>2 DEF CommitDeleteWorkspace, Commit, NoRoles, NoInvite
    <2>3. CASE CommitAccept(o)
      BY <2>3 DEF CommitAccept, Commit
    <2>4. CASE CommitRole(o)
      BY <2>4 DEF CommitRole, Commit
    <2>5. CASE CommitReassign(o)
      <3>1. \A u \in Users : op[o].was[u] = "none" /\ NewRole(o, u) # op[o].was[u] => u = op[o].to
        BY DEF NewRole
      <3> QED
        BY <2>5, <3>1 DEF CommitReassign, Commit
    <2>6. CASE CommitDeleteUser(o)
      BY <2>6 DEF CommitDeleteUser, Commit, Created
    <2> QED
      BY <1>3, <2>1, <2>2, <2>3, <2>4, <2>5, <2>6
      DEF OpNext, Begin, BeginDeleteWorkspace, BeginAccept, BeginRole, BeginReassign,
          BeginAdmin, BeginDeleteUser, CommitAdmin, Abort
  <1>4. CASE UNCHANGED vars
    BY <1>4 DEF vars
  <1> QED
    BY <1>1, <1>2, <1>3, <1>4 DEF Next, Step

\* Members are accounts that exist, of workspaces that exist, creators exist, and
\* invites are to workspaces that exist, however deletions, joins and role changes
\* overlap (NoDanglingRows).
THEOREM NothingDangles == Spec => []NoDanglingRows
  <1>1. Init => NoDanglingRows
    BY DEF Init, NoDanglingRows, Live, NoRoles, NoInvite
  <1> QED
    BY <1>1, StepDangling, TypeInvariant, PTL DEF Spec

\* Joining a workspace takes the unique key of the newcomer: nobody who has a
\* role in it loses or changes it.
THEOREM JoiningIsHarmless == Spec => JoiningChangesNoMember
  <1> DEFINE Harmless == joined' # joined =>
        \A w \in Workspaces, u \in Users :
          role[w][u] # "none" => role'[w][u] = role[w][u]
  <1>1. TypeInv /\ [Next]_vars => Harmless
    <2> SUFFICES ASSUME TypeInv, [Next]_vars, joined' # joined,
                        NEW w \in Workspaces, NEW u \in Users, role[w][u] # "none"
                 PROVE  role'[w][u] = role[w][u]
      OBVIOUS
    <2>1. PICK o \in Ops : CommitAccept(o)
      BY DEF Next, Step, UserNext, CreateWorkspace, CreateInvite, Expire, OpNext, Begin,
         BeginDeleteWorkspace, BeginAccept, BeginRole, BeginReassign, BeginAdmin,
         BeginDeleteUser, CommitDeleteWorkspace, CommitRole, CommitReassign, CommitAdmin,
         CommitDeleteUser, Abort, vars
    <2> QED
      BY <2>1 DEF CommitAccept, TypeInv, TypeOK
  <1> QED
    BY <1>1, TypeInvariant, PTL DEF Spec, JoiningChangesNoMember

-----------------------------------------------------------------------------
(* As long as handlers do not overlap, what one read is still so when it     *)
(* commits, and the claims of the documentation hold: overlap is the only    *)
(* way to break them.                                                        *)

\* An invite somebody joined through is used up, and nobody else did.
JoinedInv ==
  /\ \A i \in Invites, u \in Users :
       <<i, u>> \in joined => invite[i].status \in {"accepted", "deleted"}
  /\ \A i \in Invites, u, v \in Users : <<i, u>> \in joined /\ <<i, v>> \in joined => u = v

Serial ==
  /\ SuperadminRemains
  /\ \A o, p \in Ops : op[o].kind = "idle" \/ op[p].kind = "idle" \/ o = p
  /\ \A w \in Workspaces : Live(w) => w \in used
  /\ JoinedInv
  /\ \A o \in Ops :
       /\ op[o].kind = "deleteUser" \/ (op[o].kind = "admin" /\ op[o].val # "yes")
            => \E a \in admins : a # op[o].to
       /\ op[o].kind = "accept" => invite[op[o].val].status = "pending"
       /\ op[o].kind = "reassign" => Live(op[o].on) /\ op[o].was = role[op[o].on]

SerialInv == ~overlapped => Serial

LEMMA NotOverlapped ==
  ASSUME [Next]_vars, ~overlapped'
  PROVE  ~overlapped
  BY DEF Next, Observe, vars

\* A handler that begins without overlap finds no other in progress.
LEMMA BeginsAlone ==
  ASSUME Observe, ~overlapped', NEW o \in Ops, NEW kind, kind # "idle",
         NEW by, NEW on, NEW to, NEW val, NEW was, TypeOK,
         Begin(o, kind, by, on, to, val, was)
  PROVE  /\ \A p \in Ops : op[p].kind = "idle"
         /\ \A p, q \in Ops : op'[p].kind = "idle" \/ op'[q].kind = "idle" \/ p = q
  <1>1. op'[o].kind # "idle" /\ op[o].kind = "idle" /\ \A p \in Ops \ {o} : op'[p] = op[p]
    BY DEF Begin, TypeOK
  <1>2. \A p \in Ops : op[p].kind = "idle"
    BY <1>1 DEF Observe, Begins
  <1> QED
    BY <1>1, <1>2

\* The one handler in progress commits: afterwards all are idle.
LEMMA CommitsAlone ==
  ASSUME Serial, TypeOK, NEW o \in Ops, op[o].kind # "idle", op' = [op EXCEPT ![o] = Idle]
  PROVE  \A p \in Ops : op'[p].kind = "idle"
  <1>1. \A p \in Ops : p = o \/ op[p].kind = "idle"
    BY DEF Serial
  <1> QED
    BY <1>1 DEF TypeOK, Idle

\* Of two super admins one is not t.
LEMMA AnotherAdmin == \A S, t : Cardinality(S) > 1 => \E a \in S : a # t
  <1> SUFFICES ASSUME NEW S, NEW t, Cardinality(S) > 1, S \subseteq {t} PROVE FALSE
    OBVIOUS
  <1>1. S = {} \/ S = {t}
    OBVIOUS
  <1>2. Cardinality({}) = 0 /\ Cardinality({t}) = 1
    BY FS_EmptySet, FS_Singleton
  <1> QED
    BY <1>1, <1>2

THEOREM StepSerial == TypeInv /\ SerialInv /\ [Next]_vars => SerialInv'
  <1> SUFFICES ASSUME TypeInv, SerialInv, [Next]_vars, ~overlapped' PROVE Serial'
    BY DEF SerialInv
  <1>0. Serial
    BY NotOverlapped DEF SerialInv
  <1>a. Cardinality(admins) > 1 => \A t \in Users : \E b \in admins : b # t
    BY AnotherAdmin
  <1> USE <1>0 DEF TypeInv, TypeOK, Serial, SuperadminRemains, Live
  <1>1. ASSUME NEW u \in Users, UserNext(u) PROVE Serial'
    <2>1. ASSUME NEW w \in Workspaces, CreateWorkspace(u, w) PROVE Serial'
      BY <2>1 DEF CreateWorkspace, JoinedInv
    <2>2. ASSUME NEW w \in Workspaces, NEW i \in Invites, NEW r \in InviteRoles,
                 CreateInvite(u, w, i, r)
          PROVE  Serial'
      BY <2>2 DEF CreateInvite, JoinedInv
    <2> QED
      BY <1>1, <2>1, <2>2 DEF UserNext
  <1>2. ASSUME NEW i \in Invites, Expire(i) PROVE Serial'
    BY <1>2 DEF Expire, JoinedInv
  <1>3. ASSUME NEW o \in Ops, Observe, OpNext(o) PROVE Serial'
    <2>1. ASSUME NEW a \in Users, NEW w \in Workspaces, BeginDeleteWorkspace(o, a, w)
          PROVE  Serial'
      BY <1>3, <2>1, BeginsAlone DEF BeginDeleteWorkspace, Begin, JoinedInv
    <2>2. ASSUME NEW u \in Users, NEW i \in Invites, BeginAccept(o, u, i) PROVE Serial'
      BY <1>3, <2>2, BeginsAlone DEF BeginAccept, Acceptance, Begin, JoinedInv
    <2>3. ASSUME NEW a \in Users, NEW t \in Users, NEW w \in Workspaces, NEW r \in Roles,
                 BeginRole(o, a, w, t, r)
          PROVE  Serial'
      BY <1>3, <2>3, BeginsAlone DEF BeginRole, Begin, JoinedInv
    <2>4. ASSUME NEW a \in Users, NEW t \in Users, NEW w \in Workspaces,
                 BeginReassign(o, a, w, t)
          PROVE  Serial'
      BY <1>3, <2>4, BeginsAlone DEF BeginReassign, Begin, JoinedInv
    <2>5. ASSUME NEW a \in Users, NEW t \in Users, NEW val \in {"yes", "no"},
                 BeginAdmin(o, a, t, val)
          PROVE  Serial'
      <3>1. val = "no" => \E b \in admins : b # t
        <4>1. val = "no" => Cardinality(admins) > 1
          BY <2>5 DEF BeginAdmin
        <4> QED
          BY <1>a, <4>1
      <3> QED
        BY <1>3, <2>5, <3>1, BeginsAlone DEF BeginAdmin, Begin, JoinedInv
    <2>6. ASSUME NEW a \in Users, NEW t \in Users, BeginDeleteUser(o, a, t)
          PROVE  Serial'
      BY <1>3, <2>6, BeginsAlone DEF BeginDeleteUser, Begin, JoinedInv
    <2>7. CASE CommitDeleteWorkspace(o)
      <3>1. \A p \in Ops : op'[p].kind = "idle"
        BY <2>7, CommitsAlone DEF CommitDeleteWorkspace, Commit
      <3>2. \A i \in Invites : invite'[i].status \in {invite[i].status, "deleted"}
        BY <2>7 DEF CommitDeleteWorkspace, NoInvite
      <3>3. JoinedInv'
        BY <2>7, <3>2 DEF CommitDeleteWorkspace, JoinedInv
      <3> QED
        BY <2>7, <3>1, <3>3 DEF CommitDeleteWorkspace
    <2>8. CASE CommitAccept(o)
      <3>1. \A p \in Ops : op'[p].kind = "idle"
        BY <2>8, CommitsAlone DEF CommitAccept, Commit
      <3> DEFINE j == op[o].val
      <3>2. j \in Invites /\ invite[j].status = "pending"
        BY <2>8 DEF CommitAccept, Commit
      <3>3. \A i \in Invites : invite'[i].status = IF i = j THEN "accepted" ELSE invite[i].status
        BY <2>8, <3>2 DEF CommitAccept, Invite
      <3>4. joined' = joined \cup {<<j, op[o].to>>}
        BY <2>8 DEF CommitAccept
      <3>5. JoinedInv'
        <4>1. \A i \in Invites, u \in Users :
                <<i, u>> \in joined' <=> <<i, u>> \in joined \/ (i = j /\ u = op[o].to)
          BY <3>4
        <4>2. \A u \in Users : <<j, u>> \notin joined
          BY <3>2 DEF JoinedInv
        <4> QED
          BY <3>3, <4>1, <4>2 DEF JoinedInv
      <3> QED
        BY <2>8, <3>1, <3>5 DEF CommitAccept
    <2>9. CASE CommitRole(o)
      BY <2>9 DEF CommitRole, Commit, Idle, JoinedInv
    <2>10. CASE CommitReassign(o)
      BY <2>10 DEF CommitReassign, Commit, Idle, JoinedInv
    <2>11. CASE CommitAdmin(o)
      <3>1. \A p \in Ops : op'[p].kind = "idle"
        BY <2>11, CommitsAlone DEF CommitAdmin, Commit
      <3>2. admins # {} => admins' # {}
        BY <2>11 DEF CommitAdmin, Commit, Op
      <3> QED
        BY <2>11, <3>1, <3>2 DEF CommitAdmin, JoinedInv
    <2>12. CASE CommitDeleteUser(o)
      <3>1. \A p \in Ops : op'[p].kind = "idle"
        BY <2>12, CommitsAlone DEF CommitDeleteUser, Commit
      <3>2. admins' # {}
        BY <2>12 DEF CommitDeleteUser, Commit
      <3> QED
        BY <2>12, <3>1, <3>2 DEF CommitDeleteUser, JoinedInv
    <2>13. CASE Abort(o)
      BY <2>13 DEF Abort, Idle, JoinedInv
    <2> HIDE DEF TypeInv, TypeOK, Serial, SuperadminRemains, Live
    <2> QED
      BY <1>3, <2>1, <2>2, <2>3, <2>4, <2>5, <2>6, <2>7, <2>8, <2>9, <2>10, <2>11, <2>12,
         <2>13 DEF OpNext
  <1>4. CASE UNCHANGED vars
    BY <1>4 DEF vars, JoinedInv
  <1> QED
    BY <1>1, <1>2, <1>3, <1>4 DEF Next, Step

LEMMA SerialInvariant == Spec => []SerialInv
  <1>1. Init => SerialInv
    BY DEF Init, SerialInv, Serial, JoinedInv, SuperadminRemains, Live, Idle
  <1>2. TypeInv /\ SerialInv /\ [Next]_vars => SerialInv'
    BY StepSerial
  <1> QED
    BY <1>1, <1>2, TypeInvariant, PTL DEF Spec

\* Without overlap the count of super admins is still right when a demotion
\* or a deletion commits: one remains.
THEOREM SerialKeepsSuperadmin == Spec => []SuperadminRemainsUnlessOverlapped
  <1>1. SerialInv => SuperadminRemainsUnlessOverlapped
    BY DEF SerialInv, Serial, SuperadminRemainsUnlessOverlapped
  <1> QED
    BY <1>1, SerialInvariant, PTL

\* Without overlap one person at most joins through an invite.
THEOREM SerialInvitesUsedOnce == Spec => []InviteUsedOnce
  <1>1. SerialInv => InviteUsedOnce
    <2> SUFFICES ASSUME SerialInv, ~overlapped, NEW i \in Invites
                 PROVE  Cardinality({u \in Users : <<i, u>> \in joined}) <= 1
      BY DEF InviteUsedOnce
    <2> DEFINE J == {u \in Users : <<i, u>> \in joined}
    <2>1. \A u, v \in J : u = v
      BY DEF SerialInv, Serial, JoinedInv
    <2> HIDE DEF J
    <2>2. ASSUME J = {} PROVE Cardinality(J) <= 1
      BY <2>2, FS_EmptySet
    <2>3. ASSUME NEW u \in J PROVE Cardinality(J) <= 1
      <3>1. J = {u}
        BY <2>1
      <3>2. Cardinality({u}) = 1
        BY FS_Singleton
      <3> QED
        BY <3>1, <3>2
    <2> USE DEF J
    <2> QED
      BY <2>2, <2>3
  <1> QED
    BY <1>1, SerialInvariant, PTL

\* Without overlap a reassignment leaves the designated user as the Owner and
\* nobody else.
THEOREM SerialReassigns == Spec => ReassignMakesOneOwner
  <1> DEFINE OneOwner == \A o \in Ops : Reassigned(o) /\ ~overlapped =>
               {u \in Users : role'[op[o].on][u] = "owner"} = {op[o].to}
  <1>1. TypeInv /\ SerialInv /\ [Next]_vars => OneOwner
    <2> SUFFICES ASSUME TypeInv, Serial, [Next]_vars, NEW o \in Ops, Reassigned(o)
                 PROVE  {u \in Users : role'[op[o].on][u] = "owner"} = {op[o].to}
      BY DEF SerialInv
    <2>0. PICK p \in Ops : OpNext(p)
      BY DEF Reassigned, Next, Step, UserNext, CreateWorkspace, CreateInvite, Expire, vars
    <2>a. p = o
      BY <2>0 DEF Reassigned, TypeInv, TypeOK, OpNext, Begin,
         BeginDeleteWorkspace, BeginAccept, BeginRole, BeginReassign, BeginAdmin,
         BeginDeleteUser, Commit, CommitDeleteWorkspace, CommitAccept, CommitRole,
         CommitReassign, CommitAdmin, CommitDeleteUser, Abort
    <2>1. CommitReassign(o)
      BY <2>0, <2>a DEF Reassigned, OpNext, Begin,
         BeginDeleteWorkspace, BeginAccept, BeginRole, BeginReassign, BeginAdmin,
         BeginDeleteUser, Commit, CommitDeleteWorkspace, CommitAccept, CommitRole, CommitAdmin,
         CommitDeleteUser, Abort
    <2>2. /\ op[o].on \in Workspaces
          /\ op[o].to \in Users
          /\ op[o].was = role[op[o].on]
      BY <2>1 DEF CommitReassign, Commit, TypeInv, Serial
    <2>3. \A u \in Users : role'[op[o].on][u] = "owner" <=> u = op[o].to
      BY <2>1, <2>2 DEF CommitReassign, NewRole, TypeInv, TypeOK
    <2> QED
      BY <2>2, <2>3
  <1> QED
    BY <1>1, SerialInvariant, TypeInvariant, PTL
    DEF Spec, ReassignMakesOneOwner

-----------------------------------------------------------------------------
(* As long as handlers do not overlap they implement Directory.  Serial is   *)
(* about what they count and copy; Carried adds the authority of the caller  *)
(* and the rows the guards looked at.                                        *)

Carried ==
  \A o \in Ops :
    /\ op[o].kind \in {"reassign", "admin", "deleteUser"} => op[o].by \in admins
    /\ op[o].kind = "role" =>
         /\ role[op[o].on][op[o].by] = "owner"
         /\ role[op[o].on][op[o].to] = op[o].was[op[o].to]
         /\ op[o].was[op[o].to] # "none"
    /\ op[o].kind = "deleteWorkspace" =>
         /\ Live(op[o].on)
         /\ role[op[o].on][op[o].by] = "owner" \/ op[o].by \in admins
    /\ op[o].kind = "accept" => op[o].on = invite[op[o].val].on
    /\ op[o].kind = "admin" =>
         \/ (op[o].val = "yes" /\ op[o].to \notin admins)
         \/ (op[o].val = "no" /\ op[o].to \in admins)
    /\ op[o].kind = "deleteUser" => op[o].to # op[o].by

CarriedInv == ~overlapped => Carried

\* A handler that begins alone carries what it has just read.
LEMMA BeginCarries ==
  ASSUME Serial, TypeInv, Observe, ~overlapped', NEW o \in Ops, op[o].kind = "idle", OpNext(o)
  PROVE  Carried'
  <1> USE DEF TypeInv, TypeOK
  <1>1. ASSUME NEW a \in Users, NEW w \in Workspaces, BeginDeleteWorkspace(o, a, w)
        PROVE  Carried'
    BY <1>1, BeginsAlone DEF BeginDeleteWorkspace, Begin, Carried, Live
  <1>2. ASSUME NEW u \in Users, NEW i \in Invites, BeginAccept(o, u, i) PROVE Carried'
    BY <1>2, BeginsAlone DEF BeginAccept, Begin, Carried
  <1>3. ASSUME NEW a \in Users, NEW t \in Users, NEW w \in Workspaces, NEW r \in Roles,
               BeginRole(o, a, w, t, r)
        PROVE  Carried'
    BY <1>3, BeginsAlone DEF BeginRole, Begin, Carried, NoRoles
  <1>4. ASSUME NEW a \in Users, NEW t \in Users, NEW w \in Workspaces, BeginReassign(o, a, w, t)
        PROVE  Carried'
    BY <1>4, BeginsAlone DEF BeginReassign, Begin, Carried
  <1>5. ASSUME NEW a \in Users, NEW t \in Users, NEW val \in {"yes", "no"},
               BeginAdmin(o, a, t, val)
        PROVE  Carried'
    <2>1. (val = "yes" /\ t \notin admins) \/ (val = "no" /\ t \in admins)
      BY <1>5 DEF BeginAdmin
    <2>2. a \in admins /\ admins' = admins
      BY <1>5 DEF BeginAdmin, Begin
    <2>3. op' = [op EXCEPT ![o] = [kind |-> "admin", by |-> a, on |-> None, to |-> t,
                                  val |-> val, was |-> NoRoles]]
      BY <1>5 DEF BeginAdmin, Begin
    <2>4. \A p \in Ops : op[p].kind = "idle"
      BY <1>5, BeginsAlone DEF BeginAdmin
    <2> QED
      BY <2>1, <2>2, <2>3, <2>4 DEF Carried
  <1>6. ASSUME NEW a \in Users, NEW t \in Users, BeginDeleteUser(o, a, t) PROVE Carried'
    BY <1>6, BeginsAlone DEF BeginDeleteUser, Begin, Carried
  <1> QED
    BY <1>1, <1>2, <1>3, <1>4, <1>5, <1>6
    DEF OpNext, CommitDeleteWorkspace, CommitAccept, CommitRole, CommitReassign, CommitAdmin,
        CommitDeleteUser, Commit, Abort

\* A handler that ends was the only one, and leaves nothing to carry.
LEMMA EndCarries ==
  ASSUME Serial, TypeInv, NEW o \in Ops, op[o].kind # "idle", OpNext(o)
  PROVE  Carried'
  <1>1. op' = [op EXCEPT ![o] = Idle]
    BY DEF OpNext, Begin, BeginDeleteWorkspace, BeginAccept, BeginRole, BeginReassign,
       BeginAdmin, BeginDeleteUser, Commit, CommitDeleteWorkspace, CommitAccept, CommitRole,
       CommitReassign, CommitAdmin, CommitDeleteUser, Abort
  <1>2. \A p \in Ops : op'[p].kind = "idle"
    BY <1>1, CommitsAlone DEF TypeInv
  <1> QED
    BY <1>2 DEF Carried

\* What other users create in the meantime is new: neither a workspace nor an
\* invite that the handler has to do with.
LEMMA StepCarried ==
  TypeInv /\ NoDanglingRows /\ SerialInv /\ CarriedInv /\ [Next]_vars => CarriedInv'
  <1> SUFFICES ASSUME TypeInv, NoDanglingRows, SerialInv, CarriedInv, [Next]_vars, ~overlapped'
               PROVE  Carried'
    BY DEF CarriedInv
  <1>0. Serial /\ Carried
    BY NotOverlapped DEF SerialInv, CarriedInv
  <1>1. ASSUME NEW u \in Users, NEW w \in Workspaces, CreateWorkspace(u, w) PROVE Carried'
    <2>1. \A v \in Workspaces : Live(v) => v # w /\ role'[v] = role[v] /\ Live(v)'
      BY <1>0, <1>1 DEF CreateWorkspace, Serial, Live, TypeInv, TypeOK
    <2>2. \A o \in Ops : op[o].kind \in {"role", "deleteWorkspace"} =>
            op[o].on \in Workspaces /\ Live(op[o].on)
      BY <1>0 DEF Carried, NoDanglingRows, TypeInv
    <2>3. UNCHANGED <<op, admins, invite>>
      BY <1>1 DEF CreateWorkspace
    <2> QED
      BY <1>0, <2>1, <2>2, <2>3 DEF Carried
  <1>2. ASSUME NEW u \in Users, NEW w \in Workspaces, NEW i \in Invites, NEW r \in InviteRoles,
               CreateInvite(u, w, i, r)
        PROVE  Carried'
    BY <1>0, <1>2 DEF CreateInvite, Carried, Live, Serial, TypeInv, TypeOK
  <1>3. ASSUME NEW i \in Invites, Expire(i) PROVE Carried'
    BY <1>0, <1>3 DEF Expire, Carried, Live
  <1>4. ASSUME Observe, NEW o \in Ops, OpNext(o) PROVE Carried'
    BY <1>0, <1>4, BeginCarries, EndCarries
  <1>5. CASE UNCHANGED vars
    BY <1>0, <1>5 DEF vars, Carried, Live
  <1> QED
    BY <1>1, <1>2, <1>3, <1>4, <1>5 DEF Next, Step, UserNext

\* Each commit is the step of Directory that its handler stands for.
LEMMA CommitOnDirectory ==
  ASSUME TypeInv, Serial, Carried, NEW o \in Ops,
         \/ CommitDeleteWorkspace(o) \/ CommitAccept(o) \/ CommitRole(o)
         \/ CommitReassign(o) \/ CommitAdmin(o) \/ CommitDeleteUser(o)
  PROVE  [Rules!Next]_(Rules!vars)
  <1> DEFINE a == op[o].by
             w == op[o].on
             t == op[o].to
  <1>1. CASE CommitDeleteWorkspace(o)
    <2>1. a \in users /\ w \in Workspaces /\ (role[w][a] = "owner" \/ a \in admins)
      BY <1>1 DEF CommitDeleteWorkspace, Commit, Carried, TypeInv
    <2>2. Rules!DeleteWorkspace(a, w)
      BY <1>1, <2>1
      DEF CommitDeleteWorkspace, Live, NoRoles, NoInvite, Rules!DeleteWorkspace, Rules!Live,
          Rules!Owns, Rules!Removed
    <2> QED
      BY <2>1, <2>2 DEF Rules!Next
  <1>2. CASE CommitAccept(o)
    <2> DEFINE i == op[o].val
    <2>1. /\ a \in users /\ w \in Workspaces /\ i \in Invites /\ t = a
          /\ invite[i].status = "pending" /\ invite[i].on = w
      BY <1>2 DEF CommitAccept, Commit, Serial, Carried, TypeInv, TypeOK
    <2>2. Rules!Join(a, w, i)
      BY <1>2, <2>1 DEF CommitAccept, Live, Rules!Join, Rules!Live
    <2> QED
      BY <2>1, <2>2 DEF Rules!Next
  <1>3. CASE CommitRole(o)
    <2> DEFINE r == op[o].val
    <2>1. /\ a \in users /\ w \in Workspaces /\ t \in Users /\ r \in InviteRoles \cup {"owner"}
          /\ role[w][a] = "owner" /\ role[w][t] = op[o].was[t] /\ role[w][t] # "none"
      BY <1>3 DEF CommitRole, Commit, Carried, TypeInv, TypeOK, Roles
    <2>2. CASE op[o].was[t] = r
      BY <1>3, <2>2 DEF CommitRole, Rules!vars
    <2>3. CASE op[o].was[t] # r
      <3>1. Rules!ChangeRole(a, w, t, r)
        BY <1>3, <2>1, <2>3 DEF CommitRole, Rules!ChangeRole, Rules!Owns
      <3> QED
        BY <2>1, <3>1 DEF Rules!Next
    <2> QED
      BY <2>2, <2>3
  <1>4. CASE CommitReassign(o)
    <2>1. /\ a \in users /\ w \in Workspaces /\ t \in users /\ t \in Users /\ a \in admins
          /\ Live(w) /\ op[o].was = role[w]
      BY <1>4 DEF CommitReassign, Commit, Serial, Carried, TypeInv, TypeOK
    <2>2. role' = [role EXCEPT ![w] = [u \in Users |->
            IF u = t THEN "owner" ELSE IF role[w][u] = "owner" THEN "admin" ELSE role[w][u]]]
      BY <1>4, <2>1 DEF CommitReassign, NewRole
    <2>3. Rules!Reassign(a, w, t)
      BY <1>4, <2>1, <2>2 DEF CommitReassign, Live, Rules!Reassign, Rules!Live, Rules!Owns
    <2> QED
      BY <2>1, <2>3 DEF Rules!Next
  <1>5. CASE CommitAdmin(o)
    <2>1. a \in users /\ a \in admins /\ t \in users /\ t \in Users
      BY <1>5 DEF CommitAdmin, Commit, Carried, TypeInv, TypeOK
    <2>2. CASE op[o].val = "yes" /\ t \notin admins
      <3>1. Rules!Promote(a, t)
        BY <1>5, <2>1, <2>2 DEF CommitAdmin, Rules!Promote
      <3> QED
        BY <2>1, <3>1 DEF Rules!Next
    <2>3. CASE op[o].val = "no" /\ t \in admins
      <3>1. admins # {t}
        BY <1>5, <2>3 DEF CommitAdmin, Commit, Serial
      <3>2. Rules!Demote(a, t)
        BY <1>5, <2>1, <2>3, <3>1 DEF CommitAdmin, Rules!Demote
      <3> QED
        BY <2>1, <3>2 DEF Rules!Next
    <2> QED
      BY <1>5, <2>2, <2>3 DEF CommitAdmin, Commit, Carried
  <1>6. CASE CommitDeleteUser(o)
    <2>1. a \in users /\ a \in admins /\ t \in users /\ t \in Users /\ t # a
      BY <1>6 DEF CommitDeleteUser, Commit, Carried, TypeInv, TypeOK
    <2>2. \A v \in Workspaces : creator[v] # t
      BY <1>6 DEF CommitDeleteUser, Created
    <2>3. Rules!DeleteUser(a, t)
      BY <1>6, <2>1, <2>2 DEF CommitDeleteUser, Rules!DeleteUser
    <2> QED
      BY <2>1, <2>3 DEF Rules!Next
  <1> QED
    BY <1>1, <1>2, <1>3, <1>4, <1>5, <1>6

\* Handlers that do not overlap implement Directory: the caller still has the
\* authority, and the rows are still what the guards saw, when the commit comes.
THEOREM SerialHandlersAreAtomic == Spec => HandlersAreAtomic
  <1> DEFINE Promise == overlapped \/ [Rules!Next]_(Rules!vars)
  <1>1. Init => Rules!Init /\ CarriedInv
    BY DEF Init, Rules!Init, NoRoles, NoInvite, Idle, CarriedInv, Carried
  <1>2. TypeInv /\ SerialInv /\ CarriedInv /\ [Next]_vars => Promise
    <2> SUFFICES ASSUME TypeInv, Serial, Carried, [Next]_vars
                 PROVE  [Rules!Next]_(Rules!vars)
      BY DEF SerialInv, CarriedInv
    <2>1. ASSUME NEW a \in Users, NEW w \in Workspaces, CreateWorkspace(a, w)
          PROVE  [Rules!Next]_(Rules!vars)
      <3>1. a \in users /\ Rules!CreateWorkspace(a, w)
        BY <2>1 DEF CreateWorkspace, NoRoles, Rules!CreateWorkspace
      <3> QED
        BY <3>1 DEF Rules!Next
    <2>2. ASSUME NEW a \in Users, NEW w \in Workspaces, NEW i \in Invites, NEW r \in InviteRoles,
                 CreateInvite(a, w, i, r)
          PROVE  [Rules!Next]_(Rules!vars)
      <3>1. a \in users /\ Rules!Issue(a, w, i, r)
        BY <2>2 DEF CreateInvite, Rules!Issue, Rules!Owns
      <3> QED
        BY <3>1 DEF Rules!Next
    <2>3. CASE UNCHANGED <<users, admins, creator, used, role, invite, joined>>
      BY <2>3 DEF Rules!vars
    <2>4. ASSUME NEW o \in Ops, OpNext(o) PROVE [Rules!Next]_(Rules!vars)
      BY <2>3, <2>4, CommitOnDirectory
      DEF OpNext, Begin, BeginDeleteWorkspace, BeginAccept, BeginRole, BeginReassign,
          BeginAdmin, BeginDeleteUser, Abort
    <2> QED
      BY <2>1, <2>2, <2>3, <2>4 DEF Next, Step, UserNext, Expire, vars
  <1>3. Promise => [overlapped \/ Rules!Next]_(Rules!vars)
    OBVIOUS
  <1>4. TypeInv /\ NoDanglingRows /\ SerialInv /\ CarriedInv /\ [Next]_vars => CarriedInv'
    BY StepCarried
  <1> HIDE DEF Promise
  <1> QED
    BY <1>1, <1>2, <1>3, <1>4, SerialInvariant, NothingDangles, TypeInvariant, PTL
    DEF Spec, HandlersAreAtomic
=============================================================================
