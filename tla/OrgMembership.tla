---------------------------- MODULE OrgMembership ----------------------------
(***************************************************************************)
(* The members, invitations and ownership of one organization              *)
(* (features/organizations/service.tsx, features/auth/tokens.ts).          *)
(*                                                                         *)
(* Most handlers read the caller's membership and role, await, and then    *)
(* run a MongoDB transaction; acceptance and leave have nothing before it. *)
(* Check is the part before the transaction, Begin the callback on its     *)
(* snapshot, Commit the installation of its writes; a callback that throws *)
(* is a Begin that does not happen.  A transaction that loses a write      *)
(* conflict is run again from Begin with the permissions read once.        *)
(***************************************************************************)
EXTENDS Totals

CONSTANTS
  Users,
  Creator,      \* the user who creates the organization
  Roles,        \* the built-in roles in use
  Invitations,  \* invitation documents, each with the token mailed for it
  Sessions,     \* request handlers
  MaxChanges    \* bound on the sum of __v over the memberships

VARIABLES
  organization,  \* "absent" or "active"
  member,        \* organization_members, by user
  invitation,    \* invitations
  token,         \* auth_tokens of type invitation, by invitation
  session,       \* the request of each handler and how far it is
  outdated       \* others wrote one of its documents since its snapshot

vars == <<organization, member, invitation, token, session, outdated>>
-----------------------------------------------------------------------------
(* Roles.                                                                  *)

OwnerOnly == {"organization:delete", "role:manage"}

AdminPermissions == {"organization:read", "organization:update", "member:list",
  "member:invite", "member:update", "member:remove", "role:list", "billing:read"}

\* The permissions membership operations ask for, and those that keep the
\* built-in roles apart.
Permissions ==
  [owner     |-> AdminPermissions \cup OwnerOnly \cup {"billing:manage"},
   admin     |-> AdminPermissions,
   developer |-> {"organization:read", "member:list", "role:list"},
   billing   |-> {"organization:read", "member:list", "billing:read", "billing:manage"},
   viewer    |-> {"organization:read", "member:list", "role:list", "billing:read"}]

\* assertRoleCanBeGranted
RoleCanBeGranted(actorRole, role) == Permissions[role] \subseteq Permissions[actorRole]
-----------------------------------------------------------------------------
(* Documents and requests.                                                 *)

Membership == [status: {"active", "removed"}, role: Roles, version: 0 .. MaxChanges + 1]

NoMembership == [status |-> "none"]

Invitation == [status: {"pending", "accepted", "revoked"}, user: Users,
               role: Roles, expired: BOOLEAN]

Absent == [status |-> "absent"]

\* What a handler has parsed and checked before its transaction.
Request ==
       [op: {"invite"}, user: Users, role: Roles]
  \cup [op: {"accept"}, user: Users, invitation: Invitations]
  \cup [op: {"revoke"}, invitation: Invitations]
  \cup [op: {"change"}, user: Users, role: Roles, seen: Membership]
  \cup [op: {"remove"}, user: Users]
  \cup [op: {"transfer"}, actor: Users, user: Users]
  \cup [op: {"leave"}, user: Users]

Idle == [phase |-> "idle"]

MemberDoc(u)     == <<"member", u>>
InvitationDoc(i) == <<"invitation", i>>
TokenDoc(i)      == <<"token", i>>

Active(u) == member[u].status = "active"
IsOwner(u) == Active(u) /\ member[u].role = "owner"
Owners == {u \in Users : IsOwner(u)}
Pending(i) == invitation[i].status = "pending"
PendingFor(u) == {i \in Invitations : Pending(i) /\ invitation[i].user = u}

\* requireOrganizationPermission
Allowed(actor, permission) ==
  Active(actor) /\ permission \in Permissions[member[actor].role]

\* Mutant: removing somebody does not look at who is left.
NotLastOwner_NotAsked(u) == TRUE

\* The LAST_OWNER check, on the snapshot of the transaction.
NotLastOwner(u) == IsOwner(u) => Cardinality(Owners) > 1

\* The owners are counted only when an owner is to go.
Counted(u) == IF IsOwner(u) THEN Owners ELSE {}
-----------------------------------------------------------------------------
(* Transactions.                                                           *)

\* Mutants: a transfer writes only the actor's membership; an acceptance uses
\* up the token and leaves the invitation alone.
Writes_TransferActorOnly(tx) ==
  LET r == tx.request IN
  CASE r.op = "invite"   -> {InvitationDoc(i) : i \in tx.read}
    [] r.op = "accept"   -> {TokenDoc(r.invitation), MemberDoc(r.user),
                             InvitationDoc(r.invitation)}
    [] r.op = "revoke"   -> {InvitationDoc(r.invitation), TokenDoc(r.invitation)}
    [] r.op = "transfer" -> {MemberDoc(r.actor)}
    [] OTHER             -> {MemberDoc(r.user)}

Writes_AcceptTokenOnly(tx) ==
  LET r == tx.request IN
  CASE r.op = "invite"   -> {InvitationDoc(i) : i \in tx.read}
    [] r.op = "accept"   -> {TokenDoc(r.invitation), MemberDoc(r.user)}
    [] r.op = "revoke"   -> {InvitationDoc(r.invitation), TokenDoc(r.invitation)}
    [] r.op = "transfer" -> {MemberDoc(r.actor), MemberDoc(r.user)}
    [] OTHER             -> {MemberDoc(r.user)}

\* The documents an open transaction writes.  The owner count reads other
\* memberships than the one it guards, and writes none of them.
Writes(tx) ==
  LET r == tx.request IN
  CASE r.op = "invite"   -> {InvitationDoc(i) : i \in tx.read}
    [] r.op = "accept"   -> {TokenDoc(r.invitation), MemberDoc(r.user),
                             InvitationDoc(r.invitation)}
    [] r.op = "revoke"   -> {InvitationDoc(r.invitation), TokenDoc(r.invitation)}
    [] r.op = "transfer" -> {MemberDoc(r.actor), MemberDoc(r.user)}
    [] OTHER             -> {MemberDoc(r.user)}

IsFree(s) == organization = "active" /\ session[s] = Idle

IsOpen(s) == session[s].phase = "open"

Start(s, request) ==
  /\ session' = [session EXCEPT ![s] = [phase |-> "checked", request |-> request]]
  /\ UNCHANGED <<organization, member, invitation, token, outdated>>

\* read: the pending invitations the callback's updateMany matched, or the
\* owners it counted.
Open(s, request, read) ==
  /\ session' = [session EXCEPT ![s] =
       [phase |-> "open", request |-> request, read |-> read]]
  /\ outdated' = [outdated EXCEPT ![s] = FALSE]
  /\ UNCHANGED <<organization, member, invitation, token>>

\* First committer wins; everyone else who wrote the same documents has lost.
Commit(s) ==
  /\ ~outdated[s]
  /\ session' = [session EXCEPT ![s] = Idle]
  /\ outdated' = [x \in Sessions |->
       /\ x # s
       /\ IsOpen(x)
       /\ outdated[x] \/ Writes(session[x]) \cap Writes(session[s]) # {}]
  /\ UNCHANGED organization

\* The bound on the versions is not reached; a last transfer makes two changes.
Versions == [u \in Users |-> IF member[u] = NoMembership THEN 0 ELSE member[u].version]
Room == Total(Users, Versions, MaxChanges + 1) < MaxChanges

\* A membership that was save()d or updated with $inc: __v.
Changed(m, status, role) ==
  [status |-> status, role |-> role, version |-> m.version + 1]
-----------------------------------------------------------------------------
CreateOrganization ==
  /\ organization = "absent"
  /\ organization' = "active"
  /\ member' = [member EXCEPT
       ![Creator] = [status |-> "active", role |-> "owner", version |-> 0]]
  /\ UNCHANGED <<invitation, token, session, outdated>>

Checked(s, op) == session[s].phase = "checked" /\ session[s].request.op = op
Opened(s, op)  == session[s].phase = "open" /\ session[s].request.op = op
-----------------------------------------------------------------------------
(* inviteMember                                                            *)

CheckInvite(s, actor, u, role) ==
  /\ Allowed(actor, "member:invite")
  /\ RoleCanBeGranted(member[actor].role, role)
  /\ ~Active(u)
  /\ Start(s, [op |-> "invite", user |-> u, role |-> role])

BeginInvite(s) ==
  /\ Checked(s, "invite")
  /\ Open(s, session[s].request, PendingFor(session[s].request.user))

\* The unique index on pending (organizationId, email) refuses a second one.
CommitInvite(s) ==
  LET r == session[s].request IN
  /\ Opened(s, "invite")
  /\ PendingFor(r.user) \subseteq session[s].read
  /\ \E i \in Invitations :
       /\ invitation[i] = Absent
       /\ invitation' = [j \in Invitations |->
            CASE j = i -> [status |-> "pending", user |-> r.user,
                           role |-> r.role, expired |-> FALSE]
              [] j \in session[s].read -> [invitation[j] EXCEPT !.status = "revoked"]
              [] OTHER -> invitation[j]]
       /\ token' = [token EXCEPT ![i] = "live"]
  /\ Commit(s)
  /\ UNCHANGED member
-----------------------------------------------------------------------------
(* acceptInvitation                                                        *)

BeginAccept(s, i) ==
  /\ IsFree(s)
  /\ token[i] = "live"
  /\ Pending(i)
  /\ ~invitation[i].expired
  /\ Open(s, [op |-> "accept", user |-> invitation[i].user, invitation |-> i], {})

\* The upsert gives the invited role to whatever membership there is and
\* leaves __v as it was.
CommitAccept(s) ==
  LET i == session[s].request.invitation
      u == session[s].request.user
  IN
  /\ Opened(s, "accept")
  /\ token' = [token EXCEPT ![i] = "used"]
  /\ member' = [member EXCEPT ![u] =
       [status |-> "active", role |-> invitation[i].role,
        version |-> IF member[u] = NoMembership THEN 0 ELSE member[u].version]]
  /\ invitation' = [invitation EXCEPT ![i].status = "accepted"]
  /\ Commit(s)
-----------------------------------------------------------------------------
(* revokeInvitation                                                        *)

CheckRevoke(s, actor, i) ==
  /\ Allowed(actor, "member:invite")
  /\ invitation[i] # Absent
  /\ Start(s, [op |-> "revoke", invitation |-> i])

BeginRevoke(s) ==
  /\ Checked(s, "revoke")
  /\ Pending(session[s].request.invitation)
  /\ Open(s, session[s].request, {})

CommitRevoke(s) ==
  LET i == session[s].request.invitation IN
  /\ Opened(s, "revoke")
  /\ invitation' = [invitation EXCEPT ![i].status = "revoked"]
  /\ token' = [token EXCEPT ![i] = "used"]
  /\ Commit(s)
  /\ UNCHANGED member
-----------------------------------------------------------------------------
(* changeMemberRole.  The version in the body is the one the caller's      *)
(* member list showed together with the role.                              *)

CheckChange(s, actor, u, role) ==
  /\ Allowed(actor, "member:update")
  /\ RoleCanBeGranted(member[actor].role, role)
  /\ Active(u)
  /\ Start(s, [op |-> "change", user |-> u, role |-> role, seen |-> member[u]])

\* Mutant: the version in the body is not compared.
BeginChange_AnyVersion(s) ==
  LET r == session[s].request IN
  /\ Checked(s, "change")
  /\ Active(r.user)
  /\ r.role # "owner" => NotLastOwner(r.user)
  /\ Open(s, r, Counted(r.user))

BeginChange(s) ==
  LET r == session[s].request IN
  /\ Checked(s, "change")
  /\ Active(r.user)
  /\ r.role # "owner" => NotLastOwner(r.user)
  /\ member[r.user].version = r.seen.version
  /\ Open(s, r, Counted(r.user))

CommitChange(s) ==
  LET r == session[s].request IN
  /\ Opened(s, "change")
  /\ Room
  /\ member' = [member EXCEPT ![r.user] = Changed(@, "active", r.role)]
  /\ Commit(s)
  /\ UNCHANGED <<invitation, token>>
-----------------------------------------------------------------------------
(* removeMember and leaveOrganization                                      *)

CheckRemove(s, actor, u) ==
  /\ Allowed(actor, "member:remove")
  /\ Start(s, [op |-> "remove", user |-> u])

BeginRemove(s) ==
  LET r == session[s].request IN
  /\ Checked(s, "remove")
  /\ Active(r.user)
  /\ NotLastOwner(r.user)
  /\ Open(s, r, Counted(r.user))

BeginLeave(s, u) ==
  /\ IsFree(s)
  /\ Active(u)
  /\ NotLastOwner(u)
  /\ Open(s, [op |-> "leave", user |-> u], Counted(u))

\* Mutant: the role is cleared together with the status.
CommitRemove_RoleCleared(s) ==
  LET u == session[s].request.user IN
  /\ Opened(s, "remove") \/ Opened(s, "leave")
  /\ Room
  /\ member' = [member EXCEPT ![u] = Changed(@, "removed", "none")]
  /\ Commit(s)
  /\ UNCHANGED <<invitation, token>>

CommitRemove(s) ==
  LET u == session[s].request.user IN
  /\ Opened(s, "remove") \/ Opened(s, "leave")
  /\ Room
  /\ member' = [member EXCEPT ![u] = Changed(@, "removed", @.role)]
  /\ Commit(s)
  /\ UNCHANGED <<invitation, token>>
-----------------------------------------------------------------------------
(* transferOwnership                                                       *)

CheckTransfer(s, actor, u) ==
  /\ Allowed(actor, "member:update")
  /\ member[actor].role = "owner"
  /\ actor # u
  /\ Start(s, [op |-> "transfer", actor |-> actor, user |-> u])

BeginTransfer(s) ==
  LET r == session[s].request IN
  /\ Checked(s, "transfer")
  /\ IsOwner(r.actor)
  /\ Active(r.user)
  /\ Open(s, session[s].request, {})

CommitTransfer(s) ==
  LET r == session[s].request IN
  /\ Opened(s, "transfer")
  /\ Room
  /\ member' = [member EXCEPT ![r.user]  = Changed(@, @.status, "owner"),
                              ![r.actor] = Changed(@, @.status, "admin")]
  /\ Commit(s)
  /\ UNCHANGED <<invitation, token>>
-----------------------------------------------------------------------------
\* A write conflict: the callback runs again on a new snapshot.  With nothing
\* checked before, that is a new BeginAccept or BeginLeave.
Retry(s) ==
  /\ IsOpen(s)
  /\ session[s].request.op \notin {"accept", "leave"}
  /\ session' = [session EXCEPT ![s] =
       [phase |-> "checked", request |-> session[s].request]]
  /\ outdated' = [outdated EXCEPT ![s] = FALSE]
  /\ UNCHANGED <<organization, member, invitation, token>>

\* The handler throws, or its process dies, before the commit.
GiveUp(s) ==
  /\ session[s] # Idle
  /\ session' = [session EXCEPT ![s] = Idle]
  /\ outdated' = [outdated EXCEPT ![s] = FALSE]
  /\ UNCHANGED <<organization, member, invitation, token>>

\* Seven days pass.
Expire(i) ==
  /\ Pending(i)
  /\ ~invitation[i].expired
  /\ invitation' = [invitation EXCEPT ![i].expired = TRUE]
  /\ UNCHANGED <<organization, member, token, session, outdated>>
-----------------------------------------------------------------------------
Init ==
  /\ organization = "absent"
  /\ member = [u \in Users |-> NoMembership]
  /\ invitation = [i \in Invitations |-> Absent]
  /\ token = [i \in Invitations |-> "none"]
  /\ session = [s \in Sessions |-> Idle]
  /\ outdated = [s \in Sessions |-> FALSE]

CheckStep(s) ==
  /\ IsFree(s)
  /\ \/ \E actor, u \in Users, role \in Roles :
          CheckInvite(s, actor, u, role) \/ CheckChange(s, actor, u, role)
     \/ \E actor \in Users, i \in Invitations : CheckRevoke(s, actor, i)
     \/ \E actor, u \in Users : CheckRemove(s, actor, u) \/ CheckTransfer(s, actor, u)

BeginStep(s) ==
  \/ BeginInvite(s) \/ BeginRevoke(s)
  \/ BeginChange(s) \/ BeginRemove(s) \/ BeginTransfer(s)
  \/ \E i \in Invitations : BeginAccept(s, i)
  \/ \E u \in Users : BeginLeave(s, u)

CommitStep(s) ==
  \/ CommitInvite(s) \/ CommitAccept(s) \/ CommitRevoke(s)
  \/ CommitChange(s) \/ CommitRemove(s) \/ CommitTransfer(s)

Next ==
  \/ CreateOrganization
  \/ \E s \in Sessions :
       CheckStep(s) \/ BeginStep(s) \/ CommitStep(s) \/ Retry(s) \/ GiveUp(s)
  \/ \E i \in Invitations : Expire(i)

Spec == Init /\ [][Next]_vars
-----------------------------------------------------------------------------
(* Properties.                                                             *)

\* Every document and every request has the shape the handlers give it.
TypeOK ==
  /\ organization \in {"absent", "active"}
  /\ member \in [Users -> Membership \cup {NoMembership}]
  /\ invitation \in [Invitations -> Invitation \cup {Absent}]
  /\ token \in [Invitations -> {"none", "live", "used"}]
  /\ \A s \in Sessions :
       session[s] = Idle \/ session[s].request \in Request
  /\ outdated \in [Sessions -> BOOLEAN]

\* The final owner cannot be demoted, removed, or leave: an organization
\* always has an active owner.
AlwaysOwned == organization = "active" => Owners # {}

\* A change, removal or departure whose count of the owners still holds at its
\* commit leaves an owner: the LAST_OWNER checks are right about what they read,
\* and fail only on counts that others have outdated.
LastOwnerKept ==
  [][\A s \in Sessions :
       /\ CommitChange(s) \/ CommitRemove(s)
       /\ Owners # {} /\ session[s].read = Owners
       => Owners' # {}]_vars

\* An invitation is settled once: whatever acceptances, revocations and
\* repeated invitations race, an accepted one is never revoked and a revoked or
\* superseded one is never accepted.
InvitationSettlesOnce ==
  [][\A i \in Invitations :
       invitation[i].status \in {"accepted", "revoked"} =>
         invitation'[i].status = invitation[i].status]_vars

\* A transfer that takes effect leaves its target an active owner and the actor
\* an active admin, even when either was being removed or demoted meanwhile.
TransferHandsOver ==
  [][\A s \in Sessions : CommitTransfer(s) =>
       LET r == session[s].request IN
       /\ member'[r.user].status = "active" /\ member'[r.user].role = "owner"
       /\ member'[r.actor].status = "active" /\ member'[r.actor].role = "admin"]_vars

\* A role change overwrites the role its caller had seen, not one that was
\* given since (the version in the body of changeMemberRole).  The one role it
\* can overwrite unseen is that of an accepted invitation, which leaves the
\* version alone.
OverwritesSeenOrAccepted ==
  [][\A s \in Sessions : CommitChange(s) =>
       LET r == session[s].request  u == r.user IN
       \/ member[u].status = r.seen.status /\ member[u].role = r.seen.role
       \/ \E i \in Invitations :
            /\ invitation[i].status = "accepted"
            /\ invitation[i].user = u
            /\ invitation[i].role = member[u].role]_vars
=============================================================================
