-------------------------- MODULE ControlPlaneProofs -------------------------
(***************************************************************************)
(* Proofs about the two parts of MCControlPlane: the members and           *)
(* invitations of an organization (the instance Org), for any users,       *)
(* invitations and handlers; and the results that workers report, for any  *)
(* commands, workers, reports and handlers, any lifetimes and any window.  *)
(***************************************************************************)
EXTENDS MCControlPlane, TotalsProofs

-----------------------------------------------------------------------------
(* Members: types, the bound on the versions apart (OrgBounds).            *)

MemberRecord == [status: {"active", "removed"}, role: Roles, version: Nat]

OrgRequest ==
       [op: {"invite"}, user: Users, role: Roles]
  \cup [op: {"accept"}, user: Users, invitation: Invitations]
  \cup [op: {"revoke"}, invitation: Invitations]
  \cup [op: {"change"}, user: Users, role: Roles, seen: MemberRecord]
  \cup [op: {"remove"}, user: Users]
  \cup [op: {"transfer"}, actor: Users, user: Users]
  \cup [op: {"leave"}, user: Users]

OrgSession ==
       {Org!Idle}
  \cup [phase: {"checked"}, request: OrgRequest]
  \cup [phase: {"open"}, request: OrgRequest, read: SUBSET (Users \cup Invitations)]

OrgTypes ==
  /\ organization \in {"absent", "active"}
  /\ member \in [Users -> MemberRecord \cup {Org!NoMembership}]
  /\ invitation \in [Invitations -> Org!Invitation \cup {Org!Absent}]
  /\ session \in [Sessions -> OrgSession]
  /\ outdated \in [Sessions -> BOOLEAN]

\* What the check before a transaction leaves in the request.
Asked(r) ==
  /\ r.op # "accept"
  /\ r.op = "transfer" => r.actor # r.user
  /\ r.op = "change" => Org!Active(r.user) /\ r.seen = member[r.user]

\* Every handler that checks something first does it as a request.
LEMMA CheckTypes ==
  ASSUME OrgTypes, NEW s \in Sessions, Org!CheckStep(s)
  PROVE  /\ \E r \in OrgRequest : Org!Start(s, r) /\ Asked(r)
         /\ session[s] = Org!Idle /\ organization = "active"
<1> DEFINE Goal == \E r \in OrgRequest : Org!Start(s, r) /\ Asked(r)
<1>1. ASSUME NEW actor \in Users, NEW u \in Users, NEW role \in Roles,
             Org!CheckInvite(s, actor, u, role)
      PROVE  Goal
  BY <1>1 DEF Org!CheckInvite, OrgRequest, Asked
<1>2. ASSUME NEW actor \in Users, NEW u \in Users, NEW role \in Roles,
             Org!CheckChange(s, actor, u, role)
      PROVE  Goal
  <2>1. member[u] \in MemberRecord
    BY <1>2 DEF OrgTypes, Org!CheckChange, Org!Active, Org!NoMembership
  <2> DEFINE r == [op |-> "change", user |-> u, role |-> role, seen |-> member[u]]
  <2>2. r \in OrgRequest
    BY <2>1 DEF OrgRequest
  <2>3. Org!Start(s, r) /\ Asked(r)
    BY <1>2 DEF Org!CheckChange, Asked
  <2> QED
    BY <2>2, <2>3
<1>3. ASSUME NEW actor \in Users, NEW i \in Invitations, Org!CheckRevoke(s, actor, i)
      PROVE  Goal
  BY <1>3 DEF Org!CheckRevoke, OrgRequest, Asked
<1>4. ASSUME NEW actor \in Users, NEW u \in Users,
             Org!CheckRemove(s, actor, u) \/ Org!CheckTransfer(s, actor, u)
      PROVE  Goal
  BY <1>4 DEF Org!CheckRemove, Org!CheckTransfer, OrgRequest, Asked
<1> QED
  BY <1>1, <1>2, <1>3, <1>4 DEF Org!CheckStep, Org!IsFree

\* Every transaction is opened for a request, and reads users or invitations.
LEMMA BeginTypes ==
  ASSUME OrgTypes, NEW s \in Sessions, Org!BeginStep(s)
  PROVE  \E r \in OrgRequest, read \in SUBSET (Users \cup Invitations) :
           Org!Open(s, r, read)
<1>1. session[s].phase = "checked" => session[s].request \in OrgRequest
  BY DEF OrgTypes, OrgSession, Org!Idle
<1>2. \A u : Org!PendingFor(u) \subseteq Invitations /\ Org!Counted(u) \subseteq Users
  BY DEF Org!PendingFor, Org!Counted, Org!Owners
<1>3. ASSUME \/ Org!BeginInvite(s) \/ Org!BeginRevoke(s) \/ Org!BeginChange(s)
             \/ Org!BeginRemove(s) \/ Org!BeginTransfer(s)
      PROVE  \E r \in OrgRequest, read \in SUBSET (Users \cup Invitations) :
               Org!Open(s, r, read)
  BY <1>1, <1>2, <1>3 DEF Org!BeginInvite, Org!BeginRevoke, Org!BeginChange,
                          Org!BeginRemove, Org!BeginTransfer, Org!Checked
<1>4. ASSUME NEW i \in Invitations, Org!BeginAccept(s, i)
      PROVE  \E r \in OrgRequest, read \in SUBSET (Users \cup Invitations) :
               Org!Open(s, r, read)
  <2>1. invitation[i].user \in Users
    BY <1>4 DEF Org!BeginAccept, Org!Pending, OrgTypes, Org!Invitation, Org!Absent
  <2>2. [op |-> "accept", user |-> invitation[i].user, invitation |-> i] \in OrgRequest
    BY <2>1 DEF OrgRequest
  <2> QED
    BY <1>4, <2>2 DEF Org!BeginAccept
<1>5. ASSUME NEW u \in Users, Org!BeginLeave(s, u)
      PROVE  \E r \in OrgRequest, read \in SUBSET (Users \cup Invitations) :
               Org!Open(s, r, read)
  <2>1. [op |-> "leave", user |-> u] \in OrgRequest
    BY DEF OrgRequest
  <2> QED
    BY <1>2, <1>5, <2>1 DEF Org!BeginLeave
<1> QED
  BY <1>3, <1>4, <1>5 DEF Org!BeginStep

\* What the request of an open transaction is about.
LEMMA RequestFacts ==
  ASSUME OrgTypes, NEW s \in Sessions, session[s].phase = "open"
  PROVE  LET r == session[s].request IN
         /\ session[s] # Org!Idle
         /\ session[s].read \subseteq Users \cup Invitations
         /\ r \in OrgRequest
         /\ r.op \in {"invite", "accept", "change", "remove", "transfer", "leave"}
              => r.user \in Users
         /\ r.op \in {"accept", "revoke"} => r.invitation \in Invitations
         /\ r.op \in {"invite", "change"} => r.role \in Roles
         /\ r.op = "transfer" => r.actor \in Users
         /\ r.op = "change" => r.seen \in MemberRecord
<1>1. /\ session[s].request \in OrgRequest
      /\ session[s].read \subseteq Users \cup Invitations
      /\ session[s] # Org!Idle
  BY DEF OrgTypes, OrgSession, Org!Idle
<1> QED
  BY <1>1 DEF OrgRequest

-----------------------------------------------------------------------------
(* What an open transaction knows while nobody has outdated it.            *)

Knows(tx) ==
  LET r == tx.request IN
  /\ r.op = "invite" => \A i \in tx.read : i \in Invitations /\ Org!Pending(i)
  /\ r.op \in {"accept", "revoke"} => Org!Pending(r.invitation)
  /\ r.op \in {"change", "remove", "leave"} => Org!Active(r.user)
  /\ r.op = "change" => member[r.user].version = r.seen.version
  /\ r.op = "transfer" => Org!Active(r.actor) /\ Org!Active(r.user)

SnapshotsHold ==
  \A s \in Sessions : Org!IsOpen(s) /\ ~outdated[s] => Knows(session[s])

\* An organization that does not exist has no members, and nobody asks it.
NothingBefore ==
  organization = "absent" =>
    /\ \A u \in Users : member[u] = Org!NoMembership
    /\ \A s \in Sessions : session[s] = Org!Idle

\* An acceptance is by the user who was invited, a transfer to somebody else.
RequestsFit ==
  \A s \in Sessions : session[s] # Org!Idle =>
    LET r == session[s].request IN
    /\ r.op = "accept" => /\ invitation[r.invitation] # Org!Absent
                          /\ invitation[r.invitation].user = r.user
    /\ r.op = "transfer" => r.actor # r.user

OrgInv == OrgTypes /\ SnapshotsHold /\ NothingBefore /\ RequestsFit

\* What a commit does to a membership: nothing, or it writes it: then it is
\* the next version, or the one an accepted invitation gives.
LEMMA CommitMember ==
  ASSUME OrgInv, NEW s \in Sessions, Org!CommitStep(s), NEW u \in Users
  PROVE  \/ member'[u] = member[u]
         \/ /\ Org!MemberDoc(u) \in Org!Writes(session[s])
            /\ member'[u] \in MemberRecord
            /\ \/ /\ member[u] \in MemberRecord
                  /\ member'[u].version = member[u].version + 1
               \/ /\ session[s].request.op = "accept"
                  /\ session[s].request.user = u
                  /\ member'[u].status = "active"
                  /\ member'[u].role = invitation[session[s].request.invitation].role
                  /\ member[u] # Org!NoMembership =>
                       member'[u].version = member[u].version
<1> DEFINE r == session[s].request
           Goal == \/ member'[u] = member[u]
                   \/ /\ Org!MemberDoc(u) \in Org!Writes(session[s])
                      /\ member'[u] \in MemberRecord
                      /\ \/ /\ member[u] \in MemberRecord
                            /\ member'[u].version = member[u].version + 1
                         \/ /\ r.op = "accept" /\ r.user = u
                            /\ member'[u].status = "active"
                            /\ member'[u].role = invitation[r.invitation].role
                            /\ member[u] # Org!NoMembership =>
                                 member'[u].version = member[u].version
<1> USE DEF OrgInv
<1>1. /\ session[s].phase = "open" /\ ~outdated[s]
      /\ Knows(session[s])
  BY DEF Org!CommitStep, Org!CommitInvite, Org!CommitAccept, Org!CommitRevoke,
         Org!CommitChange, Org!CommitRemove, Org!CommitTransfer, Org!Opened,
         Org!Commit, SnapshotsHold, Org!IsOpen
<1>2. CASE Org!CommitInvite(s) \/ Org!CommitRevoke(s)
  BY <1>2 DEF Org!CommitInvite, Org!CommitRevoke
<1>3. CASE Org!CommitAccept(s)
  <2>1. /\ r.op = "accept" /\ r.user \in Users /\ r.invitation \in Invitations
        /\ Org!Pending(r.invitation)
    BY <1>1, <1>3, RequestFacts DEF Org!CommitAccept, Org!Opened, Knows
  <2>2. invitation[r.invitation].role \in Roles
    BY <2>1 DEF OrgTypes, Org!Pending, Org!Invitation, Org!Absent
  <2>3. Org!MemberDoc(r.user) \in Org!Writes(session[s])
    BY <2>1 DEF Org!Writes
  <2>4. CASE r.user # u
    BY <1>3, <2>4 DEF Org!CommitAccept, OrgTypes
  <2>5. CASE r.user = u
    <3>1. member'[u] = [status |-> "active", role |-> invitation[r.invitation].role,
                        version |-> IF member[u] = Org!NoMembership THEN 0
                                    ELSE member[u].version]
      BY <1>3, <2>5 DEF Org!CommitAccept, OrgTypes
    <3>2. member[u] # Org!NoMembership => member[u].version \in Nat
      BY DEF OrgTypes, MemberRecord
    <3>3. member'[u] \in MemberRecord
      BY <2>2, <3>1, <3>2 DEF MemberRecord
    <3> QED
      BY <2>1, <2>3, <2>5, <3>1, <3>3
  <2> QED
    BY <2>4, <2>5
<1>4. ASSUME NEW status \in {"active", "removed"}, NEW role \in Roles,
             Org!Active(u), member'[u] = Org!Changed(member[u], status, role)
      PROVE  /\ member[u] \in MemberRecord /\ member'[u] \in MemberRecord
             /\ member'[u].version = member[u].version + 1
  <2>1. member[u] \in MemberRecord
    BY <1>4 DEF OrgTypes, Org!Active, Org!NoMembership
  <2> QED
    BY <1>4, <2>1 DEF Org!Changed, MemberRecord
<1>5. CASE Org!CommitChange(s)
  <2>1. r.op = "change" /\ r.user \in Users /\ Org!Active(r.user) /\ r.role \in Roles
    BY <1>1, <1>5, RequestFacts DEF Org!CommitChange, Org!Opened, Knows
  <2>2. Org!MemberDoc(r.user) \in Org!Writes(session[s])
    BY <2>1 DEF Org!Writes
  <2>3. member' = [member EXCEPT ![r.user] = Org!Changed(member[r.user], "active", r.role)]
    BY <1>5 DEF Org!CommitChange
  <2> QED
    BY <1>4, <2>1, <2>2, <2>3 DEF OrgTypes
<1>6. CASE Org!CommitRemove(s)
  <2>1. r.op \in {"remove", "leave"} /\ r.user \in Users /\ Org!Active(r.user)
    BY <1>1, <1>6, RequestFacts DEF Org!CommitRemove, Org!Opened, Knows
  <2>2. Org!MemberDoc(r.user) \in Org!Writes(session[s])
    BY <2>1 DEF Org!Writes
  <2>3. member[r.user].role \in Roles
    BY <2>1 DEF OrgTypes, MemberRecord, Org!Active, Org!NoMembership
  <2>4. member' = [member EXCEPT ![r.user] =
                     Org!Changed(member[r.user], "removed", member[r.user].role)]
    BY <1>6 DEF Org!CommitRemove
  <2> QED
    BY <1>4, <2>1, <2>2, <2>3, <2>4 DEF OrgTypes
<1>7. CASE Org!CommitTransfer(s)
  <2>1. /\ r.op = "transfer" /\ r.user \in Users /\ r.actor \in Users
        /\ Org!Active(r.user) /\ Org!Active(r.actor) /\ r.actor # r.user
    BY <1>1, <1>7, RequestFacts DEF Org!CommitTransfer, Org!Opened, Knows, RequestsFit
  <2>2. /\ Org!MemberDoc(r.user) \in Org!Writes(session[s])
        /\ Org!MemberDoc(r.actor) \in Org!Writes(session[s])
    BY <2>1 DEF Org!Writes
  <2>3. /\ u = r.user => member'[u] = Org!Changed(member[u], member[u].status, "owner")
        /\ u = r.actor => member'[u] = Org!Changed(member[u], member[u].status, "admin")
        /\ u \notin {r.user, r.actor} => member'[u] = member[u]
    BY <1>7, <2>1 DEF Org!CommitTransfer, OrgTypes
  <2>4. \A x \in {r.user, r.actor} : member[x].status = "active"
    BY <2>1 DEF Org!Active
  <2> QED
    BY <1>4, <2>1, <2>2, <2>3, <2>4, MembersAssumption
<1> QED
  BY <1>2, <1>3, <1>5, <1>6, <1>7 DEF Org!CommitStep

\* What a commit does to an invitation: nothing, or it makes it, or it writes
\* a pending one and settles it.
LEMMA CommitInvitation ==
  ASSUME OrgInv, NEW s \in Sessions, Org!CommitStep(s), NEW i \in Invitations
  PROVE  \/ invitation'[i] = invitation[i]
         \/ /\ invitation[i] = Org!Absent
            /\ invitation'[i] \in Org!Invitation
         \/ /\ Org!Pending(i)
            /\ Org!InvitationDoc(i) \in Org!Writes(session[s])
            /\ \E status \in {"accepted", "revoked"} :
                 invitation'[i] = [invitation[i] EXCEPT !.status = status]
<1> DEFINE r == session[s].request
<1> USE DEF OrgInv
<1>1. /\ session[s].phase = "open" /\ ~outdated[s]
      /\ Knows(session[s])
  BY DEF Org!CommitStep, Org!CommitInvite, Org!CommitAccept, Org!CommitRevoke,
         Org!CommitChange, Org!CommitRemove, Org!CommitTransfer, Org!Opened,
         Org!Commit, SnapshotsHold, Org!IsOpen
<1>2. CASE Org!CommitChange(s) \/ Org!CommitRemove(s) \/ Org!CommitTransfer(s)
  BY <1>2 DEF Org!CommitChange, Org!CommitRemove, Org!CommitTransfer
<1>3. CASE Org!CommitAccept(s) \/ Org!CommitRevoke(s)
  <2>1. /\ r.op \in {"accept", "revoke"} /\ r.invitation \in Invitations
        /\ Org!Pending(r.invitation)
    BY <1>1, <1>3, RequestFacts DEF Org!CommitAccept, Org!CommitRevoke, Org!Opened, Knows
  <2>2. Org!InvitationDoc(r.invitation) \in Org!Writes(session[s])
    BY <2>1 DEF Org!Writes
  <2>3. \E status \in {"accepted", "revoked"} :
          invitation' = [invitation EXCEPT ![r.invitation].status = status]
    BY <1>3 DEF Org!CommitAccept, Org!CommitRevoke
  <2> QED
    BY <2>1, <2>2, <2>3 DEF OrgTypes
<1>4. CASE Org!CommitInvite(s)
  <2>1. PICK j \in Invitations :
          /\ invitation[j] = Org!Absent
          /\ invitation' = [x \in Invitations |->
               CASE x = j -> [status |-> "pending", user |-> r.user,
                              role |-> r.role, expired |-> FALSE]
                 [] x \in session[s].read -> [invitation[x] EXCEPT !.status = "revoked"]
                 [] OTHER -> invitation[x]]
    BY <1>4 DEF Org!CommitInvite
  <2>2. r.op = "invite" /\ r.user \in Users /\ r.role \in Roles
        /\ \A x \in session[s].read : x \in Invitations /\ Org!Pending(x)
    BY <1>1, <1>4, RequestFacts DEF Org!CommitInvite, Org!Opened, Knows
  <2>3. j \notin session[s].read
    BY <2>1, <2>2 DEF Org!Pending, Org!Absent
  <2>4. CASE i = j
    <3>1. invitation'[i] = [status |-> "pending", user |-> r.user,
                            role |-> r.role, expired |-> FALSE]
      BY <2>1, <2>3, <2>4
    <3>2. invitation'[i] \in Org!Invitation
      BY <2>2, <3>1 DEF Org!Invitation
    <3> QED
      BY <2>1, <2>4, <3>2
  <2>5. CASE i # j /\ i \in session[s].read
    <3>1. invitation'[i] = [invitation[i] EXCEPT !.status = "revoked"]
      BY <2>1, <2>5
    <3>2. Org!Pending(i) /\ Org!InvitationDoc(i) \in Org!Writes(session[s])
      BY <2>2, <2>5 DEF Org!Writes
    <3> QED
      BY <3>1, <3>2
  <2>6. CASE i # j /\ i \notin session[s].read
    BY <2>1, <2>6
  <2> QED
    BY <2>4, <2>5, <2>6
<1> QED
  BY <1>2, <1>3, <1>4 DEF Org!CommitStep

\* An invitation keeps its user and its role, and once settled its status.
LEMMA InvitationStep ==
  ASSUME OrgInv, [Org!Next]_(Org!vars), NEW i \in Invitations
  PROVE  /\ invitation'[i] \in Org!Invitation \cup {Org!Absent}
         /\ invitation[i] # Org!Absent =>
              /\ invitation'[i] # Org!Absent
              /\ invitation'[i].user = invitation[i].user
              /\ invitation'[i].role = invitation[i].role
         /\ invitation[i].status \in {"accepted", "revoked"} =>
              invitation'[i].status = invitation[i].status
<1> DEFINE Goal == /\ invitation'[i] \in Org!Invitation \cup {Org!Absent}
                   /\ invitation[i] # Org!Absent =>
                        /\ invitation'[i] # Org!Absent
                        /\ invitation'[i].user = invitation[i].user
                        /\ invitation'[i].role = invitation[i].role
                   /\ invitation[i].status \in {"accepted", "revoked"} =>
                        invitation'[i].status = invitation[i].status
<1>1. invitation[i] \in Org!Invitation \cup {Org!Absent}
  BY DEF OrgInv, OrgTypes
<1>2. ASSUME invitation'[i] = invitation[i]
      PROVE  Goal
  BY <1>1, <1>2
<1>3. ASSUME Org!Pending(i), NEW status \in {"accepted", "revoked"},
             invitation'[i] = [invitation[i] EXCEPT !.status = status]
      PROVE  Goal
  BY <1>1, <1>3 DEF Org!Pending, Org!Invitation, Org!Absent
<1>4. ASSUME invitation[i] = Org!Absent, invitation'[i] \in Org!Invitation
      PROVE  Goal
  BY <1>4 DEF Org!Absent
<1>5. ASSUME NEW s \in Sessions, Org!CommitStep(s)
      PROVE  Goal
  <2> HIDE DEF Goal
  <2> QED
    BY <1>2, <1>3, <1>4, <1>5, CommitInvitation
<1>6. ASSUME NEW j \in Invitations, Org!Expire(j)
      PROVE  Goal
  <2>1. CASE j = i
    <3>1. invitation'[i] = [invitation[i] EXCEPT !.expired = TRUE]
      BY <1>6, <2>1 DEF Org!Expire, OrgInv, OrgTypes
    <3>2. invitation[i] \in Org!Invitation /\ invitation[i].status = "pending"
      BY <1>1, <1>6, <2>1 DEF Org!Expire, Org!Pending, Org!Absent
    <3>3. /\ invitation'[i] \in Org!Invitation
          /\ invitation'[i].user = invitation[i].user
          /\ invitation'[i].role = invitation[i].role
      BY <3>1, <3>2 DEF Org!Invitation
    <3> QED
      BY <3>2, <3>3 DEF Org!Invitation, Org!Absent
  <2>2. CASE j # i
    BY <1>2, <1>6, <2>2 DEF Org!Expire, OrgInv, OrgTypes
  <2> QED
    BY <2>1, <2>2
<1>7. ASSUME NEW s \in Sessions,
             Org!CheckStep(s) \/ Org!BeginStep(s) \/ Org!Retry(s) \/ Org!GiveUp(s)
      PROVE  Goal
  <2>1. ASSUME Org!CheckStep(s)
        PROVE  UNCHANGED invitation
    BY <2>1, CheckTypes DEF Org!Start, OrgInv
  <2>2. ASSUME Org!BeginStep(s)
        PROVE  UNCHANGED invitation
    BY <2>2, BeginTypes DEF Org!Open, OrgInv
  <2>3. UNCHANGED invitation
    BY <1>7, <2>1, <2>2 DEF Org!Retry, Org!GiveUp
  <2> HIDE DEF Goal
  <2> QED
    BY <1>2, <2>3
<1>8. ASSUME Org!CreateOrganization \/ UNCHANGED Org!vars
      PROVE  Goal
  BY <1>2, <1>8 DEF Org!CreateOrganization, Org!vars
<1> HIDE DEF Goal
<1>9. Goal
  BY <1>2, <1>5, <1>6, <1>7, <1>8 DEF Org!Next
<1> QED
  BY <1>9 DEF Goal

\* A handler opens its transaction knowing what it is about.
LEMMA BeginKnows ==
  ASSUME OrgInv, NEW s \in Sessions, Org!BeginStep(s)
  PROVE  \E r \in OrgRequest, read \in SUBSET (Users \cup Invitations) :
           /\ Org!Open(s, r, read)
           /\ Knows([phase |-> "open", request |-> r, read |-> read])
           /\ r.op = "accept" => /\ invitation[r.invitation] # Org!Absent
                                 /\ invitation[r.invitation].user = r.user
           /\ r.op # "accept" => \/ r.op = "leave"
                                 \/ session[s].phase = "checked" /\ session[s].request = r
<1>1. PICK r \in OrgRequest, read \in SUBSET (Users \cup Invitations) : Org!Open(s, r, read)
  BY BeginTypes DEF OrgInv
<1> DEFINE tx == [phase |-> "open", request |-> r, read |-> read]
<1>2. session'[s] = tx
  BY <1>1 DEF Org!Open, OrgInv, OrgTypes
<1>3. tx.request = r /\ tx.read = read
  OBVIOUS
<1> HIDE DEF tx
<1>4. ASSUME NEW q, NEW some, Org!Open(s, q, some)
      PROVE  q = r /\ some = read
  <2>1. session'[s] = [phase |-> "open", request |-> q, read |-> some]
    BY <1>4 DEF Org!Open, OrgInv, OrgTypes
  <2> QED
    BY <1>2, <1>3, <2>1
<1> DEFINE Goal == /\ Knows(tx)
                   /\ r.op = "accept" => /\ invitation[r.invitation] # Org!Absent
                                         /\ invitation[r.invitation].user = r.user
                   /\ r.op # "accept" =>
                        \/ r.op = "leave"
                        \/ session[s].phase = "checked" /\ session[s].request = r
<1>5. ASSUME Org!BeginInvite(s)
      PROVE  Goal
  <2>1. r = session[s].request /\ r.op = "invite" /\ read = Org!PendingFor(r.user)
        /\ session[s].phase = "checked"
    BY <1>4, <1>5 DEF Org!BeginInvite, Org!Checked
  <2> QED
    BY <1>3, <2>1 DEF Knows, Org!PendingFor
<1>6. ASSUME \/ Org!BeginRevoke(s) \/ Org!BeginChange(s)
             \/ Org!BeginRemove(s) \/ Org!BeginTransfer(s)
      PROVE  Goal
  <2>1. r = session[s].request /\ session[s].phase = "checked"
    BY <1>4, <1>6 DEF Org!BeginRevoke, Org!BeginChange, Org!BeginRemove,
                      Org!BeginTransfer, Org!Checked
  <2> QED
    BY <1>3, <1>6, <2>1 DEF Knows, Org!BeginRevoke, Org!BeginChange, Org!BeginRemove,
                      Org!BeginTransfer, Org!Checked, Org!IsOwner
<1>7. ASSUME NEW i \in Invitations, Org!BeginAccept(s, i)
      PROVE  Goal
  <2>1. r = [op |-> "accept", user |-> invitation[i].user, invitation |-> i]
    BY <1>4, <1>7 DEF Org!BeginAccept
  <2> QED
    BY <1>3, <1>7, <2>1 DEF Knows, Org!BeginAccept, Org!Pending, Org!Absent
<1>8. ASSUME NEW u \in Users, Org!BeginLeave(s, u)
      PROVE  Goal
  <2>1. r = [op |-> "leave", user |-> u]
    BY <1>4, <1>8 DEF Org!BeginLeave
  <2> QED
    BY <1>3, <1>8, <2>1 DEF Knows, Org!BeginLeave
<1>9. Goal
  BY <1>5, <1>6, <1>7, <1>8 DEF Org!BeginStep
<1> QED
  BY <1>1, <1>9 DEF tx

\* What a handler knows it knows until somebody writes one of its documents.
LEMMA KnowledgeLasts ==
  ASSUME OrgInv, NEW s \in Sessions, session[s].phase = "open", Knows(session[s]),
         session'[s] = session[s], NEW docs, Org!Writes(session[s]) \cap docs = {},
         \A u \in Users : member'[u] = member[u] \/ Org!MemberDoc(u) \in docs,
         \A i \in Invitations :
           \/ Org!Pending(i) => Org!Pending(i)'
           \/ Org!InvitationDoc(i) \in docs
  PROVE  Knows(session[s])'
<1> DEFINE r == session[s].request
<1>1. r \in OrgRequest /\ session[s].read \subseteq Users \cup Invitations
  BY RequestFacts DEF OrgInv
<1>2. ASSUME r.op \in {"change", "remove", "leave"}
      PROVE  member'[r.user] = member[r.user]
  BY <1>2, RequestFacts DEF OrgInv, Org!Writes
<1>3. ASSUME r.op = "transfer"
      PROVE  member'[r.user] = member[r.user] /\ member'[r.actor] = member[r.actor]
  BY <1>3, RequestFacts DEF OrgInv, Org!Writes
<1>4. ASSUME r.op \in {"accept", "revoke"}
      PROVE  Org!Pending(r.invitation)'
  <2>1. r.invitation \in Invitations /\ Org!Pending(r.invitation)
    BY <1>4, RequestFacts DEF OrgInv, Knows
  <2>2. Org!InvitationDoc(r.invitation) \notin docs
    BY <1>4 DEF Org!Writes
  <2> QED
    BY <2>1, <2>2
<1>5. ASSUME r.op = "invite", NEW i \in session[s].read
      PROVE  i \in Invitations /\ Org!Pending(i)'
  <2>1. i \in Invitations /\ Org!Pending(i)
    BY <1>5 DEF Knows
  <2>2. Org!InvitationDoc(i) \notin docs
    BY <1>5 DEF Org!Writes
  <2> QED
    BY <2>1, <2>2
<1> QED
  BY <1>2, <1>3, <1>4, <1>5 DEF Knows, Org!Active

\* A commit keeps the inductive invariant.
LEMMA OrgCommit ==
  ASSUME OrgInv, OrgTypes', NEW s \in Sessions, Org!CommitStep(s)
  PROVE  SnapshotsHold' /\ NothingBefore' /\ RequestsFit'
<1>1. /\ session' = [session EXCEPT ![s] = Org!Idle]
      /\ \A x \in Sessions \ {s} : Org!IsOpen(x) /\ ~outdated'[x] =>
           ~outdated[x] /\ Org!Writes(session[x]) \cap Org!Writes(session[s]) = {}
      /\ UNCHANGED organization
      /\ session[s].phase = "open"
  BY DEF Org!CommitStep, Org!CommitInvite, Org!CommitAccept, Org!CommitRevoke,
         Org!CommitChange, Org!CommitRemove, Org!CommitTransfer, Org!Commit, Org!Opened
<1>2. ASSUME NEW x \in Sessions, Org!IsOpen(x)', ~outdated'[x]
      PROVE  Knows(session[x])'
  <2>1. x # s /\ session'[x] = session[x]
    BY <1>1, <1>2 DEF OrgInv, OrgTypes, Org!IsOpen, Org!Idle
  <2>2. session[x].phase = "open"
    BY <1>2, <2>1 DEF Org!IsOpen
  <2>3. Knows(session[x]) /\ Org!Writes(session[x]) \cap Org!Writes(session[s]) = {}
    BY <1>1, <1>2, <2>1, <2>2 DEF OrgInv, SnapshotsHold, Org!IsOpen
  <2>4. \A u \in Users : member'[u] = member[u] \/ Org!MemberDoc(u) \in Org!Writes(session[s])
    BY CommitMember
  <2>5. \A i \in Invitations : \/ Org!Pending(i) => Org!Pending(i)'
                               \/ Org!InvitationDoc(i) \in Org!Writes(session[s])
    <3>1. ASSUME NEW i \in Invitations, Org!Pending(i),
                 Org!InvitationDoc(i) \notin Org!Writes(session[s])
          PROVE  Org!Pending(i)'
      <4>1. invitation[i] # Org!Absent
        BY <3>1 DEF Org!Pending, Org!Absent
      <4>2. invitation'[i] = invitation[i]
        BY <3>1, <4>1, CommitInvitation
      <4> QED
        BY <3>1, <4>2 DEF Org!Pending
    <3> QED
      BY <3>1
  <2> QED
    BY <2>1, <2>2, <2>3, <2>4, <2>5, KnowledgeLasts
<1>3. NothingBefore'
  <2>1. session[s] # Org!Idle
    BY <1>1 DEF Org!Idle
  <2> QED
    BY <1>1, <2>1 DEF OrgInv, NothingBefore
<1>4. RequestsFit'
  <2>1. ASSUME NEW x \in Sessions, session'[x] # Org!Idle
        PROVE  /\ session'[x] = session[x]
               /\ session[x].request.op = "accept" =>
                    session[x].request.invitation \in Invitations
    BY <1>1, <2>1 DEF OrgInv, OrgTypes, OrgSession, OrgRequest
  <2>2. \A i \in Invitations : invitation[i] # Org!Absent =>
          invitation'[i] # Org!Absent /\ invitation'[i].user = invitation[i].user
    BY InvitationStep DEF Org!Next
  <2> QED
    BY <2>1, <2>2 DEF OrgInv, RequestsFit
<1> QED
  BY <1>2, <1>3, <1>4 DEF SnapshotsHold

\* Every step keeps the records well formed.
LEMMA OrgTypesStep ==
  ASSUME OrgInv, [Org!Next]_(Org!vars)
  PROVE  OrgTypes'
<1> USE DEF OrgInv
<1>1. invitation' \in [Invitations -> Org!Invitation \cup {Org!Absent}]
  <2>1. \A i \in Invitations : invitation'[i] \in Org!Invitation \cup {Org!Absent}
    BY InvitationStep
  <2>2. invitation' = [i \in Invitations |-> invitation'[i]]
    <3>1. ASSUME NEW s \in Sessions, Org!CommitStep(s)
          PROVE  invitation' = [i \in Invitations |-> invitation'[i]]
      BY <3>1 DEF Org!CommitStep, Org!CommitInvite, Org!CommitAccept, Org!CommitRevoke,
                  Org!CommitChange, Org!CommitRemove, Org!CommitTransfer, OrgTypes
    <3>2. ASSUME NEW j \in Invitations, Org!Expire(j)
          PROVE  invitation' = [i \in Invitations |-> invitation'[i]]
      BY <3>2 DEF Org!Expire, OrgTypes
    <3>3. CASE UNCHANGED invitation
      BY <3>3 DEF OrgTypes
    <3>4. ASSUME NEW s \in Sessions,
                 Org!CheckStep(s) \/ Org!BeginStep(s) \/ Org!Retry(s) \/ Org!GiveUp(s)
          PROVE  UNCHANGED invitation
      BY <3>4, CheckTypes, BeginTypes DEF Org!Start, Org!Open, Org!Retry, Org!GiveUp
    <3> QED
      BY <3>1, <3>2, <3>3, <3>4 DEF Org!Next, Org!CreateOrganization, Org!vars
  <2> QED
    BY <2>1, <2>2
<1>2. ASSUME NEW s \in Sessions, Org!CommitStep(s)
      PROVE  OrgTypes'
  <2>1. \A u \in Users : member'[u] \in MemberRecord \cup {Org!NoMembership}
    BY <1>2, CommitMember DEF OrgTypes
  <2>2. member' \in [Users -> MemberRecord \cup {Org!NoMembership}]
    <3>1. member' = [u \in Users |-> member'[u]]
      BY <1>2 DEF Org!CommitStep, Org!CommitInvite, Org!CommitAccept, Org!CommitRevoke,
                  Org!CommitChange, Org!CommitRemove, Org!CommitTransfer, OrgTypes
    <3> QED
      BY <2>1, <3>1
  <2>3. /\ session' = [session EXCEPT ![s] = Org!Idle]
        /\ outdated' \in [Sessions -> BOOLEAN]
        /\ UNCHANGED organization
    BY <1>2 DEF Org!CommitStep, Org!CommitInvite, Org!CommitAccept, Org!CommitRevoke,
         Org!CommitChange, Org!CommitRemove, Org!CommitTransfer, Org!Commit
  <2> QED
    BY <1>1, <2>2, <2>3 DEF OrgTypes, OrgSession
<1>3. ASSUME NEW s \in Sessions, Org!CheckStep(s)
      PROVE  OrgTypes'
  BY <1>3, CheckTypes DEF Org!Start, OrgTypes, OrgSession
<1>4. ASSUME NEW s \in Sessions, Org!BeginStep(s)
      PROVE  OrgTypes'
  <2>1. PICK r \in OrgRequest, read \in SUBSET (Users \cup Invitations) :
          Org!Open(s, r, read)
    BY <1>4, BeginTypes
  <2>2. [phase |-> "open", request |-> r, read |-> read] \in OrgSession
    BY DEF OrgSession
  <2> QED
    BY <2>1, <2>2 DEF Org!Open, OrgTypes
<1>5. ASSUME NEW s \in Sessions, Org!Retry(s) \/ Org!GiveUp(s)
      PROVE  OrgTypes'
  <2>1. CASE Org!Retry(s)
    <3>1. [phase |-> "checked", request |-> session[s].request] \in OrgSession
      BY <2>1, RequestFacts DEF Org!Retry, Org!IsOpen, OrgSession
    <3> QED
      BY <2>1, <3>1 DEF Org!Retry, OrgTypes
  <2>2. CASE Org!GiveUp(s)
    BY <2>2 DEF Org!GiveUp, OrgTypes, OrgSession
  <2> QED
    BY <1>5, <2>1, <2>2
<1>6. CASE Org!CreateOrganization
  <2>1. [status |-> "active", role |-> "owner", version |-> 0] \in MemberRecord
    BY MembersAssumption DEF MemberRecord
  <2> QED
    BY <1>6, <2>1 DEF Org!CreateOrganization, OrgTypes
<1>7. CASE (\E i \in Invitations : Org!Expire(i)) \/ UNCHANGED Org!vars
  BY <1>1, <1>7 DEF Org!Expire, Org!vars, OrgTypes
<1> QED
  BY <1>2, <1>3, <1>4, <1>5, <1>6, <1>7 DEF Org!Next

\* A step that only moves the request of s keeps what the others know.
LEMMA OrgMove ==
  ASSUME OrgInv, NEW s \in Sessions, NEW tx, NEW late,
         session' = [session EXCEPT ![s] = tx],
         outdated' = [outdated EXCEPT ![s] = late] \/ UNCHANGED outdated,
         UNCHANGED <<member, invitation, organization>>,
         tx = Org!Idle \/ organization = "active",
         tx.phase = "open" => Knows(tx),
         tx # Org!Idle => LET r == tx.request IN
           /\ r.op = "accept" => /\ invitation[r.invitation] # Org!Absent
                                 /\ invitation[r.invitation].user = r.user
           /\ r.op = "transfer" => r.actor # r.user
  PROVE  SnapshotsHold' /\ NothingBefore' /\ RequestsFit'
<1>1. /\ session'[s] = tx
      /\ \A x \in Sessions \ {s} : session'[x] = session[x] /\ outdated'[x] = outdated[x]
  BY DEF OrgInv, OrgTypes
<1>2. ASSUME NEW x \in Sessions, Org!IsOpen(x)', ~outdated'[x]
      PROVE  Knows(session[x])'
  <2>1. CASE x = s
    BY <1>1, <1>2, <2>1 DEF Org!IsOpen, Knows, Org!Pending, Org!Active
  <2>2. CASE x # s
    BY <1>1, <1>2, <2>2 DEF OrgInv, SnapshotsHold, Org!IsOpen, Knows, Org!Pending, Org!Active
  <2> QED
    BY <2>1, <2>2
<1>3. NothingBefore'
  BY <1>1 DEF OrgInv, NothingBefore
<1>4. RequestsFit'
  BY <1>1 DEF OrgInv, RequestsFit
<1> QED
  BY <1>2, <1>3, <1>4 DEF SnapshotsHold

\* The inductive invariant is kept by every step.
LEMMA OrgInvStep == OrgInv /\ [Org!Next]_(Org!vars) => OrgInv'
<1> SUFFICES ASSUME OrgInv, [Org!Next]_(Org!vars) PROVE OrgInv'
  OBVIOUS
<1> DEFINE Rest == SnapshotsHold' /\ NothingBefore' /\ RequestsFit'
<1>1. OrgTypes'
  BY OrgTypesStep
<1>2. ASSUME NEW s \in Sessions, Org!CommitStep(s)
      PROVE  Rest
  BY <1>1, <1>2, OrgCommit
<1>3. ASSUME NEW s \in Sessions, Org!CheckStep(s)
      PROVE  Rest
  <2>1. PICK r \in OrgRequest : Org!Start(s, r) /\ Asked(r)
    BY <1>3, CheckTypes DEF OrgInv
  <2> DEFINE tx == [phase |-> "checked", request |-> r]
  <2>2. tx.phase # "open" /\ tx.request = r /\ organization = "active"
    BY <1>3, CheckTypes DEF OrgInv
  <2>3. /\ session' = [session EXCEPT ![s] = tx]
        /\ UNCHANGED <<outdated, member, invitation, organization>>
    BY <2>1 DEF Org!Start
  <2>4. /\ r.op # "accept"
        /\ r.op = "transfer" => r.actor # r.user
    BY <2>1 DEF Asked
  <2> HIDE DEF tx
  <2> QED
    BY <2>2, <2>3, <2>4, OrgMove
<1>4. ASSUME NEW s \in Sessions, Org!BeginStep(s)
      PROVE  Rest
  <2>1. PICK r \in OrgRequest, read \in SUBSET (Users \cup Invitations) :
          /\ Org!Open(s, r, read)
          /\ Knows([phase |-> "open", request |-> r, read |-> read])
          /\ r.op = "accept" => /\ invitation[r.invitation] # Org!Absent
                                /\ invitation[r.invitation].user = r.user
          /\ r.op # "accept" => \/ r.op = "leave"
                                \/ session[s].phase = "checked" /\ session[s].request = r
    BY <1>4, BeginKnows
  <2> DEFINE tx == [phase |-> "open", request |-> r, read |-> read]
  <2>2. tx.request = r /\ Knows(tx)
    BY <2>1
  <2>3. organization = "active"
    <3>1. session[s].phase = "checked" => session[s] # Org!Idle
      BY DEF Org!Idle
    <3>2. session[s] # Org!Idle => organization = "active"
      BY DEF OrgInv, OrgTypes, NothingBefore
    <3>3. CASE session[s].phase = "checked"
      BY <3>1, <3>2, <3>3
    <3>4. CASE session[s].phase # "checked"
      BY <1>4, <3>4 DEF Org!BeginStep, Org!BeginInvite, Org!BeginRevoke, Org!BeginChange,
                        Org!BeginRemove, Org!BeginTransfer, Org!BeginAccept,
                        Org!BeginLeave, Org!Checked, Org!IsFree, Org!Active,
                        OrgInv, OrgTypes, NothingBefore, Org!NoMembership
    <3> QED
      BY <3>3, <3>4
  <2>4. /\ session' = [session EXCEPT ![s] = tx]
        /\ outdated' = [outdated EXCEPT ![s] = FALSE]
        /\ UNCHANGED <<member, invitation, organization>>
    BY <2>1 DEF Org!Open
  <2>5. r.op = "transfer" => r.actor # r.user
    BY <2>1 DEF OrgInv, RequestsFit, Org!Idle
  <2> HIDE DEF tx
  <2> QED
    BY <2>1, <2>2, <2>3, <2>4, <2>5, OrgMove
<1>5. ASSUME NEW s \in Sessions, Org!Retry(s)
      PROVE  Rest
  <2> DEFINE tx == [phase |-> "checked", request |-> session[s].request]
  <2>1. /\ session' = [session EXCEPT ![s] = tx]
        /\ outdated' = [outdated EXCEPT ![s] = FALSE]
        /\ UNCHANGED <<member, invitation, organization>>
        /\ tx.phase # "open" /\ tx.request = session[s].request
    BY <1>5 DEF Org!Retry
  <2>2. session[s] # Org!Idle
    BY <1>5 DEF Org!Retry, Org!IsOpen, Org!Idle
  <2>3. organization = "active"
    BY <2>2 DEF OrgInv, OrgTypes, NothingBefore
  <2>4. LET r == tx.request IN
          /\ r.op = "accept" => /\ invitation[r.invitation] # Org!Absent
                                /\ invitation[r.invitation].user = r.user
          /\ r.op = "transfer" => r.actor # r.user
    BY <2>1, <2>2 DEF OrgInv, RequestsFit
  <2> HIDE DEF tx
  <2> QED
    BY <2>1, <2>3, <2>4, OrgMove
<1>6. ASSUME NEW s \in Sessions, Org!GiveUp(s)
      PROVE  Rest
  <2>1. Org!Idle.phase # "open"
    BY DEF Org!Idle
  <2> QED
    BY <1>6, <2>1, OrgMove DEF Org!GiveUp
<1>7. ASSUME Org!CreateOrganization
      PROVE  Rest
  BY <1>7 DEF Org!CreateOrganization, OrgInv, SnapshotsHold, NothingBefore, RequestsFit,
              Org!IsOpen, Org!Idle
<1>8. ASSUME NEW i \in Invitations, Org!Expire(i)
      PROVE  Rest
  <2>1. UNCHANGED <<organization, member, session, outdated>>
    BY <1>8 DEF Org!Expire
  <2>2. ASSUME NEW j \in Invitations
        PROVE  Org!Pending(j) => Org!Pending(j)'
    BY <1>8 DEF Org!Expire, Org!Pending, OrgInv, OrgTypes, Org!Invitation, Org!Absent
  <2>3. SnapshotsHold'
    <3>1. ASSUME NEW s \in Sessions, Org!IsOpen(s), ~outdated[s]
          PROVE  Knows(session[s])'
      BY <2>1, <2>2, <3>1, RequestFacts
         DEF OrgInv, SnapshotsHold, Knows, Org!IsOpen, Org!Active
    <3> QED
      BY <2>1, <3>1 DEF SnapshotsHold, Org!IsOpen
  <2>4. ASSUME NEW s \in Sessions, session[s] # Org!Idle, session[s].request.op = "accept"
        PROVE  session[s].request.invitation \in Invitations
    BY <2>4 DEF OrgInv, OrgTypes, OrgSession, OrgRequest
  <2>5. \A j \in Invitations : invitation[j] # Org!Absent =>
          invitation'[j] # Org!Absent /\ invitation'[j].user = invitation[j].user
    BY <1>8, InvitationStep DEF Org!Next
  <2>6. NothingBefore' /\ RequestsFit'
    BY <2>1, <2>4, <2>5 DEF OrgInv, NothingBefore, RequestsFit
  <2> QED
    BY <2>3, <2>6
<1>9. ASSUME UNCHANGED Org!vars
      PROVE  Rest
  BY <1>9 DEF Org!vars, OrgInv, SnapshotsHold, NothingBefore, RequestsFit, Knows,
              Org!IsOpen, Org!Pending, Org!Active
<1>10. Rest
  <2> HIDE DEF Rest
  <2> QED
    BY <1>2, <1>3, <1>4, <1>5, <1>6, <1>7, <1>8, <1>9 DEF Org!Next
<1> QED
  BY <1>1, <1>10 DEF OrgInv

\* Nothing exists in the beginning.
LEMMA OrgInit == Org!Init => OrgInv
<1> SUFFICES ASSUME Org!Init PROVE OrgInv
  OBVIOUS
<1> QED
  BY DEF Org!Init, OrgInv, OrgTypes, OrgSession, SnapshotsHold, NothingBefore,
         RequestsFit, Org!IsOpen, Org!Idle
-----------------------------------------------------------------------------
(* Invitations and transfers.                                              *)

\* For any number of handlers: whatever acceptances, revocations and repeated
\* invitations race, an invitation that was accepted or revoked stays so.
THEOREM SettledOnce == Org!Spec => InvitationSettlesOnce
<1>1. OrgInv /\ [Org!Next]_(Org!vars) =>
        [\A i \in Invitations :
           invitation[i].status \in {"accepted", "revoked"} =>
             invitation'[i].status = invitation[i].status]_(Org!vars)
  BY InvitationStep
<1> QED
  BY <1>1, OrgInit, OrgInvStep, PTL
     DEF Org!Spec, InvitationSettlesOnce, Org!InvitationSettlesOnce

\* For any number of handlers and users: when a transfer commits both its
\* users are still members, and it makes the one owner and the other admin.
THEOREM TransferTakesEffect == Org!Spec => TransferHandsOver
<1>1. ASSUME OrgInv, NEW s \in Sessions, Org!CommitTransfer(s)
      PROVE  LET r == session[s].request IN
             /\ member'[r.user].status = "active" /\ member'[r.user].role = "owner"
             /\ member'[r.actor].status = "active" /\ member'[r.actor].role = "admin"
  <2> DEFINE r == session[s].request
  <2>1. /\ session[s].phase = "open" /\ r.op = "transfer" /\ ~outdated[s]
    BY <1>1 DEF Org!CommitTransfer, Org!Opened, Org!Commit
  <2>2. r.user \in Users /\ r.actor \in Users /\ session[s] # Org!Idle
    BY <1>1, <2>1, RequestFacts DEF OrgInv
  <2>3. Org!Active(r.user) /\ Org!Active(r.actor) /\ r.actor # r.user
    BY <1>1, <2>1, <2>2 DEF OrgInv, SnapshotsHold, Org!IsOpen, Knows, RequestsFit
  <2>4. /\ member'[r.user] = Org!Changed(member[r.user], member[r.user].status, "owner")
        /\ member'[r.actor] = Org!Changed(member[r.actor], member[r.actor].status, "admin")
    BY <1>1, <2>2, <2>3 DEF Org!CommitTransfer, OrgInv, OrgTypes
  <2> QED
    BY <2>3, <2>4 DEF Org!Changed, Org!Active
<1>2. OrgInv =>
        [\A s \in Sessions : Org!CommitTransfer(s) =>
           LET r == session[s].request IN
           /\ member'[r.user].status = "active" /\ member'[r.user].role = "owner"
           /\ member'[r.actor].status = "active" /\ member'[r.actor].role = "admin"]_(Org!vars)
  BY <1>1
<1> QED
  BY <1>2, OrgInit, OrgInvStep, PTL DEF Org!Spec, TransferHandsOver, Org!TransferHandsOver

-----------------------------------------------------------------------------
(* The last owner.                                                         *)

\* The handlers that take an owner away, after they counted.
TakesOwner(tx) ==
  /\ tx.phase = "open"
  /\ \/ tx.request.op \in {"remove", "leave"}
     \/ tx.request.op = "change" /\ tx.request.role # "owner"

\* If they counted at all, they counted somebody else too.
CountsOthers ==
  \A s \in Sessions :
    TakesOwner(session[s]) /\ session[s].read # {} =>
      \E v \in session[s].read : v # session[s].request.user

\* The count that the LAST_OWNER check makes: more than one owner is somebody
\* besides the one who goes.
LEMMA SomebodyElse ==
  ASSUME NEW u \in Users, Org!NotLastOwner(u), Org!Counted(u) # {}
  PROVE  \E v \in Org!Counted(u) : v # u
<1>1. Org!IsOwner(u) /\ Org!Counted(u) = Org!Owners
  BY DEF Org!Counted
<1>2. Cardinality(Org!Owners) > 1
  <2>1. Org!Cardinality(Org!Owners) > 1
    BY <1>1 DEF Org!NotLastOwner
  <2>2. Org!Cardinality(Org!Owners) = Cardinality(Org!Owners)
    BY Zenon DEF Org!Cardinality, Cardinality
  <2> QED
    BY <2>1, <2>2
<1>3. Org!Owners # {u}
  <2>1. Cardinality({u}) = 1
    BY FS_Singleton
  <2> QED
    BY <1>2, <2>1
<1> QED
  BY <1>1, <1>3

\* A handler that takes an owner away has counted the owners before.
LEMMA BeginCounts ==
  ASSUME OrgInv, NEW s \in Sessions, Org!BeginStep(s), TakesOwner(session'[s]),
         session'[s].read # {}
  PROVE  \E v \in session'[s].read : v # session'[s].request.user
<1> DEFINE Goal == \E v \in session'[s].read : v # session'[s].request.user
<1>1. ASSUME NEW r, NEW read, Org!Open(s, r, read)
      PROVE  session'[s].request = r /\ session'[s].read = read
  BY <1>1 DEF Org!Open, OrgInv, OrgTypes
<1>2. session[s].phase = "checked" /\ session[s].request.op \in {"remove", "change"}
        => session[s].request.user \in Users
  <2>1. session[s].phase = "checked" => session[s].request \in OrgRequest
    BY DEF OrgInv, OrgTypes, OrgSession, Org!Idle
  <2> QED
    BY <2>1 DEF OrgRequest
<1>3. CASE Org!BeginInvite(s) \/ Org!BeginRevoke(s) \/ Org!BeginTransfer(s)
  BY <1>1, <1>3 DEF TakesOwner, Org!BeginInvite, Org!BeginRevoke, Org!BeginTransfer,
                    Org!Checked
<1>4. ASSUME Org!BeginChange(s)
      PROVE  Goal
  <2>1. /\ session'[s].request = session[s].request
        /\ session'[s].read = Org!Counted(session[s].request.user)
        /\ session[s].request.user \in Users /\ session[s].request.op = "change"
        /\ session[s].request.role # "owner" => Org!NotLastOwner(session[s].request.user)
    BY <1>1, <1>2, <1>4 DEF Org!BeginChange, Org!Checked
  <2> QED
    BY <2>1, SomebodyElse DEF TakesOwner
<1>5. ASSUME Org!BeginRemove(s)
      PROVE  Goal
  <2>1. /\ session'[s].request = session[s].request
        /\ session'[s].read = Org!Counted(session[s].request.user)
        /\ session[s].request.user \in Users
        /\ Org!NotLastOwner(session[s].request.user)
    BY <1>1, <1>2, <1>5 DEF Org!BeginRemove, Org!Checked
  <2> QED
    BY <2>1, SomebodyElse
<1>6. ASSUME NEW i \in Invitations, Org!BeginAccept(s, i)
      PROVE  Goal
  <2>1. session'[s].request = [op |-> "accept", user |-> invitation[i].user, invitation |-> i]
    BY <1>1, <1>6 DEF Org!BeginAccept
  <2> QED
    BY <2>1 DEF TakesOwner
<1>7. ASSUME NEW u \in Users, Org!BeginLeave(s, u)
      PROVE  Goal
  <2>1. /\ session'[s].request = [op |-> "leave", user |-> u]
        /\ session'[s].read = Org!Counted(u)
        /\ Org!NotLastOwner(u)
    BY <1>1, <1>7 DEF Org!BeginLeave
  <2> QED
    BY <2>1, SomebodyElse
<1> QED
  BY <1>3, <1>4, <1>5, <1>6, <1>7 DEF Org!BeginStep

\* What a step does to the request of a handler: nothing, or it drops it,
\* checks a new one, opens it or takes it back to the check.
LEMMA RequestStep ==
  ASSUME OrgInv, [Org!Next]_(Org!vars), NEW s \in Sessions
  PROVE  \/ session'[s] \in {session[s], Org!Idle}
         \/ Org!CheckStep(s)
         \/ Org!BeginStep(s)
         \/ Org!Retry(s)
<1> DEFINE Goal == \/ session'[s] \in {session[s], Org!Idle}
                   \/ Org!CheckStep(s) \/ Org!BeginStep(s) \/ Org!Retry(s)
<1>1. ASSUME NEW x \in Sessions, Org!CheckStep(x)
      PROVE  Goal
  <2>1. PICK r \in OrgRequest : Org!Start(x, r)
    BY <1>1, CheckTypes DEF OrgInv
  <2> QED
    BY <1>1, <2>1 DEF Org!Start, OrgInv, OrgTypes
<1>2. ASSUME NEW x \in Sessions, Org!BeginStep(x)
      PROVE  Goal
  <2>1. PICK r \in OrgRequest, read \in SUBSET (Users \cup Invitations) : Org!Open(x, r, read)
    BY <1>2, BeginTypes DEF OrgInv
  <2> QED
    BY <1>2, <2>1 DEF Org!Open, OrgInv, OrgTypes
<1>3. ASSUME NEW x \in Sessions, Org!Retry(x)
      PROVE  Goal
  BY <1>3 DEF Org!Retry, OrgInv, OrgTypes
<1>4. ASSUME NEW x \in Sessions, Org!CommitStep(x) \/ Org!GiveUp(x)
      PROVE  Goal
  <2>1. session' = [session EXCEPT ![x] = Org!Idle]
    BY <1>4 DEF Org!GiveUp, Org!CommitStep, Org!CommitInvite, Org!CommitAccept,
                Org!CommitRevoke, Org!CommitChange, Org!CommitRemove, Org!CommitTransfer,
                Org!Commit
  <2> QED
    BY <2>1 DEF OrgInv, OrgTypes
<1>5. CASE \/ Org!CreateOrganization \/ UNCHANGED Org!vars
           \/ \E i \in Invitations : Org!Expire(i)
  BY <1>5 DEF Org!CreateOrganization, Org!vars, Org!Expire
<1> QED
  BY <1>1, <1>2, <1>3, <1>4, <1>5 DEF Org!Next

\* The counts of the handlers stay what they were.
LEMMA CountsStep == OrgInv /\ CountsOthers /\ [Org!Next]_(Org!vars) => CountsOthers'
<1> SUFFICES ASSUME OrgInv, CountsOthers, [Org!Next]_(Org!vars), NEW s \in Sessions,
                    TakesOwner(session'[s]), session'[s].read # {}
             PROVE  \E v \in session'[s].read : v # session'[s].request.user
  BY DEF CountsOthers, TakesOwner
<1>1. CASE session'[s] = session[s]
  BY <1>1 DEF CountsOthers, TakesOwner
<1>2. CASE session'[s] = Org!Idle
  BY <1>2 DEF TakesOwner, Org!Idle
<1>3. CASE Org!CheckStep(s)
  <2>1. PICK r \in OrgRequest : Org!Start(s, r)
    BY <1>3, CheckTypes DEF OrgInv
  <2> QED
    BY <2>1 DEF Org!Start, OrgInv, OrgTypes, TakesOwner
<1>4. CASE Org!BeginStep(s)
  BY <1>4, BeginCounts
<1>5. CASE Org!Retry(s)
  BY <1>5 DEF Org!Retry, OrgInv, OrgTypes, TakesOwner
<1> QED
  BY <1>1, <1>2, <1>3, <1>4, <1>5, RequestStep

\* For any number of users and handlers: a change, removal or departure whose
\* count of the owners still holds when it commits leaves an owner.
THEOREM LastOwnerIsKept == Org!Spec => LastOwnerKept
<1>1. ASSUME OrgInv, CountsOthers, NEW s \in Sessions,
             Org!CommitChange(s) \/ Org!CommitRemove(s),
             Org!Owners # {}, session[s].read = Org!Owners
      PROVE  Org!Owners' # {}
  <2> DEFINE r == session[s].request
  <2>1. /\ session[s].phase = "open" /\ ~outdated[s]
        /\ r.op \in {"change", "remove", "leave"}
    BY <1>1 DEF Org!CommitChange, Org!CommitRemove, Org!Opened, Org!Commit
  <2>2. r.user \in Users
    BY <1>1, <2>1, RequestFacts DEF OrgInv
  <2>3. CASE r.op = "change" /\ r.role = "owner"
    <3>1. member'[r.user] = Org!Changed(member[r.user], "active", "owner")
      BY <1>1, <2>2, <2>3 DEF Org!CommitChange, Org!CommitRemove, Org!Opened,
                              OrgInv, OrgTypes
    <3> QED
      BY <2>2, <3>1 DEF Org!Changed, Org!Owners, Org!IsOwner, Org!Active
  <2>4. CASE ~(r.op = "change" /\ r.role = "owner")
    <3>1. PICK v \in Org!Owners : v # r.user
      BY <1>1, <2>1, <2>4 DEF CountsOthers, TakesOwner
    <3>2. v \in Users /\ member'[v] = member[v]
      BY <1>1, <3>1 DEF Org!CommitChange, Org!CommitRemove, Org!Owners, OrgInv, OrgTypes
    <3> QED
      BY <3>1, <3>2 DEF Org!Owners, Org!IsOwner, Org!Active
  <2> QED
    BY <2>3, <2>4
<1>2. Org!Init => CountsOthers
  BY DEF Org!Init, CountsOthers, TakesOwner, Org!Idle
<1>3. OrgInv /\ CountsOthers =>
        [\A s \in Sessions :
           /\ Org!CommitChange(s) \/ Org!CommitRemove(s)
           /\ Org!Owners # {} /\ session[s].read = Org!Owners
           => Org!Owners' # {}]_(Org!vars)
  BY <1>1
<1> QED
  BY <1>2, <1>3, OrgInit, OrgInvStep, CountsStep, PTL
     DEF Org!Spec, LastOwnerKept, Org!LastOwnerKept

-----------------------------------------------------------------------------
(* Role changes.                                                           *)

GivenByInvitation(u) ==
  \E i \in Invitations :
    /\ invitation[i].status = "accepted"
    /\ invitation[i].user = u
    /\ invitation[i].role = member[u].role

\* What the caller of a change has seen is no newer than the membership, and
\* is the membership while the version stands, an acceptance apart.
SeenBefore(r) ==
  LET u == r.user IN
  /\ member[u] # Org!NoMembership
  /\ r.seen.version <= member[u].version
  /\ r.seen.version = member[u].version =>
       \/ member[u].status = r.seen.status /\ member[u].role = r.seen.role
       \/ GivenByInvitation(u)

ChangesHaveSeen ==
  \A s \in Sessions :
    session[s] # Org!Idle /\ session[s].request.op = "change" =>
      SeenBefore(session[s].request)

\* An accepted invitation goes on saying whom it was for and as what.
LEMMA AcceptedLasts ==
  ASSUME OrgInv, [Org!Next]_(Org!vars), NEW u \in Users, GivenByInvitation(u),
         member'[u] = member[u]
  PROVE  GivenByInvitation(u)'
<1>1. PICK i \in Invitations : /\ invitation[i].status = "accepted"
                               /\ invitation[i].user = u
                               /\ invitation[i].role = member[u].role
  BY DEF GivenByInvitation
<1>2. invitation[i] # Org!Absent
  BY <1>1 DEF Org!Absent
<1>3. /\ invitation'[i].status = "accepted"
      /\ invitation'[i].user = u
      /\ invitation'[i].role = member'[u].role
  BY <1>1, <1>2, InvitationStep
<1> QED
  BY <1>3 DEF GivenByInvitation

\* What a step does to a membership that exists: nothing, or it makes the next
\* version, or it gives it the role of an accepted invitation.
LEMMA MembershipStep ==
  ASSUME OrgInv, [Org!Next]_(Org!vars), NEW u \in Users, member[u] # Org!NoMembership
  PROVE  \/ member'[u] = member[u]
         \/ /\ member'[u] \in MemberRecord
            /\ \/ member'[u].version = member[u].version + 1
               \/ /\ member'[u].version = member[u].version
                  /\ GivenByInvitation(u)'
<1> DEFINE Goal == \/ member'[u] = member[u]
                   \/ /\ member'[u] \in MemberRecord
                      /\ \/ member'[u].version = member[u].version + 1
                         \/ /\ member'[u].version = member[u].version
                            /\ GivenByInvitation(u)'
<1>1. ASSUME NEW s \in Sessions, Org!CommitStep(s)
      PROVE  Goal
  <2> DEFINE r == session[s].request
  <2>1. CASE /\ r.op = "accept" /\ r.user = u
             /\ member'[u] \in MemberRecord
             /\ member'[u].role = invitation[r.invitation].role
             /\ member'[u].version = member[u].version
    <3>1. Org!CommitAccept(s)
      BY <1>1, <2>1 DEF Org!CommitStep, Org!CommitInvite, Org!CommitRevoke,
                        Org!CommitChange, Org!CommitRemove, Org!CommitTransfer, Org!Opened
    <3>2. session[s].phase = "open"
      BY <3>1 DEF Org!CommitAccept, Org!Opened
    <3>3. /\ r.invitation \in Invitations
          /\ invitation[r.invitation] # Org!Absent
          /\ invitation[r.invitation].user = u
      BY <2>1, <3>2, RequestFacts DEF OrgInv, RequestsFit
    <3>4. invitation' = [invitation EXCEPT ![r.invitation].status = "accepted"]
      BY <3>1 DEF Org!CommitAccept
    <3>5. invitation[r.invitation] \in Org!Invitation
      BY <3>3 DEF OrgInv, OrgTypes
    <3>6. /\ invitation'[r.invitation].status = "accepted"
          /\ invitation'[r.invitation].user = u
          /\ invitation'[r.invitation].role = member'[u].role
      BY <2>1, <3>3, <3>4, <3>5 DEF OrgInv, OrgTypes, Org!Invitation
    <3> QED
      BY <2>1, <3>3, <3>6 DEF GivenByInvitation
  <2> HIDE DEF r
  <2> QED
    BY <1>1, <2>1, CommitMember DEF r
<1>2. ASSUME UNCHANGED member
      PROVE  Goal
  BY <1>2
<1>3. ASSUME NEW s \in Sessions,
             Org!CheckStep(s) \/ Org!BeginStep(s) \/ Org!Retry(s) \/ Org!GiveUp(s)
      PROVE  UNCHANGED member
  BY <1>3, CheckTypes, BeginTypes DEF Org!Start, Org!Open, Org!Retry, Org!GiveUp, OrgInv
<1>4. organization = "active"
  BY DEF OrgInv, OrgTypes, NothingBefore
<1>5. CASE UNCHANGED Org!vars \/ \E i \in Invitations : Org!Expire(i)
  BY <1>5 DEF Org!vars, Org!Expire
<1> QED
  BY <1>1, <1>2, <1>3, <1>4, <1>5 DEF Org!Next, Org!CreateOrganization

\* What a caller has seen stays in order.
LEMMA SeenLasts ==
  ASSUME OrgInv, [Org!Next]_(Org!vars), NEW r \in OrgRequest, r.op = "change",
         SeenBefore(r)
  PROVE  SeenBefore(r)'
<1> DEFINE u == r.user
<1>1. u \in Users /\ r.seen \in MemberRecord
  BY DEF OrgRequest
<1>2. /\ member[u] \in MemberRecord /\ member[u] # Org!NoMembership
      /\ r.seen.version \in Nat /\ member[u].version \in Nat
  BY <1>1 DEF SeenBefore, OrgInv, OrgTypes, MemberRecord
<1>3. CASE member'[u] = member[u]
  BY <1>1, <1>3, AcceptedLasts DEF SeenBefore
<1>4. CASE member'[u] # member[u]
  <2>1. /\ member'[u] \in MemberRecord
        /\ \/ member'[u].version = member[u].version + 1
           \/ /\ member'[u].version = member[u].version
              /\ GivenByInvitation(u)'
    BY <1>1, <1>2, <1>4, MembershipStep
  <2>2. member'[u] # Org!NoMembership
    BY <2>1 DEF MemberRecord, Org!NoMembership
  <2> QED
    BY <1>2, <2>1, <2>2 DEF SeenBefore
<1> QED
  BY <1>3, <1>4

\* The requests that are on their way stay in order.
LEMMA SeenStep == OrgInv /\ ChangesHaveSeen /\ [Org!Next]_(Org!vars) => ChangesHaveSeen'
<1> SUFFICES ASSUME OrgInv, ChangesHaveSeen, [Org!Next]_(Org!vars), NEW s \in Sessions,
                    session'[s] # Org!Idle, session'[s].request.op = "change"
             PROVE  SeenBefore(session[s].request)'
  BY DEF ChangesHaveSeen
<1> DEFINE Goal == SeenBefore(session[s].request)'
<1>1. ASSUME session'[s].request = session[s].request, session[s] # Org!Idle
      PROVE  Goal
  <2>1. session[s].request \in OrgRequest
    BY <1>1 DEF OrgInv, OrgTypes, OrgSession
  <2>2. SeenBefore(session[s].request)
    BY <1>1 DEF ChangesHaveSeen
  <2>3. PICK r \in OrgRequest : r = session[s].request
    BY <2>1
  <2>4. SeenBefore(r)'
    BY <1>1, <2>2, <2>3, SeenLasts
  <2> QED
    BY <1>1, <2>3, <2>4 DEF SeenBefore, GivenByInvitation
<1>2. CASE session'[s] = session[s]
  BY <1>1, <1>2
<1>3. CASE Org!CheckStep(s)
  <2>1. PICK r \in OrgRequest : Org!Start(s, r) /\ Asked(r)
    BY <1>3, CheckTypes DEF OrgInv
  <2>2. session'[s].request = r /\ UNCHANGED <<member, invitation>>
    BY <2>1 DEF Org!Start, OrgInv, OrgTypes
  <2>3. r.user \in Users /\ Org!Active(r.user) /\ r.seen = member[r.user]
    BY <2>1, <2>2 DEF Asked, OrgRequest
  <2>4. member[r.user] # Org!NoMembership
    BY <2>3 DEF Org!Active, Org!NoMembership
  <2>5. r.seen.version \in Nat
    BY <2>3, <2>4 DEF OrgInv, OrgTypes, MemberRecord
  <2> QED
    BY <2>2, <2>3, <2>4, <2>5 DEF SeenBefore
<1>4. CASE Org!BeginStep(s)
  <2>1. PICK r \in OrgRequest, read \in SUBSET (Users \cup Invitations) :
          /\ Org!Open(s, r, read)
          /\ r.op # "accept" => \/ r.op = "leave"
                                \/ session[s].phase = "checked" /\ session[s].request = r
    BY <1>4, BeginKnows
  <2>2. session'[s].request = r
    BY <2>1 DEF Org!Open, OrgInv, OrgTypes
  <2>3. session[s].phase = "checked" /\ session[s].request = r
    BY <2>1, <2>2
  <2>4. session[s] # Org!Idle
    BY <2>3 DEF Org!Idle
  <2> QED
    BY <1>1, <2>2, <2>3, <2>4
<1>5. CASE Org!Retry(s)
  <2>1. session'[s].request = session[s].request /\ session[s] # Org!Idle
    BY <1>5 DEF Org!Retry, Org!IsOpen, Org!Idle, OrgInv, OrgTypes
  <2> QED
    BY <1>1, <2>1
<1> QED
  BY <1>2, <1>3, <1>4, <1>5, RequestStep

\* For any number of users and handlers: a role change overwrites the role its
\* caller had seen, or that of an accepted invitation.
THEOREM ChangesOverwriteSeen == Org!Spec => OverwritesSeenOrAccepted
<1>1. ASSUME OrgInv, ChangesHaveSeen, NEW s \in Sessions, Org!CommitChange(s)
      PROVE  LET r == session[s].request  u == r.user IN
             \/ member[u].status = r.seen.status /\ member[u].role = r.seen.role
             \/ \E i \in Invitations :
                  /\ invitation[i].status = "accepted"
                  /\ invitation[i].user = u
                  /\ invitation[i].role = member[u].role
  <2> DEFINE r == session[s].request
  <2>1. session[s].phase = "open" /\ r.op = "change" /\ ~outdated[s]
    BY <1>1 DEF Org!CommitChange, Org!Opened, Org!Commit
  <2>2. session[s] # Org!Idle
    BY <2>1 DEF Org!Idle
  <2>3. member[r.user].version = r.seen.version
    BY <1>1, <2>1 DEF OrgInv, SnapshotsHold, Org!IsOpen, Knows
  <2> QED
    BY <1>1, <2>1, <2>2, <2>3 DEF ChangesHaveSeen, SeenBefore, GivenByInvitation
<1>2. Org!Init => ChangesHaveSeen
  BY DEF Org!Init, ChangesHaveSeen
<1>3. OrgInv /\ ChangesHaveSeen =>
        [\A s \in Sessions : Org!CommitChange(s) =>
           LET r == session[s].request  u == r.user IN
           \/ member[u].status = r.seen.status /\ member[u].role = r.seen.role
           \/ \E i \in Invitations :
                /\ invitation[i].status = "accepted"
                /\ invitation[i].user = u
                /\ invitation[i].role = member[u].role]_(Org!vars)
  BY <1>1
<1> QED
  BY <1>2, <1>3, OrgInit, OrgInvStep, SeenStep, PTL
     DEF Org!Spec, OverwritesSeenOrAccepted, Org!OverwritesSeenOrAccepted

-----------------------------------------------------------------------------
(* The results of commands.                                                *)

\* A kept result is the one of the report that closed the command.
ResultIsClosing ==
  \A d \in Commands : HasResult(d) => result[d].report = closedBy[d]

\* A command that was closed once is not open, whatever expired since.
ClosedStaysClosed ==
  \A d \in Commands :
    closedBy[d] # NoReport => command[d] = Absent \/ command[d].status = "closed"

ResultsInv == TypeOK /\ ResultIsClosing /\ ClosedStaysClosed

\* Nothing is reported in the beginning.
LEMMA ResultsInit == Init => ResultsInv
BY TimesAssumption
   DEF Init, ResultsInv, TypeOK, ResultIsClosing, ClosedStaysClosed, Absent, Idle,
       HasResult, Reply

\* Every step of a handler, of the clock and of the TTL index keeps it.
LEMMA ResultsStep == ResultsInv /\ [Next]_vars => ResultsInv'
<1> SUFFICES ASSUME ResultsInv, [Next]_vars PROVE ResultsInv'
  OBVIOUS
<1> USE DEF ResultsInv, Absent, Idle, HasResult, Reply
<1>1. ASSUME NEW d \in Commands, NEW w \in Workers, Issue(d, w) PROVE ResultsInv'
  <2>1. TypeOK'
    BY <1>1, TimesAssumption DEF TypeOK, Issue, Command
  <2>2. ResultIsClosing' /\ ClosedStaysClosed'
    BY <1>1 DEF TypeOK, Issue, ResultIsClosing, ClosedStaysClosed
  <2> QED BY <2>1, <2>2
<1>2. ASSUME NEW c \in Handlers, Receive(c) PROVE ResultsInv'
  <2>1. TypeOK'
    BY <1>2 DEF TypeOK, Receive, Serving
  <2>2. ResultIsClosing' /\ ClosedStaysClosed'
    BY <1>2 DEF Receive, ResultIsClosing, ClosedStaysClosed
  <2> QED BY <2>1, <2>2
<1>3. ASSUME NEW c \in Handlers, FindResult(c) PROVE ResultsInv'
  <2>1. handler[c] \in Serving
    BY <1>3 DEF TypeOK, FindResult, Replied
  <2>2. TypeOK'
    BY <1>3, <2>1 DEF TypeOK, FindResult, AnswerFrom, Serving, Replied
  <2>3. ResultIsClosing' /\ ClosedStaysClosed'
    BY <1>3 DEF FindResult, ResultIsClosing, ClosedStaysClosed
  <2> QED BY <2>2, <2>3
<1>4. ASSUME NEW c \in Handlers, PersistResult(c) PROVE ResultsInv'
  <2> DEFINE report == handler[c].report
             d == report.command
  <2>1. report \in Report /\ d \in Commands
    BY <1>4 DEF TypeOK, PersistResult, Serving, Replied, Report
  <2>2. handler' \in [Handlers -> {Idle} \cup Serving \cup Replied]
    BY <1>4, <2>1 DEF TypeOK, PersistResult, AnswerFrom, Replied
  <2>3. CASE UNCHANGED <<command, result, closedBy>>
    BY <1>4, <2>2, <2>3
    DEF TypeOK, PersistResult, ResultIsClosing, ClosedStaysClosed
  <2>4. CASE /\ Reportable(report)
             /\ result' = [result EXCEPT ![d] =
                  [report |-> report, expiresAt |-> ResultExpiresAt]]
             /\ command' = [command EXCEPT ![d].status = "closed"]
             /\ closedBy' = [closedBy EXCEPT ![d] = report]
    <3>1. now' = now
      BY <1>4 DEF PersistResult
    <3>2. result' \in [Commands -> Result \cup {Absent}]
      BY <2>1, <2>4, TimesAssumption DEF TypeOK, Result, ResultExpiresAt
    <3>3. command' \in [Commands -> Command \cup {Absent}]
      BY <2>1, <2>4 DEF TypeOK, Reportable, Command
    <3>4. closedBy' \in [Commands -> Report \cup {NoReport}]
      BY <2>1, <2>4 DEF TypeOK
    <3>5. ResultIsClosing'
      BY <2>1, <2>4 DEF TypeOK, ResultIsClosing
    <3>6. ClosedStaysClosed'
      BY <2>1, <2>4 DEF TypeOK, ClosedStaysClosed, Reportable, Command
    <3> QED BY <3>1, <3>2, <3>3, <3>4, <3>5, <3>6, <2>2 DEF TypeOK
  <2> QED BY <1>4, <2>3, <2>4 DEF PersistResult
<1>5. ASSUME NEW c \in Handlers, Finish(c) PROVE ResultsInv'
  BY <1>5 DEF TypeOK, Finish, ResultIsClosing, ClosedStaysClosed
<1>6. ASSUME NEW d \in Commands, RemoveExpired(d) PROVE ResultsInv'
  BY <1>6 DEF TypeOK, RemoveExpired, ResultIsClosing, ClosedStaysClosed
<1>7. ASSUME Tick PROVE ResultsInv'
  BY <1>7, TimesAssumption DEF TypeOK, Tick, ResultIsClosing, ClosedStaysClosed
<1>8. ASSUME UNCHANGED vars PROVE ResultsInv'
  BY <1>8 DEF vars, TypeOK, ResultIsClosing, ClosedStaysClosed
<1> QED BY <1>1, <1>2, <1>3, <1>4, <1>5, <1>6, <1>7, <1>8 DEF Next

(* In every reachable state the records have their types, a result is the  *)
(* one of the closing report, and a closed command never opens again       *)
(* (persistWorkerResult).                                                  *)
THEOREM ResultsInvariance == Spec => []ResultsInv
BY ResultsInit, ResultsStep, PTL DEF Spec

(* One report closes a command, for good, also when its result has expired *)
(* and the same or another report arrives later.                           *)
THEOREM ClosedOnce == Spec => ClosesOnce
<1>1. ASSUME ResultsInv, [Next]_vars
      PROVE  [\A d \in Commands : closedBy[d] # NoReport => closedBy'[d] = closedBy[d]]_vars
  <2> SUFFICES ASSUME NEW d \in Commands, closedBy[d] # NoReport
               PROVE  closedBy'[d] = closedBy[d]
    OBVIOUS
  <2>1. ASSUME NEW c \in Handlers, PersistResult(c) PROVE closedBy'[d] = closedBy[d]
    BY <1>1, <2>1
    DEF ResultsInv, TypeOK, ClosedStaysClosed, PersistResult, Reportable, Absent
  <2> QED BY <1>1, <2>1
          DEF Next, vars, Issue, Receive, FindResult, Finish, RemoveExpired, Tick
<1> QED BY <1>1, ResultsInvariance, PTL DEF Spec, ClosesOnce

(* A report is accepted only when it is the one that closed its command:   *)
(* two different reports of a command are never both accepted.             *)
THEOREM AcceptedReportIsRecorded == Spec => AcceptedIsRecorded
<1> USE DEF Reply
<1>1. ASSUME ResultsInv, [Next]_vars
      PROVE  [\A c \in Handlers :
               handler'[c].at = "accepted" /\ handler[c].at # "accepted" =>
                 closedBy'[handler[c].report.command] = handler[c].report]_vars
  <2> SUFFICES ASSUME NEW c \in Handlers,
                      handler'[c].at = "accepted", handler[c].at # "accepted"
               PROVE  closedBy'[handler[c].report.command] = handler[c].report
    OBVIOUS
  <2> USE DEF ResultsInv
  <2>1. FindResult(c) \/ PersistResult(c)
    <3>1. ASSUME NEW b \in Handlers, Receive(b) PROVE FALSE
      BY <1>1, <3>1 DEF TypeOK, Receive
    <3>2. ASSUME NEW b \in Handlers, Finish(b) PROVE FALSE
      BY <1>1, <3>2 DEF TypeOK, Finish, Idle
    <3>3. ASSUME NEW b \in Handlers, FindResult(b) \/ PersistResult(b) PROVE b = c
      BY <1>1, <3>3 DEF TypeOK, FindResult, PersistResult, AnswerFrom
    <3>4. handler' # handler
      OBVIOUS
    <3> QED
      BY <1>1, <3>1, <3>2, <3>3, <3>4 DEF Next, vars, Issue, RemoveExpired, Tick
  <2>2. handler[c] \in Serving
    BY <1>1, <2>1 DEF TypeOK, FindResult, PersistResult, Idle, Replied
  <2>3. CASE FindResult(c)
    <3>1. /\ HasResult(handler[c].report.command)
          /\ Matches(result[handler[c].report.command], handler[c].report)
      <4>1. handler' # [handler EXCEPT ![c].at = "missed"]
        BY <1>1, <2>2 DEF TypeOK, Serving
      <4>2. handler' # [handler EXCEPT ![c] =
                          [at |-> "conflict", report |-> handler[c].report]]
        BY <1>1 DEF TypeOK
      <4> QED BY <2>3, <4>1, <4>2 DEF FindResult, AnswerFrom
    <3>2. handler[c].report.command \in Commands
      BY <2>2 DEF Serving, Report
    <3> QED
      BY <1>1, <2>3, <3>1, <3>2 DEF FindResult, Matches, ResultIsClosing
  <2>4. CASE PersistResult(c)
    BY <1>1, <2>2, <2>4
    DEF TypeOK, Serving, Report, PersistResult, AnswerFrom, Matches, ResultIsClosing
  <2> QED BY <2>1, <2>3, <2>4
<1> QED BY <1>1, ResultsInvariance, PTL DEF Spec, AcceptedIsRecorded

-----------------------------------------------------------------------------
(* The types of both parts.                                                *)

\* The memberships that changes make stay within the model's bound.
OrgBounds ==
  /\ \A u \in Users : member[u] # Org!NoMembership => member[u].version <= MaxChanges
  /\ token \in [Invitations -> {"none", "live", "used"}]

\* Where there is room for a change, every membership has room for it.
LEMMA RoomForOne ==
  ASSUME OrgTypes, OrgBounds, Org!Room, NEW u \in Users, member[u] \in MemberRecord
  PROVE  member[u].version + 1 <= MaxChanges
<1> DEFINE bound == MaxChanges + 1
           rest == Users \ {u}
<1>1. MaxChanges \in Nat /\ bound \in Nat /\ IsFiniteSet(Users)
  BY MembersAssumption
<1>2. IsFiniteSet(rest) /\ Users = rest \cup {u} /\ u \notin rest
  BY <1>1, FS_Subset
<1>3. member[u] # Org!NoMembership /\ member[u].version \in Nat
  BY DEF MemberRecord, Org!NoMembership
<1>4. Org!Versions[u] = member[u].version /\ member[u].version \in 0 .. bound
  BY <1>1, <1>3 DEF Org!Versions, OrgBounds
<1>5. Org!Total(Users, Org!Versions, bound) = Total(Users, Org!Versions, bound)
  <2>1. Org!Units(Users, Org!Versions, bound) = Units(Users, Org!Versions, bound)
    BY DEF Org!Units, Units
  <2> QED
    BY <2>1 DEF Org!Total, Total, Org!Cardinality, Cardinality
<1>6. Total(Users, Org!Versions, bound) < MaxChanges
  BY <1>5 DEF Org!Room
<1> HIDE DEF bound, rest
<1>7. Total(rest \cup {u}, Org!Versions, bound) =
        Total(rest, Org!Versions, bound) + Org!Versions[u]
  BY <1>1, <1>2, <1>4, TotalAdd
<1>8. Total(rest, Org!Versions, bound) \in Nat
  BY <1>1, <1>2, TotalIsNat
<1> QED
  BY <1>1, <1>2, <1>3, <1>4, <1>6, <1>7, <1>8

\* A commit that makes a next version had room for it.
LEMMA CommitBounds ==
  ASSUME OrgInv, OrgBounds, NEW s \in Sessions, Org!CommitStep(s)
  PROVE  OrgBounds'
<1> USE DEF OrgInv
<1>1. ASSUME NEW u \in Users, member'[u] # Org!NoMembership
      PROVE  member'[u].version <= MaxChanges
  <2>1. CASE member'[u] = member[u]
    BY <1>1, <2>1 DEF OrgBounds
  <2>2. CASE Org!CommitAccept(s)
    <3>1. \/ member'[u] = member[u]
          \/ member'[u].version = IF member[u] = Org!NoMembership THEN 0
                                  ELSE member[u].version
      BY <2>2 DEF Org!CommitAccept, OrgTypes
    <3> QED
      BY <2>1, <3>1, MembersAssumption DEF OrgBounds
  <2>3. CASE Org!Room /\ ~Org!CommitAccept(s) /\ member'[u] # member[u]
    <3>1. session[s].request.op # "accept"
      BY <2>3 DEF Org!CommitStep, Org!CommitInvite, Org!CommitRevoke, Org!CommitChange,
                  Org!CommitRemove, Org!CommitTransfer, Org!Opened
    <3>2. member[u] \in MemberRecord /\ member'[u].version = member[u].version + 1
      BY <2>3, <3>1, CommitMember
    <3> QED
      BY <2>3, <3>2, RoomForOne
  <2>4. Org!Room \/ Org!CommitAccept(s) \/ member'[u] = member[u]
    BY DEF Org!CommitStep, Org!CommitInvite, Org!CommitRevoke, Org!CommitChange,
           Org!CommitRemove, Org!CommitTransfer
  <2> QED
    BY <2>1, <2>2, <2>3, <2>4
<1>2. token' \in [Invitations -> {"none", "live", "used"}]
  BY DEF OrgBounds, Org!CommitStep, Org!CommitInvite, Org!CommitAccept, Org!CommitRevoke,
         Org!CommitChange, Org!CommitRemove, Org!CommitTransfer
<1> QED
  BY <1>1, <1>2 DEF OrgBounds

\* Nothing but a commit and the first membership can exceed a bound.
LEMMA BoundsStep ==
  ASSUME OrgInv, OrgBounds, [Org!Next]_(Org!vars)
  PROVE  OrgBounds'
<1>1. ASSUME NEW s \in Sessions, Org!CheckStep(s) \/ Org!BeginStep(s)
      PROVE  UNCHANGED <<member, token>>
  BY <1>1, CheckTypes, BeginTypes DEF OrgInv, Org!Start, Org!Open
<1>2. ASSUME NEW s \in Sessions, Org!Retry(s) \/ Org!GiveUp(s)
      PROVE  UNCHANGED <<member, token>>
  BY <1>2 DEF Org!Retry, Org!GiveUp
<1>3. ASSUME NEW i \in Invitations, Org!Expire(i)
      PROVE  OrgBounds'
  BY <1>3 DEF Org!Expire, OrgBounds
<1>4. CASE Org!CreateOrganization
  <2>1. \A u \in Users : member'[u] # Org!NoMembership =>
          member'[u].version = 0 \/ member'[u] = member[u]
    BY <1>4 DEF Org!CreateOrganization, OrgInv, OrgTypes
  <2> QED
    BY <1>4, <2>1, MembersAssumption DEF Org!CreateOrganization, OrgBounds
<1>5. CASE UNCHANGED <<member, token>>
  BY <1>5 DEF OrgBounds
<1> QED
  BY <1>1, <1>2, <1>3, <1>4, <1>5, CommitBounds DEF Org!Next, Org!vars

\* What the proofs say of types, with the bound, is Org!TypeOK.
LEMMA OrgTypesOK ==
  ASSUME OrgInv, ChangesHaveSeen, OrgBounds
  PROVE  Org!TypeOK
<1> USE DEF OrgInv
<1>0. MaxChanges \in Nat
  BY MembersAssumption
<1>1. ASSUME NEW m \in MemberRecord, m.version <= MaxChanges
      PROVE  m \in Org!Membership
  BY <1>0, <1>1 DEF MemberRecord, Org!Membership
<1>2. ASSUME NEW u \in Users
      PROVE  member[u] \in Org!Membership \cup {Org!NoMembership}
  BY <1>1 DEF OrgTypes, OrgBounds
<1>3. ASSUME NEW s \in Sessions, session[s] # Org!Idle
      PROVE  session[s].request \in Org!Request
  <2> DEFINE r == session[s].request
  <2>1. r \in OrgRequest
    BY <1>3 DEF OrgTypes, OrgSession
  <2>2. CASE r \in [op: {"change"}, user: Users, role: Roles, seen: MemberRecord]
    <3>1. r.op = "change" /\ r.user \in Users /\ r.seen \in MemberRecord
      BY <2>2
    <3>2. /\ member[r.user] # Org!NoMembership
          /\ r.seen.version <= member[r.user].version
      BY <1>3, <3>1 DEF ChangesHaveSeen, SeenBefore
    <3>3. /\ member[r.user].version <= MaxChanges /\ member[r.user].version \in Nat
          /\ r.seen.version \in Nat
      BY <3>1, <3>2 DEF OrgBounds, OrgTypes, MemberRecord
    <3>4. r.seen.version <= MaxChanges
      BY <1>0, <3>2, <3>3
    <3>5. r.seen \in Org!Membership
      BY <1>1, <3>1, <3>4
    <3> QED
      BY <2>2, <3>5 DEF Org!Request
  <2>3. CASE r \notin [op: {"change"}, user: Users, role: Roles, seen: MemberRecord]
    BY <2>1, <2>3 DEF OrgRequest, Org!Request
  <2> QED
    BY <2>2, <2>3
<1> QED
  BY <1>2, <1>3 DEF Org!TypeOK, OrgTypes, OrgBounds

(* Every document, request and report has the shape the handlers give it,  *)
(* and no membership has more versions than changes were made              *)
(* (features/organizations/service.tsx, persistWorkerResult).              *)
THEOREM ControlPlaneTypesOK == MCSpec => []TypesOK
<1> DEFINE IInv == OrgInv /\ ChangesHaveSeen /\ OrgBounds /\ ResultsInv
<1>1. MCInit => IInv
  <2>1. Org!Init => ChangesHaveSeen
    BY DEF Org!Init, ChangesHaveSeen
  <2>2. Org!Init => OrgBounds
    BY DEF Org!Init, OrgBounds
  <2> QED
    BY <2>1, <2>2, OrgInit, ResultsInit DEF MCInit
<1>2. IInv /\ [MCNext]_mcVars => IInv'
  <2>1. [MCNext]_mcVars => [Next]_vars /\ [Org!Next]_(Org!vars)
    BY DEF MCNext, mcVars, orgVars, vars, Org!vars
  <2> QED
    BY <2>1, OrgInvStep, SeenStep, BoundsStep, ResultsStep
<1>3. IInv => TypesOK
  BY OrgTypesOK DEF TypesOK, ResultsInv
<1> QED
  BY <1>1, <1>2, <1>3, PTL DEF MCSpec

=============================================================================
