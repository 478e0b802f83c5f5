--------------------------- MODULE MCControlPlane ---------------------------
(***************************************************************************)
(* The members of an organization and the results that workers report,     *)
(* side by side: they share no document, so "part" picks one.  The parts   *)
(* name their interchangeable values alike (handlers are called as the     *)
(* sessions, workers as the invitations), so one symmetry serves both.     *)
(***************************************************************************)
EXTENDS WorkerResults, FiniteSets, TLC

CONSTANTS Users, Creator, Roles, Invitations, Sessions, MaxChanges

ASSUME MembersAssumption ==
  /\ IsFiniteSet(Users)
  /\ {"owner", "admin"} \subseteq Roles
  /\ MaxChanges \in Nat

VARIABLES organization, member, invitation, token, session, outdated, part

Org == INSTANCE OrgMembership

orgVars == <<organization, member, invitation, token, session, outdated>>
mcVars == <<vars, orgVars, part>>

MCInit == Init /\ Org!Init /\ part \in {"members", "results"}
MCNext ==
  /\ UNCHANGED part
  /\ \/ part = "members" /\ Org!Next /\ UNCHANGED vars
     \/ part = "results" /\ Next /\ UNCHANGED orgVars
MCSpec == MCInit /\ [][MCNext]_mcVars

TypesOK == IF part = "results" THEN TypeOK ELSE Org!TypeOK
LastOwnerKept == Org!LastOwnerKept
InvitationSettlesOnce == Org!InvitationSettlesOnce
TransferHandsOver == Org!TransferHandsOver
OverwritesSeenOrAccepted == Org!OverwritesSeenOrAccepted

Symmetry == Permutations(Sessions) \cup Permutations(Invitations)
              \cup Permutations(Users \ {Creator})
              \cup Permutations(Bodies)
=============================================================================
