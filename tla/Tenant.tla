------------------------------- MODULE Tenant -------------------------------
(***************************************************************************)
(* One organization, its members and invitations.  As in Identity a        *)
(* request checks first and writes at its commit.  The repositories save   *)
(* an entity by adding a new row with its primary key, so that saving one  *)
(* that was loaded violates the key and rolls the request back; only new   *)
(* rows and deletions persist.                                             *)
(***************************************************************************)
EXTENDS Integers, FiniteSets

CONSTANTS
  Users,            \* users, known by their email addresses as well
  TenantRequests,   \* requests in progress at a time
  MaxInvitations    \* bound: invitations ever made

ASSUME TenantAssumption == MaxInvitations \in Nat

VARIABLES
  tenCreated,   \* the organization exists
  tenRole,      \* of each user's membership, "none" without one
  tenInvite,    \* the invitations made
  tenReq,       \* the requests and what each is about to write
  tenCrossed    \* history: an owner was removed whose removal had counted on
                \* one that was removed meanwhile

tenVars == <<tenCreated, tenRole, tenInvite, tenReq, tenCrossed>>

\* A viewer has the rights of a member here, and is one.
Roles == {"owner", "admin", "member"}
ManagerRoles == {"owner", "admin"}
Invitations == 1..MaxInvitations

NoInvitation == [status |-> "none", role |-> "none"]
NoTask == [kind |-> "none"]

TenantInit ==
  /\ tenCreated = FALSE /\ tenRole = [u \in Users |-> "none"]
  /\ tenInvite = [i \in Invitations |-> [u \in Users |-> NoInvitation]]
  /\ tenReq = [r \in TenantRequests |-> NoTask] /\ tenCrossed = FALSE

----------------------------------------------------------------------------
(* What a request checks.                                                  *)

Accept(r, task) ==
  /\ tenReq[r] = NoTask /\ tenReq' = [tenReq EXCEPT ![r] = task]
  /\ UNCHANGED <<tenCreated, tenRole, tenInvite, tenCrossed>>

\* require_role(OWNER, ADMIN)
MayManage(actor) == tenRole[actor] \in ManagerRoles

Owners == {u \in Users : tenRole[u] = "owner"}

\* _assert_not_last_owner
NotLastOwner(u) == tenRole[u] = "owner" => Cardinality(Owners) > 1

CreateOrganization(r, u) ==
  ~tenCreated /\ Accept(r, [kind |-> "create", user |-> u])

Pending(u) == {i \in Invitations : tenInvite[i][u].status \in {"pending", "expired"}}

\* Of the rows still marked PENDING for the address there may be one, which has
\* expired; a second one makes every further request fail.
Invite(r, actor, u, role) ==
  /\ MayManage(actor) /\ Cardinality(Pending(u)) <= 1
  /\ \A i \in Pending(u) : tenInvite[i][u].status = "expired"
  /\ Accept(r, [kind |-> "invite", user |-> u, role |-> role])

AcceptInvitation(r, i, u) ==
  /\ tenInvite[i][u].status = "pending"
  /\ Accept(r, [kind |-> "accept", user |-> u, invitation |-> i])

RevokeInvitation(r, i, u) ==
  /\ tenInvite[i][u].status \in {"pending", "expired"}
  /\ Accept(r, [kind |-> "revoke", user |-> u, invitation |-> i])

ChangeMemberRole(r, actor, u, role) ==
  /\ MayManage(actor) /\ tenRole[u] # "none"
  /\ role # "owner" => NotLastOwner(u)
  /\ Accept(r, [kind |-> "role", user |-> u, role |-> role])

RemoveMember(r, actor, u) ==
  /\ MayManage(actor) /\ tenRole[u] # "none" /\ NotLastOwner(u)
  /\ Accept(r, [kind |-> "remove", user |-> u, others |-> Owners \ {u}])

----------------------------------------------------------------------------
(* What its commit writes.                                                 *)

\* Seeded slip: a loaded entity is merged into its row.
Mut_SaveMerges(old, new) == new

\* The row after an entity loaded from it is saved: as it was.
SaveLoaded(old, new) == old

\* The saved row is a violation of its primary key: nothing of the request
\* persists.
Persisted(old, new) == SaveLoaded(old, new) = new

Take(r, kind) == tenReq[r].kind = kind /\ tenReq' = [tenReq EXCEPT ![r] = NoTask]

\* The slug is unique: the second creation is rolled back.
CommitCreate(r) ==
  /\ Take(r, "create") /\ tenCreated' = TRUE
  /\ tenRole' = IF tenCreated THEN tenRole ELSE [tenRole EXCEPT ![tenReq[r].user] = "owner"]
  /\ UNCHANGED <<tenInvite, tenCrossed>>

CommitInvite(r) ==
  /\ Take(r, "invite")
  /\ \E i \in Invitations :
       /\ \A u \in Users : tenInvite[i][u] = NoInvitation
       /\ \A j \in 1..(i - 1) : \E u \in Users : tenInvite[j][u] # NoInvitation
       /\ tenInvite' = [tenInvite EXCEPT ![i][tenReq[r].user] =
                          [status |-> "pending", role |-> tenReq[r].role]]
  /\ UNCHANGED <<tenCreated, tenRole, tenCrossed>>

\* The invitation is saved first, then the new membership.
CommitAccept(r) ==
  LET u == tenReq[r].user
      old == tenInvite[tenReq[r].invitation][u]
      new == [old EXCEPT !.status = "accepted"]
  IN  /\ Take(r, "accept")
      /\ IF Persisted(old, new)
         THEN /\ tenInvite' = [tenInvite EXCEPT ![tenReq[r].invitation][u] = new]
              /\ tenRole' = [tenRole EXCEPT ![u] = IF @ = "none" THEN new.role ELSE @]
         ELSE UNCHANGED <<tenInvite, tenRole>>
      /\ UNCHANGED <<tenCreated, tenCrossed>>

CommitRevoke(r) ==
  LET u == tenReq[r].user
      old == tenInvite[tenReq[r].invitation][u]
  IN  /\ Take(r, "revoke")
      /\ tenInvite' = [tenInvite EXCEPT ![tenReq[r].invitation][u] =
                         SaveLoaded(old, [old EXCEPT !.status = "revoked"])]
      /\ UNCHANGED <<tenCreated, tenRole, tenCrossed>>

CommitRole(r) ==
  LET u == tenReq[r].user
  IN  /\ Take(r, "role")
      /\ tenRole' = [tenRole EXCEPT ![u] = SaveLoaded(@, tenReq[r].role)]
      /\ UNCHANGED <<tenCreated, tenInvite, tenCrossed>>

CommitRemove(r) ==
  LET u == tenReq[r].user
  IN  /\ Take(r, "remove") /\ tenRole' = [tenRole EXCEPT ![u] = "none"]
      /\ tenCrossed' = \/ tenCrossed
                       \/ tenRole[u] = "owner" /\ ~(tenReq[r].others \subseteq Owners)
      /\ UNCHANGED <<tenCreated, tenInvite>>

\* No route of the program makes a member or a second owner, since acceptances
\* and role changes fail: they are rows an operator inserts, here while no
\* request on the user is in progress.
ImportMember(u, role) ==
  /\ tenCreated /\ tenRole[u] = "none"
  /\ \A r \in TenantRequests : tenReq[r] # NoTask => tenReq[r].user # u
  /\ tenRole' = [tenRole EXCEPT ![u] = role]
  /\ UNCHANGED <<tenCreated, tenInvite, tenReq, tenCrossed>>

\* A week passes; the row keeps the status PENDING.
ExpireInvitation(i, u) ==
  /\ tenInvite[i][u].status = "pending"
  /\ tenInvite' = [tenInvite EXCEPT ![i][u].status = "expired"]
  /\ UNCHANGED <<tenCreated, tenRole, tenReq, tenCrossed>>

TenantNext ==
  \/ \E r \in TenantRequests :
       \/ \E u \in Users :
            \/ CreateOrganization(r, u)
            \/ \E i \in Invitations : AcceptInvitation(r, i, u) \/ RevokeInvitation(r, i, u)
            \/ \E actor \in Users :
                 \/ RemoveMember(r, actor, u)
                 \/ \E role \in Roles : Invite(r, actor, u, role) \/ ChangeMemberRole(r, actor, u, role)
       \/ CommitCreate(r) \/ CommitInvite(r) \/ CommitAccept(r) \/ CommitRevoke(r)
       \/ CommitRole(r) \/ CommitRemove(r)
  \/ \E u \in Users :
       \/ \E i \in Invitations : ExpireInvitation(i, u)
       \/ \E role \in Roles : ImportMember(u, role)

TenantSpec == TenantInit /\ [][TenantNext]_tenVars

----------------------------------------------------------------------------
(* Properties.                                                             *)

Tasks ==
  {NoTask} \cup
  [kind : {"create"}, user : Users] \cup
  [kind : {"remove"}, user : Users, others : SUBSET Users] \cup
  [kind : {"invite", "role"}, user : Users, role : Roles] \cup
  [kind : {"accept", "revoke"}, user : Users, invitation : Invitations]

TenantTypeOK ==
  /\ tenCreated \in BOOLEAN /\ tenRole \in [Users -> Roles \cup {"none"}]
  /\ tenInvite \in [Invitations -> [Users ->
       [status : {"none", "pending", "expired", "accepted", "revoked"},
        role : Roles \cup {"none"}]]]
  /\ tenReq \in [TenantRequests -> Tasks] /\ tenCrossed \in BOOLEAN

(* "An organization must keep at least one active owner": with any number *)
(* of owners, and whatever requests to accept, change roles and remove     *)
(* members come together, it loses the last one only to removals that      *)
(* cross: each had counted on an owner whose own removal was committed     *)
(* before it.  A demotion never takes part, because it does not persist.   *)
OwnerLostOnlyToCrossing == tenCreated /\ Owners = {} => tenCrossed
============================================================================
