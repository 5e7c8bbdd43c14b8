-------------------------- MODULE Platform_proofs ---------------------------
(***************************************************************************)
(* Proofs about the components that serve requests, and about the life of  *)
(* the process they run in: refresh tokens, the owner of an organization,  *)
(* runs of one idempotency key, the order of the services, the consumers   *)
(* of the event bus, what a resumed campaign rebuilds, and the saved       *)
(* definitions, each for any number of the actors and things it is about.  *)
(***************************************************************************)
EXTENDS MCPlatform, RunAggregate_proofs, FiniteSetTheorems, SequenceTheorems, Induction

-----------------------------------------------------------------------------
(* Sessions: Identity. *)

(* A token not yet issued is its own login, and no issued token descends   *)
(* from it; what a request has read was issued; what was ended is revoked. *)
LoginRoots ==
  \A u \in Tokens :
    IF idToken[u] = "unused" THEN idLogin[u] = u ELSE idToken[idLogin[u]] # "unused"
ReadsIssued ==
  \A r \in IdRequests :
    /\ idReq[r].kind = "refresh" =>
         idReq[r].arg \in Tokens /\ idToken[idReq[r].arg] # "unused"
    /\ \A t \in idReq[r].seen : idToken[t] # "unused"
EndedRevoked == \A t \in idEnded : idToken[t] = "revoked"

IdInv == IdTypeOK /\ LoginRoots /\ ReadsIssued /\ EndedRevoked /\ OneSessionPerLogin

(* The sessions of a login are finitely many.                              *)
LEMMA SessionsFinite ==
  ASSUME NEW S \in SUBSET Tokens
  PROVE  IsFiniteSet(S) /\ Cardinality(S) \in Nat
<1>1. IsFiniteSet(Tokens)
  BY IdentityAssumption, FS_Interval DEF Tokens
<1>2. IsFiniteSet(S)
  BY <1>1, FS_Subset
<1> QED  BY <1>2, FS_CardinalityType

LEMMA IdInitInv == IdInit => IdInv
<1> SUFFICES ASSUME IdInit PROVE IdInv
  OBVIOUS
<1>1. IdTypeOK
  BY DEF IdInit, IdTypeOK, NoRequest
<1>2. LoginRoots /\ EndedRevoked
  BY DEF IdInit, LoginRoots, EndedRevoked
<1>3. ReadsIssued
  BY DEF IdInit, ReadsIssued, NoRequest
<1>4. OneSessionPerLogin
  <2>1. \A t : Sessions(t) = {}
    BY DEF IdInit, Sessions, ValidTokens
  <2>2. Cardinality({}) = 0
    BY FS_EmptySet
  <2> QED  BY <2>1, <2>2 DEF OneSessionPerLogin, IdInit, Over
<1> QED  BY <1>1, <1>2, <1>3, <1>4 DEF IdInv

(* A step that leaves the tokens alone.                                    *)
LEMMA TokensUntouched ==
  ASSUME IdInv, UNCHANGED <<idToken, idLogin, idEnded, idRaced>>,
         idReq' \in [IdRequests ->
           [kind : Kinds \cup {"none"}, arg : Nat, seen : SUBSET Tokens]],
         ReadsIssued',
         idStatus' \in {"absent", "pending_verification", "active"},
         idVerify' \in {"none", "open", "used"},
         idReset' \in [Resets -> {"none", "open", "used"}]
  PROVE  IdInv'
BY DEF IdInv, IdTypeOK, LoginRoots, EndedRevoked, OneSessionPerLogin, Sessions, ValidTokens, Over

(* A request that passes its checks has read issued tokens only.           *)
LEMMA BeginKeepsInv ==
  ASSUME IdInv, NEW r \in IdRequests, NEW kind \in Kinds, NEW arg \in Nat,
         NEW seen \in SUBSET Tokens, Begin(r, kind, arg, seen),
         \A t \in seen : idToken[t] # "unused",
         kind = "refresh" => arg \in Tokens /\ idToken[arg] # "unused"
  PROVE  IdInv'
<1>1. idReq' \in [IdRequests -> [kind : Kinds \cup {"none"}, arg : Nat, seen : SUBSET Tokens]]
  BY DEF Begin, IdInv, IdTypeOK
<1>2. ReadsIssued'
  BY DEF Begin, IdInv, IdTypeOK, ReadsIssued
<1> QED  BY <1>1, <1>2, TokensUntouched DEF Begin, IdInv, IdTypeOK

LEMMA ReadsKeepInv ==
  ASSUME IdInv, NEW r \in IdRequests,
         \/ Register(r) \/ Login(r) \/ Logout(r) \/ ChangePassword(r) \/ VerifyEmail(r)
         \/ (\E t \in Tokens : Refresh(r, t)) \/ (\E k \in Resets : ResetPassword(r, k))
  PROVE  IdInv'
<1> USE DEF Kinds
<1>0. ValidTokens \in SUBSET Tokens /\ \A t \in ValidTokens : idToken[t] # "unused"
  BY DEF ValidTokens
<1>1. CASE Register(r) \/ Login(r) \/ ChangePassword(r) \/ VerifyEmail(r)
  BY <1>1, BeginKeepsInv DEF Register, Login, ChangePassword, VerifyEmail
<1>2. CASE Logout(r)
  BY <1>0, <1>2, BeginKeepsInv DEF Logout
<1>3. ASSUME NEW t \in Tokens, Refresh(r, t) PROVE IdInv'
  BY <1>3, BeginKeepsInv DEF Refresh, Tokens
<1>4. ASSUME NEW k \in Resets, ResetPassword(r, k) PROVE IdInv'
  BY <1>0, <1>4, BeginKeepsInv DEF ResetPassword, Resets
<1> QED  BY <1>1, <1>2, <1>3, <1>4

(* A request that ends.                                                    *)
LEMMA FinishTyped ==
  ASSUME IdTypeOK, NEW r \in IdRequests, Finish(r)
  PROVE  /\ idReq' \in [IdRequests ->
              [kind : Kinds \cup {"none"}, arg : Nat, seen : SUBSET Tokens]]
         /\ \A q \in IdRequests : idReq'[q] = idReq[q] \/ idReq'[q] = NoRequest
BY DEF IdTypeOK, Finish, NoRequest

LEMMA FinishReads ==
  ASSUME IdInv, NEW r \in IdRequests, Finish(r),
         \A t \in Tokens : idToken[t] # "unused" => idToken'[t] # "unused"
  PROVE  ReadsIssued'
<1>1. \A q \in IdRequests : idReq'[q] = idReq[q] \/ idReq'[q] = NoRequest
  BY FinishTyped DEF IdInv
<1>2. \A q \in IdRequests : idReq[q].seen \subseteq Tokens
  BY DEF IdInv, IdTypeOK
<1> QED  BY <1>1, <1>2 DEF ReadsIssued, IdInv, NoRequest

(* A new token begins a login of its own: its only session.                *)
LEMMA IssueKeepsInv ==
  ASSUME IdInv, NEW r \in IdRequests, Finish(r), IssueToken,
         UNCHANGED <<idLogin, idReset, idEnded, idRaced, idVerify>>,
         idStatus' \in {"absent", "pending_verification", "active"}
  PROVE  IdInv'
<1> USE DEF IdInv
<1>1. PICK n \in FreshTokens : idToken' = [idToken EXCEPT ![n] = "valid"]
  BY DEF IssueToken
<1>2. n \in Tokens /\ idToken[n] = "unused" /\ idLogin[n] = n
  BY DEF FreshTokens, LoginRoots
<1>3. IdTypeOK'
  BY <1>1, <1>2, FinishTyped DEF IdTypeOK
<1>4. LoginRoots' /\ EndedRevoked'
  BY <1>1, <1>2 DEF LoginRoots, EndedRevoked, IdTypeOK
<1>5. ReadsIssued'
  BY <1>1, <1>2, FinishReads DEF IdTypeOK
<1>6. OneSessionPerLogin'
  <2> SUFFICES ASSUME NEW t \in Tokens, idLogin[t] = t
               PROVE  Cardinality(Sessions(t)') <= (IF Over(t) THEN 0 ELSE 1) + idRaced[t]
    BY DEF OneSessionPerLogin, Over
  <2>1. CASE t = n
    <3>1. Sessions(t)' = {n}
      BY <1>1, <1>2, <2>1 DEF Sessions, ValidTokens, LoginRoots, IdTypeOK
    <3>2. Cardinality({n}) = 1
      BY FS_Singleton
    <3>3. ~Over(n)
      BY <1>2 DEF Over, EndedRevoked, LoginRoots, IdTypeOK
    <3> QED  BY <2>1, <3>1, <3>2, <3>3 DEF IdTypeOK
  <2>2. CASE t # n
    <3>1. Sessions(t)' = Sessions(t)
      BY <1>1, <1>2, <2>2 DEF Sessions, ValidTokens, IdTypeOK
    <3> QED  BY <3>1 DEF OneSessionPerLogin
  <2> QED  BY <2>1, <2>2
<1> QED  BY <1>3, <1>4, <1>5, <1>6

(* A refresh replaces one session of its login by another, or adds one     *)
(* when its token was revoked meanwhile, which idRaced counts.             *)
LEMMA RefreshKeepsInv ==
  ASSUME IdInv, NEW r \in IdRequests, CommitRefresh(r)
  PROVE  IdInv'
<1> USE DEF IdInv
<1> DEFINE old  == idReq[r].arg
           root == idLogin[old]
<1>1. old \in Tokens /\ idToken[old] # "unused"
  BY DEF CommitRefresh, ReadsIssued
<1>2. PICK n \in FreshTokens :
        /\ idToken' = [idToken EXCEPT ![old] = "revoked", ![n] = "valid"]
        /\ idLogin' = [idLogin EXCEPT ![n] = root]
  BY DEF CommitRefresh
<1>3. n \in Tokens /\ idToken[n] = "unused" /\ idLogin[n] = n /\ n # old
  BY <1>1 DEF FreshTokens, LoginRoots
<1>4. root \in Tokens /\ idToken[root] # "unused" /\ root # n
  BY <1>1, <1>3 DEF LoginRoots, IdTypeOK
<1>5. idRaced' = [idRaced EXCEPT ![root] = IF idToken[old] = "revoked" THEN @ + 1 ELSE @]
  BY DEF CommitRefresh
<1>6. Finish(r) /\ UNCHANGED <<idStatus, idVerify, idReset, idEnded>>
  BY DEF CommitRefresh
<1> HIDE DEF old, root
<1>7. \A u \in Tokens : idToken'[u] =
        IF u = n THEN "valid" ELSE IF u = old THEN "revoked" ELSE idToken[u]
  BY <1>1, <1>2, <1>3 DEF IdTypeOK
<1>8. \A u \in Tokens : idLogin'[u] = IF u = n THEN root ELSE idLogin[u]
  BY <1>2, <1>3 DEF IdTypeOK
<1>9. IdTypeOK'
  <2>1. idToken' \in [Tokens -> {"unused", "valid", "revoked"}]
    BY <1>2 DEF IdTypeOK
  <2>2. idLogin' \in [Tokens -> Tokens]
    BY <1>2, <1>3, <1>4 DEF IdTypeOK
  <2>3. idRaced' \in [Tokens -> Nat]
    BY <1>4, <1>5 DEF IdTypeOK
  <2> QED  BY <1>6, <2>1, <2>2, <2>3, FinishTyped DEF IdTypeOK
<1>10. LoginRoots'
  BY <1>3, <1>4, <1>7, <1>8 DEF LoginRoots, IdTypeOK
<1>11. EndedRevoked'
  BY <1>3, <1>6, <1>7 DEF EndedRevoked, IdTypeOK
<1>12. ReadsIssued'
  BY <1>6, <1>7, FinishReads
<1>13. OneSessionPerLogin'
  <2>0. \A t : Over(t)' = Over(t)
    <3>1. n \notin idEnded /\ idEnded' = idEnded /\ idEnded \subseteq Tokens
      BY <1>3, <1>6 DEF EndedRevoked, IdTypeOK
    <3> QED  BY <1>8, <3>1 DEF Over
  <2> DEFINE One(t) == IF Over(t) THEN 0 ELSE 1
  <2> SUFFICES ASSUME NEW t \in Tokens, idLogin'[t] = t
               PROVE  Cardinality(Sessions(t)') <= One(t) + idRaced'[t]
    BY <2>0 DEF OneSessionPerLogin
  <2>a. One(t) \in Nat
    OBVIOUS
  <2>1. idLogin[t] = t /\ t # n
    BY <1>4, <1>8
  <2>2. /\ Cardinality(Sessions(t)) <= One(t) + idRaced[t] /\ idRaced[t] \in Nat
        /\ IsFiniteSet(Sessions(t)) /\ Cardinality(Sessions(t)) \in Nat
    BY <2>1, SessionsFinite DEF OneSessionPerLogin, IdTypeOK, Sessions, ValidTokens
  <2> HIDE DEF One
  <2>3. n \notin Sessions(t)
    BY <1>3 DEF Sessions, ValidTokens
  <2>4. CASE t # root
    <3>1. Sessions(t)' = Sessions(t)
      BY <1>3, <1>7, <1>8, <2>4 DEF Sessions, ValidTokens, root
    <3>2. idRaced'[t] = idRaced[t]
      BY <1>5, <2>4 DEF IdTypeOK
    <3> QED  BY <2>2, <2>a, <3>1, <3>2
  <2>5. CASE t = root
    <3>1. Sessions(t)' = (Sessions(t) \ {old}) \cup {n}
      BY <1>1, <1>3, <1>7, <1>8, <2>5 DEF Sessions, ValidTokens
    <3>2. IsFiniteSet(Sessions(t) \ {old}) /\ n \notin Sessions(t) \ {old}
      BY <2>2, <2>3, FS_RemoveElement
    <3>3. Cardinality(Sessions(t)') = Cardinality(Sessions(t) \ {old}) + 1
      BY <3>1, <3>2, FS_AddElement
    <3>4. CASE idToken[old] = "valid"
      <4>1. old \in Sessions(t)
        BY <1>1, <2>5, <3>4 DEF Sessions, ValidTokens, root
      <4>2. Cardinality(Sessions(t) \ {old}) = Cardinality(Sessions(t)) - 1
        BY <2>2, <4>1, FS_RemoveElement
      <4>3. idRaced'[t] = idRaced[t]
        BY <1>5, <3>4, <2>5 DEF IdTypeOK
      <4> QED  BY <2>2, <2>a, <3>3, <4>2, <4>3
    <3>5. CASE idToken[old] = "revoked"
      <4>1. old \notin Sessions(t)
        BY <3>5 DEF Sessions, ValidTokens
      <4>2. Cardinality(Sessions(t) \ {old}) = Cardinality(Sessions(t))
        BY <2>2, <4>1, FS_RemoveElement
      <4>3. idRaced'[t] = idRaced[t] + 1
        BY <1>5, <3>5, <2>5 DEF IdTypeOK
      <4> QED  BY <2>2, <2>a, <3>3, <4>2, <4>3
    <3> QED  BY <1>1, <3>4, <3>5 DEF IdTypeOK
  <2> QED  BY <2>4, <2>5
<1> QED  BY <1>9, <1>10, <1>11, <1>12, <1>13

(* Revoking tokens that were issued ends sessions and begins none.         *)
LEMMA RevokeKeepsInv ==
  ASSUME IdInv, NEW r \in IdRequests, Finish(r), RevokeSeen(idReq[r].seen),
         UNCHANGED <<idStatus, idVerify, idLogin>>,
         idReset' \in [Resets -> {"none", "open", "used"}]
  PROVE  IdInv'
<1> USE DEF IdInv
<1> DEFINE S == idReq[r].seen
<1>1. S \subseteq Tokens /\ \A t \in S : idToken[t] # "unused"
  BY DEF IdTypeOK, ReadsIssued
<1>2. /\ idToken' = [t \in Tokens |-> IF t \in S THEN "revoked" ELSE idToken[t]]
      /\ idEnded' = idEnded \cup S
      /\ idRaced' = [l \in Tokens |-> idRaced[l] + IF Missed(S, l) THEN 1 ELSE 0]
  BY DEF RevokeSeen
<1> HIDE DEF S
<1>3. IdTypeOK'
  BY <1>1, <1>2, FinishTyped DEF IdTypeOK
<1>4. LoginRoots' /\ EndedRevoked'
  BY <1>1, <1>2 DEF LoginRoots, EndedRevoked, IdTypeOK
<1>5. ReadsIssued'
  BY <1>1, <1>2, FinishReads
<1>6. OneSessionPerLogin'
  <2> SUFFICES ASSUME NEW t \in Tokens, idLogin[t] = t
               PROVE  Cardinality(Sessions(t)') <= (IF Over(t)' THEN 0 ELSE 1) + idRaced'[t]
    BY DEF OneSessionPerLogin
  <2>1. Sessions(t)' \subseteq Sessions(t)
    BY <1>2 DEF Sessions, ValidTokens
  <2>2. IsFiniteSet(Sessions(t)) /\ Cardinality(Sessions(t)) \in Nat
    BY SessionsFinite DEF Sessions, ValidTokens
  <2>3. Cardinality(Sessions(t)') <= Cardinality(Sessions(t)) /\ Cardinality(Sessions(t)') \in Nat
    BY <2>1, <2>2, FS_Subset, FS_CardinalityType
  <2>4. /\ Cardinality(Sessions(t)) <= (IF Over(t) THEN 0 ELSE 1) + idRaced[t]
        /\ idRaced[t] \in Nat
        /\ idRaced'[t] = idRaced[t] + IF Missed(S, t) THEN 1 ELSE 0
    BY <1>2 DEF OneSessionPerLogin, IdTypeOK
  <2>5. Over(t) => Over(t)'
    BY <1>2 DEF Over
  <2>6. CASE Over(t) \/ ~Over(t)' \/ Missed(S, t)
    BY <2>2, <2>3, <2>4, <2>5, <2>6
  <2>7. CASE ~Over(t) /\ Over(t)' /\ ~Missed(S, t)
    <3>1. PICK u \in S : idLogin[u] = t /\ u \notin idEnded
      BY <1>2, <2>7 DEF Over
    <3>2. u \in Sessions(t) /\ u \notin Sessions(t)'
      BY <1>1, <1>2, <2>7, <3>1 DEF Missed, Sessions, ValidTokens, IdTypeOK
    <3>3. Sessions(t)' \subseteq Sessions(t) \ {u}
      BY <2>1, <3>2
    <3>4. /\ IsFiniteSet(Sessions(t) \ {u})
          /\ Cardinality(Sessions(t) \ {u}) = Cardinality(Sessions(t)) - 1
      BY <2>2, <3>2, FS_RemoveElement
    <3>5. Cardinality(Sessions(t)') <= Cardinality(Sessions(t) \ {u})
      BY <3>3, <3>4, FS_Subset
    <3> QED  BY <2>2, <2>3, <2>4, <2>7, <3>4, <3>5
  <2> QED  BY <2>6, <2>7
<1> QED  BY <1>3, <1>4, <1>5, <1>6

LEMMA WritesKeepInv ==
  ASSUME IdInv, NEW r \in IdRequests,
         \/ CommitRegister(r) \/ CommitLogin(r) \/ CommitRefresh(r) \/ CommitLogout(r)
         \/ CommitChange(r) \/ CommitVerify(r) \/ CommitReset(r) \/ AbandonRequest(r)
  PROVE  IdInv'
<1> USE DEF IdInv
<1>0. ASSUME Finish(r), UNCHANGED idToken PROVE ReadsIssued'
  BY <1>0, FinishReads
<1>1. CASE CommitRegister(r)
  <2>1. CASE idStatus = "absent"
    BY <1>1, <2>1, IssueKeepsInv DEF CommitRegister
  <2>2. CASE idStatus # "absent"
    BY <1>0, <1>1, <2>2, FinishTyped, TokensUntouched DEF CommitRegister, IdTypeOK
  <2> QED  BY <2>1, <2>2
<1>2. CASE CommitLogin(r)
  BY <1>2, IssueKeepsInv DEF CommitLogin, IdTypeOK
<1>3. CASE CommitRefresh(r)
  BY <1>3, RefreshKeepsInv
<1>4. CASE CommitLogout(r)
  BY <1>4, RevokeKeepsInv DEF CommitLogout, IdTypeOK
<1>5. CASE CommitReset(r)
  BY <1>5, RevokeKeepsInv DEF CommitReset, IdTypeOK
<1>6. CASE CommitChange(r) \/ CommitVerify(r) \/ AbandonRequest(r)
  BY <1>0, <1>6, FinishTyped, TokensUntouched
     DEF CommitChange, CommitVerify, AbandonRequest, IdTypeOK
<1> QED  BY <1>1, <1>2, <1>3, <1>4, <1>5, <1>6

LEMMA MintsKeepInv ==
  ASSUME IdInv, RequestVerification \/ RequestReset
  PROVE  IdInv'
<1>1. ReadsIssued'
  BY DEF RequestVerification, RequestReset, IdInv, ReadsIssued
<1> QED  BY <1>1, TokensUntouched DEF RequestVerification, RequestReset, IdInv, IdTypeOK

LEMMA IdStepInv == IdInv /\ [IdNext]_idVars => IdInv'
<1> SUFFICES ASSUME IdInv, [IdNext]_idVars PROVE IdInv'
  OBVIOUS
<1>1. CASE UNCHANGED idVars
  BY <1>1, TokensUntouched DEF idVars, IdInv, IdTypeOK, ReadsIssued
<1>2. CASE IdNext
  BY <1>2, ReadsKeepInv, WritesKeepInv, MintsKeepInv DEF IdNext
<1> QED  BY <1>1, <1>2

LEMMA IdAlways == IdSpec => []IdInv
BY IdInitInv, IdStepInv, PTL DEF IdSpec

(* The variables of the identity model keep their types.                   *)
THEOREM IdentityTyped == IdSpec => []IdTypeOK
<1>1. IdInv => IdTypeOK
  BY DEF IdInv
<1> QED  BY <1>1, IdAlways, PTL

(* However many requests race on the tokens of an account, a login has one *)
(* valid refresh token, or none once a logout or reset has found it, plus  *)
(* one for each request that came to revoke a token which another had      *)
(* revoked since it was read.                                              *)
THEOREM SessionsBounded == IdSpec => []OneSessionPerLogin
<1>1. IdInv => OneSessionPerLogin
  BY DEF IdInv
<1> QED  BY <1>1, IdAlways, PTL

-----------------------------------------------------------------------------
(* The organization: Tenant. *)

(* What the argument rests on besides the number of owners: there are no   *)
(* members before the creation; no saved invitation is ever ACCEPTED; and  *)
(* a request that is about to remove an owner has seen another one.        *)
NoneBefore == ~tenCreated => \A u \in Users : tenRole[u] = "none"
NeverAccepted ==
  \A i \in Invitations, u \in Users : tenInvite[i][u].status # "accepted"
Spares(job) ==
  /\ tenCreated
  /\ tenRole[job.user] = "owner" => job.others # {} /\ job.user \notin job.others
RemovesOthers ==
  \A r \in TenantRequests : tenReq[r].kind = "remove" => Spares(tenReq[r])

TenantInv ==
  TenantTypeOK /\ OwnerLostOnlyToCrossing /\ NoneBefore /\ NeverAccepted /\ RemovesOthers

(* A job of each kind carries what its commit needs.                       *)
LEMMA TaskShapes ==
  ASSUME NEW t \in Tasks
  PROVE  /\ t.kind \in {"create", "remove", "invite", "role", "accept", "revoke"} => t.user \in Users
         /\ t.kind \in {"invite", "role"} => t.role \in Roles
         /\ t.kind \in {"accept", "revoke"} => t.invitation \in Invitations
         /\ t.kind = "remove" => t.others \in SUBSET Users
BY DEF Tasks, NoTask

(* The invariant holds initially.                                          *)
LEMMA TenantInitInv == TenantInit => TenantInv
<1> SUFFICES ASSUME TenantInit PROVE TenantInv
  OBVIOUS
<1>1. TenantTypeOK
  BY DEF TenantInit, TenantTypeOK, NoInvitation, Tasks
<1>2. OwnerLostOnlyToCrossing /\ NoneBefore /\ NeverAccepted
  BY DEF TenantInit, OwnerLostOnlyToCrossing, NoneBefore, NeverAccepted, NoInvitation
<1>3. RemovesOthers
  BY DEF TenantInit, RemovesOthers, NoTask
<1> QED  BY <1>1, <1>2, <1>3 DEF TenantInv

(* An owner that may be removed is not the only one.                       *)
LEMMA OwnerSpared ==
  ASSUME NEW u \in Users, NotLastOwner(u), tenRole[u] = "owner"
  PROVE  Owners \ {u} # {}
<1> SUFFICES ASSUME Owners \ {u} = {} PROVE FALSE
  OBVIOUS
<1>1. Owners = {u}
  BY DEF Owners
<1>2. Cardinality({u}) = 1
  BY FS_Singleton
<1> QED  BY <1>1, <1>2 DEF NotLastOwner

(* A request that passes its checks leaves the rows alone.                 *)
LEMMA AcceptKeepsInv ==
  ASSUME TenantInv, NEW r \in TenantRequests, NEW job \in Tasks, Accept(r, job),
         job.kind = "remove" => Spares(job)
  PROVE  TenantInv'
<1>1. TenantTypeOK'
  BY DEF TenantInv, TenantTypeOK, Accept
<1>2. OwnerLostOnlyToCrossing' /\ NoneBefore' /\ NeverAccepted'
  BY DEF TenantInv, OwnerLostOnlyToCrossing, NoneBefore, NeverAccepted, Accept, Owners
<1>3. RemovesOthers'
  BY DEF TenantInv, RemovesOthers, Spares, Accept, TenantTypeOK
<1> QED  BY <1>1, <1>2, <1>3 DEF TenantInv

(* So do the commits that take a job and change neither a role nor the     *)
(* status of an invitation to ACCEPTED.                                    *)
LEMMA TakeKeepsInv ==
  ASSUME TenantInv, NEW r \in TenantRequests, NEW kind, Take(r, kind),
         UNCHANGED <<tenCreated, tenRole, tenCrossed>>, NeverAccepted',
         tenInvite' \in [Invitations -> [Users ->
           [status : {"none", "pending", "expired", "accepted", "revoked"},
            role : Roles \cup {"none"}]]]
  PROVE  TenantInv'
<1>1. TenantTypeOK'
  BY DEF TenantInv, TenantTypeOK, Take, Tasks
<1>2. OwnerLostOnlyToCrossing' /\ NoneBefore'
  BY DEF TenantInv, OwnerLostOnlyToCrossing, NoneBefore, Owners
<1>3. RemovesOthers'
  BY DEF TenantInv, RemovesOthers, Spares, Take, NoTask, TenantTypeOK
<1> QED  BY <1>1, <1>2, <1>3 DEF TenantInv

(* Every step of a request preserves the invariant.                        *)
LEMMA ChecksKeepInv ==
  ASSUME TenantInv, NEW r \in TenantRequests, NEW u \in Users
  PROVE  /\ CreateOrganization(r, u) => TenantInv'
         /\ \A i \in Invitations :
              AcceptInvitation(r, i, u) \/ RevokeInvitation(r, i, u) => TenantInv'
         /\ \A actor \in Users : RemoveMember(r, actor, u) => TenantInv'
         /\ \A actor \in Users, role \in Roles :
              Invite(r, actor, u, role) \/ ChangeMemberRole(r, actor, u, role) => TenantInv'
<1>1. CreateOrganization(r, u) => TenantInv'
  <2>1. [kind |-> "create", user |-> u] \in Tasks
    BY DEF Tasks
  <2> QED  BY <2>1, AcceptKeepsInv DEF CreateOrganization
<1>2. ASSUME NEW i \in Invitations, AcceptInvitation(r, i, u) \/ RevokeInvitation(r, i, u)
      PROVE  TenantInv'
  <2>1. \A k \in {"accept", "revoke"} :
          [kind |-> k, user |-> u, invitation |-> i] \in Tasks
    BY DEF Tasks
  <2> QED  BY <1>2, <2>1, AcceptKeepsInv DEF AcceptInvitation, RevokeInvitation
<1>3. ASSUME NEW actor \in Users, RemoveMember(r, actor, u)
      PROVE  TenantInv'
  <2> DEFINE job == [kind |-> "remove", user |-> u, others |-> Owners \ {u}]
  <2>1. job \in Tasks
    BY DEF Tasks, Owners
  <2>2. tenCreated
    BY <1>3 DEF RemoveMember, TenantInv, NoneBefore
  <2>3. Spares(job)
    BY <1>3, <2>2, OwnerSpared DEF RemoveMember, Spares
  <2>4. Accept(r, job)
    BY <1>3 DEF RemoveMember
  <2> HIDE DEF job
  <2> QED  BY <2>1, <2>3, <2>4, AcceptKeepsInv
<1>4. ASSUME NEW actor \in Users, NEW role \in Roles,
             Invite(r, actor, u, role) \/ ChangeMemberRole(r, actor, u, role)
      PROVE  TenantInv'
  <2>1. \A k \in {"invite", "role"} : [kind |-> k, user |-> u, role |-> role] \in Tasks
    BY DEF Tasks
  <2> QED  BY <1>4, <2>1, AcceptKeepsInv DEF Invite, ChangeMemberRole
<1> QED  BY <1>1, <1>2, <1>3, <1>4

LEMMA CommitsKeepInv ==
  ASSUME TenantInv, NEW r \in TenantRequests,
         \/ CommitCreate(r) \/ CommitInvite(r) \/ CommitAccept(r) \/ CommitRevoke(r)
         \/ CommitRole(r) \/ CommitRemove(r)
  PROVE  TenantInv'
<1> USE DEF TenantInv
<1>0. tenReq[r] \in Tasks
  BY DEF TenantTypeOK
<1>1. CASE CommitCreate(r)
  <2> DEFINE u == tenReq[r].user
  <2>1. u \in Users
    BY <1>0, <1>1, TaskShapes DEF CommitCreate, Take
  <2>2. TenantTypeOK'
    BY <1>1, <2>1 DEF CommitCreate, Take, TenantTypeOK, Tasks, Roles
  <2>3. OwnerLostOnlyToCrossing' /\ NoneBefore'
    <3>1. CASE tenCreated
      BY <1>1, <3>1 DEF CommitCreate, OwnerLostOnlyToCrossing, NoneBefore, Owners
    <3>2. CASE ~tenCreated
      <4>1. tenRole' = [tenRole EXCEPT ![u] = "owner"] /\ tenCreated'
        BY <1>1, <3>2 DEF CommitCreate
      <4>2. Owners' = {u}
        BY <4>1, <3>2, <2>1 DEF NoneBefore, Owners, TenantTypeOK
      <4> QED  BY <4>1, <4>2, <2>1 DEF OwnerLostOnlyToCrossing, NoneBefore
    <3> QED  BY <3>1, <3>2
  <2>4. NeverAccepted' /\ RemovesOthers'
    <3>1. NeverAccepted'
      BY <1>1 DEF CommitCreate, NeverAccepted
    <3>2. ASSUME NEW q \in TenantRequests, tenReq'[q].kind = "remove" PROVE Spares(tenReq[q])'
      <4>1. tenReq'[q] = tenReq[q]
        BY <1>1, <3>2 DEF CommitCreate, Take, NoTask, TenantTypeOK
      <4>2. Spares(tenReq[q])
        BY <3>2, <4>1 DEF RemovesOthers
      <4>3. tenRole' = tenRole /\ tenCreated'
        BY <1>1, <4>2 DEF CommitCreate, Spares
      <4> QED  BY <4>1, <4>2, <4>3 DEF Spares
    <3> QED  BY <3>1, <3>2 DEF RemovesOthers
  <2> QED  BY <2>2, <2>3, <2>4
<1>2. CASE CommitInvite(r)
  <2>1. tenReq[r].user \in Users /\ tenReq[r].role \in Roles
    BY <1>0, <1>2, TaskShapes DEF CommitInvite, Take
  <2>2. PICK i \in Invitations :
          tenInvite' = [tenInvite EXCEPT ![i][tenReq[r].user] =
                          [status |-> "pending", role |-> tenReq[r].role]]
    BY <1>2 DEF CommitInvite
  <2>3. NeverAccepted'
    BY <2>1, <2>2 DEF NeverAccepted, TenantTypeOK
  <2>4. tenInvite' \in [Invitations -> [Users ->
           [status : {"none", "pending", "expired", "accepted", "revoked"},
            role : Roles \cup {"none"}]]]
    BY <2>1, <2>2 DEF TenantTypeOK
  <2> QED  BY <1>2, <2>3, <2>4, TakeKeepsInv DEF CommitInvite
<1>3. CASE CommitAccept(r)
  <2>1. tenReq[r].user \in Users /\ tenReq[r].invitation \in Invitations
    BY <1>0, <1>3, TaskShapes DEF CommitAccept, Take
  <2>2. UNCHANGED <<tenInvite, tenRole, tenCreated>>
    BY <1>3, <2>1 DEF CommitAccept, Persisted, SaveLoaded, NeverAccepted, TenantTypeOK
  <2> QED  BY <1>3, <2>2, TakeKeepsInv DEF CommitAccept, NeverAccepted, TenantTypeOK
<1>4. CASE CommitRevoke(r)
  <2>1. UNCHANGED tenInvite
    BY <1>4, <1>0, TaskShapes DEF CommitRevoke, Take, SaveLoaded, TenantTypeOK
  <2> QED  BY <1>4, <2>1, TakeKeepsInv DEF CommitRevoke, NeverAccepted, TenantTypeOK
<1>5. CASE CommitRole(r)
  <2>1. UNCHANGED tenRole
    BY <1>5, <1>0, TaskShapes DEF CommitRole, Take, SaveLoaded, TenantTypeOK
  <2> QED  BY <1>5, <2>1, TakeKeepsInv DEF CommitRole, NeverAccepted, TenantTypeOK
<1>6. CASE CommitRemove(r)
  <2> DEFINE u == tenReq[r].user
             others == tenReq[r].others
  <2>1. /\ u \in Users /\ tenCreated /\ others \in SUBSET Users
        /\ tenRole[u] = "owner" => others # {} /\ u \notin others
    BY <1>0, <1>6, TaskShapes DEF CommitRemove, Take, RemovesOthers, Spares
  <2>2. /\ tenRole' = [tenRole EXCEPT ![u] = "none"] /\ UNCHANGED <<tenCreated, tenInvite>>
        /\ tenCrossed' = (tenCrossed \/ (tenRole[u] = "owner" /\ ~(others \subseteq Owners)))
    BY <1>6 DEF CommitRemove
  <2>3. Owners' = Owners \ {u}
    BY <2>1, <2>2 DEF Owners, TenantTypeOK
  <2>4. NoneBefore' /\ NeverAccepted'
    BY <2>1, <2>2 DEF NoneBefore, NeverAccepted
  <2>5. TenantTypeOK'
    <3>1. tenCrossed' \in BOOLEAN
      BY <2>2, Zenon DEF TenantTypeOK
    <3> QED  BY <1>6, <2>1, <2>2, <3>1 DEF CommitRemove, Take, TenantTypeOK, Tasks
  <2>6. RemovesOthers'
    <3> SUFFICES ASSUME NEW q \in TenantRequests, tenReq'[q].kind = "remove"
                 PROVE  Spares(tenReq[q])'
      BY DEF RemovesOthers
    <3>1. tenReq'[q] = tenReq[q]
      BY <1>6 DEF CommitRemove, Take, NoTask, TenantTypeOK
    <3>2. tenReq[q].user \in Users /\ Spares(tenReq[q])
      BY <3>1, TaskShapes DEF TenantTypeOK, RemovesOthers
    <3>3. tenRole'[tenReq[q].user] \in {tenRole[tenReq[q].user], "none"}
      BY <2>1, <2>2, <3>2 DEF TenantTypeOK
    <3> QED  BY <2>2, <3>1, <3>2, <3>3 DEF Spares
  <2>7. OwnerLostOnlyToCrossing'
    <3> SUFFICES ASSUME Owners' = {} PROVE tenCrossed'
      BY DEF OwnerLostOnlyToCrossing
    <3>1. CASE Owners = {}
      BY <2>1, <2>2, <3>1 DEF OwnerLostOnlyToCrossing
    <3>2. CASE Owners # {}
      <4>1. tenRole[u] = "owner" /\ Owners = {u}
        BY <2>3, <3>2 DEF Owners
      <4>2. ~(others \subseteq Owners)
        BY <2>1, <4>1
      <4> QED  BY <2>2, <4>1, <4>2
    <3> QED  BY <3>1, <3>2
  <2> QED  BY <2>4, <2>5, <2>6, <2>7
<1> QED  BY <1>1, <1>2, <1>3, <1>4, <1>5, <1>6

(* So does what happens beside the requests.                               *)
LEMMA OthersKeepInv ==
  ASSUME TenantInv, NEW u \in Users,
         \/ \E i \in Invitations : ExpireInvitation(i, u)
         \/ \E role \in Roles : ImportMember(u, role)
  PROVE  TenantInv'
<1> USE DEF TenantInv
<1>1. ASSUME NEW i \in Invitations, ExpireInvitation(i, u)
      PROVE  TenantInv'
  <2>1. TenantTypeOK'
    <3>1. PICK one : one = [tenInvite[i][u] EXCEPT !.status = "expired"]
      OBVIOUS
    <3>2. one \in [status : {"none", "pending", "expired", "accepted", "revoked"},
                   role : Roles \cup {"none"}]
      BY <3>1 DEF TenantTypeOK
    <3>3. PICK all : all = [tenInvite[i] EXCEPT ![u] = one]
      OBVIOUS
    <3>4. all \in [Users -> [status : {"none", "pending", "expired", "accepted", "revoked"},
                             role : Roles \cup {"none"}]]
      BY <3>2, <3>3 DEF TenantTypeOK
    <3>5. tenInvite' = [tenInvite EXCEPT ![i] = all]
      BY <1>1, <3>1, <3>3 DEF ExpireInvitation, TenantTypeOK
    <3> QED  BY <1>1, <3>4, <3>5 DEF ExpireInvitation, TenantTypeOK
  <2>2. NeverAccepted'
    BY <1>1 DEF ExpireInvitation, NeverAccepted, TenantTypeOK
  <2>3. OwnerLostOnlyToCrossing' /\ NoneBefore' /\ RemovesOthers'
    BY <1>1 DEF ExpireInvitation, OwnerLostOnlyToCrossing, NoneBefore, RemovesOthers, Spares,
                Owners
  <2> QED  BY <2>1, <2>2, <2>3
<1>2. ASSUME NEW role \in Roles, ImportMember(u, role)
      PROVE  TenantInv'
  <2>1. TenantTypeOK'
    BY <1>2 DEF ImportMember, TenantTypeOK
  <2>2. Owners \subseteq Owners' /\ UNCHANGED <<tenCreated, tenInvite, tenReq, tenCrossed>>
    BY <1>2 DEF ImportMember, Owners, TenantTypeOK
  <2>3. OwnerLostOnlyToCrossing' /\ NoneBefore' /\ NeverAccepted'
    <3>1. OwnerLostOnlyToCrossing'
      BY <2>2 DEF OwnerLostOnlyToCrossing
    <3> QED  BY <1>2, <2>2, <3>1 DEF ImportMember, NoneBefore, NeverAccepted
  <2>4. RemovesOthers'
    <3> SUFFICES ASSUME NEW q \in TenantRequests, tenReq[q].kind = "remove"
                 PROVE  Spares(tenReq[q])'
      BY <2>2 DEF RemovesOthers
    <3>1. tenReq[q].user \in Users /\ Spares(tenReq[q])
      BY TaskShapes DEF TenantTypeOK, RemovesOthers
    <3>2. tenReq[q] # NoTask
      BY DEF NoTask
    <3>3. tenReq[q].user # u
      BY <1>2, <3>2 DEF ImportMember
    <3>4. tenRole'[tenReq[q].user] = tenRole[tenReq[q].user]
      BY <1>2, <3>1, <3>3 DEF ImportMember, TenantTypeOK
    <3> QED  BY <2>2, <3>1, <3>4 DEF Spares
  <2> QED  BY <2>1, <2>3, <2>4
<1> QED  BY <1>1, <1>2

LEMMA TenantStepInv == TenantInv /\ [TenantNext]_tenVars => TenantInv'
<1> SUFFICES ASSUME TenantInv, [TenantNext]_tenVars PROVE TenantInv'
  OBVIOUS
<1>1. CASE UNCHANGED tenVars
  BY <1>1 DEF tenVars, TenantInv, TenantTypeOK, OwnerLostOnlyToCrossing, NoneBefore,
              NeverAccepted, RemovesOthers, Spares, Owners
<1>2. CASE TenantNext
  BY <1>2, ChecksKeepInv, CommitsKeepInv, OthersKeepInv DEF TenantNext
<1> QED  BY <1>1, <1>2

(* For any number of users, owners, requests in progress and invitations,  *)
(* while a row that was loaded is never overwritten: the organization      *)
(* loses its last owner only to removals that cross.                       *)
THEOREM TenantOwnerKept == TenantSpec => []OwnerLostOnlyToCrossing
<1>1. TenantSpec => []TenantInv
  BY TenantInitInv, TenantStepInv, PTL DEF TenantSpec
<1>2. TenantInv => OwnerLostOnlyToCrossing
  BY DEF TenantInv
<1> QED  BY <1>1, <1>2, PTL

(* The variables of the tenant model keep their types.                     *)
THEOREM TenantTyped == TenantSpec => []TenantTypeOK
<1>1. TenantSpec => []TenantInv
  BY TenantInitInv, TenantStepInv, PTL DEF TenantSpec
<1>2. TenantInv => TenantTypeOK
  BY DEF TenantInv
<1> QED  BY <1>1, <1>2, PTL

-----------------------------------------------------------------------------
(* One run for one key: RunRequests. *)

Scheduled == {g \in Gates : requestAt[g] \in {"started", "answered", "done", "orphaned"}}

(* A gate that is idle has asked for nothing.  A run is committed once its *)
(* request is done; a request that found one was refused, and nothing but  *)
(* its answer tells a gate what to watch.  Of two requests that started a  *)
(* workflow, one saw the other's closed.                                   *)
IdleNotAsked == \A g \in Gates : gateAt[g] = "idle" => requestAt[g] = "none"
CommittedDone == \A g \in Gates : keyRuns[g] # "absent" => requestAt[g] = "done"
FindersRefused ==
  \A g \in Gates : /\ found[g] # {} => /\ requestAt[g] = "refused"
                                       /\ watched[g] \in found[g] \cup {"none"}
                   /\ requestAt[g] \in {"none", "received", "looked up"} => watched[g] = "none"
OneAtATime ==
  \A a, b \in Scheduled : a # b => a \in finished[b] \/ b \in finished[a]

GateInv ==
  /\ GateTypeOK /\ found \in [Gates -> SUBSET Gates] /\ finished \in [Gates -> SUBSET Gates]
  /\ IdleNotAsked /\ CommittedDone /\ FindersRefused /\ OneAtATime

LEMMA GateInitInv == GateInit => GateInv
BY DEF GateInit, GateInv, GateTypeOK, IdleNotAsked, CommittedDone, FindersRefused, OneAtATime, Scheduled

(* What a gate is told changes the gate alone.                             *)
LEMMA ToldTyped ==
  ASSUME GateInv, NEW g \in Gates, NEW next \in {"polling"} \cup Exits,
         NEW one \in Gates \cup {"none"}, Told(g, next, one)
  PROVE  /\ gateAt' \in [Gates -> {"idle", "waiting", "polling"} \cup Exits]
         /\ watched' \in [Gates -> Gates \cup {"none"}]
         /\ \A h \in Gates \ {g} : watched'[h] = watched[h]
         /\ watched'[g] \in {watched[g], one}
         /\ \A h \in Gates : gateAt'[h] = "idle" => gateAt[h] = "idle"
BY DEF GateInv, GateTypeOK, Told, Exits

LEMMA VerdictTyped ==
  ASSUME NEW status \in {"absent", "queued", "running"} \cup RunEndings
  PROVE  Verdict(status) \in {"polling"} \cup Exits
BY DEF Verdict, Exits, RunEndings

LEMMA GateAloneKeepsInv ==
  ASSUME GateInv, UNCHANGED <<watched, requestAt, keyRuns, openFlow, found, finished>>,
         gateAt' \in [Gates -> {"idle", "waiting", "polling"} \cup Exits],
         \A h \in Gates : gateAt'[h] = "idle" => gateAt[h] = "idle"
  PROVE  GateInv'
BY DEF GateInv, GateTypeOK, IdleNotAsked, CommittedDone, FindersRefused, OneAtATime, Scheduled

(* The gate's own steps, and a request that gets no further.               *)
LEMMA GatesKeepInv ==
  ASSUME GateInv, NEW g \in Gates,
         Trigger(g) \/ StopsWaiting(g) \/ Poll(g) \/ RefuseStart(g)
  PROVE  GateInv'
<1>0. gateAt \in [Gates -> {"idle", "waiting", "polling"} \cup Exits]
  BY DEF GateInv, GateTypeOK
<1>1. CASE Trigger(g)
  <2>1. /\ gateAt' = [gateAt EXCEPT ![g] = "waiting"]
        /\ requestAt' = [requestAt EXCEPT ![g] = "received"]
        /\ UNCHANGED <<watched, keyRuns, openFlow, found, finished>>
        /\ gateAt[g] = "idle"
    BY <1>1 DEF Trigger
  <2>2. GateTypeOK' /\ (found \in [Gates -> SUBSET Gates])' /\ (finished \in [Gates -> SUBSET Gates])'
    BY <2>1 DEF GateInv, GateTypeOK
  <2>3. requestAt[g] = "none"
    BY <2>1 DEF GateInv, IdleNotAsked
  <2>4. CommittedDone' /\ OneAtATime' /\ IdleNotAsked'
    BY <2>1, <2>3 DEF GateInv, GateTypeOK, CommittedDone, OneAtATime, Scheduled, IdleNotAsked
  <2>5. FindersRefused'
    BY <2>1, <2>3 DEF GateInv, GateTypeOK, FindersRefused
  <2> QED  BY <2>2, <2>4, <2>5 DEF GateInv
<1>2. CASE StopsWaiting(g)
  <2>1. gateAt' \in [Gates -> {"idle", "waiting", "polling"} \cup Exits]
        /\ \A h \in Gates : gateAt'[h] = "idle" => gateAt[h] = "idle"
    BY <1>0, <1>2 DEF StopsWaiting, Exits
  <2> QED  BY <1>2, <2>1, GateAloneKeepsInv DEF StopsWaiting
<1>3. CASE Poll(g)
  <2>1. UNCHANGED <<watched, requestAt, keyRuns, openFlow, found, finished>>
    BY <1>3 DEF Poll
  <2>2. CASE gateAt' = [gateAt EXCEPT ![g] = "crashed"] \/ gateAt' = [gateAt EXCEPT ![g] = "timed out"]
    <3>1. gateAt' \in [Gates -> {"idle", "waiting", "polling"} \cup Exits]
          /\ \A h \in Gates : gateAt'[h] = "idle" => gateAt[h] = "idle"
      BY <1>0, <2>2 DEF Exits
    <3> QED  BY <2>1, <3>1, GateAloneKeepsInv
  <2>3. CASE /\ keyRuns[watched[g]] \in RunEndings
             /\ gateAt' = [gateAt EXCEPT ![g] = Verdict(keyRuns[watched[g]])]
    <3>1. Verdict(keyRuns[watched[g]]) \in {"polling"} \cup Exits
      BY <2>3, VerdictTyped
    <3>2. gateAt' \in [Gates -> {"idle", "waiting", "polling"} \cup Exits]
          /\ \A h \in Gates : gateAt'[h] = "idle" => gateAt[h] = "idle"
      BY <1>0, <2>3, <3>1 DEF Exits
    <3> QED  BY <2>1, <3>2, GateAloneKeepsInv
  <2> QED  BY <1>3, <2>2, <2>3 DEF Poll
<1>4. CASE RefuseStart(g)
  <2>1. "usage error" \in {"polling"} \cup Exits /\ Told(g, "usage error", "none")
        /\ requestAt[g] = "looked up" /\ requestAt' = [requestAt EXCEPT ![g] = "refused"]
        /\ UNCHANGED <<keyRuns, openFlow, found, finished>>
    BY <1>4 DEF RefuseStart, Exits
  <2>2. /\ gateAt' \in [Gates -> {"idle", "waiting", "polling"} \cup Exits]
        /\ watched' \in [Gates -> Gates \cup {"none"}]
        /\ \A h \in Gates \ {g} : watched'[h] = watched[h]
        /\ watched'[g] \in {watched[g], "none"}
        /\ \A h \in Gates : gateAt'[h] = "idle" => gateAt[h] = "idle"
    BY <2>1, ToldTyped
  <2>3. GateTypeOK' /\ (found \in [Gates -> SUBSET Gates])' /\ (finished \in [Gates -> SUBSET Gates])'
    BY <2>1, <2>2 DEF GateInv, GateTypeOK
  <2>4. /\ \A h \in Gates \ {g} : requestAt'[h] = requestAt[h]
        /\ requestAt'[g] = "refused"
    BY <2>1 DEF GateInv, GateTypeOK
  <2>5. CommittedDone' /\ OneAtATime' /\ IdleNotAsked'
    BY ZenonT(30), <2>1, <2>2, <2>4 DEF GateInv, CommittedDone, OneAtATime, Scheduled, IdleNotAsked
  <2>6. FindersRefused'
    BY <2>1, <2>2, <2>4 DEF GateInv, FindersRefused
  <2> QED  BY <2>3, <2>5, <2>6 DEF GateInv
<1> QED  BY <1>1, <1>2, <1>3, <1>4

LEMMA SeveralNotNone ==
  ASSUME NEW S, Cardinality(S) > 1
  PROVE  S # {}
<1>1. S = {} => Cardinality(S) = 0
  BY FS_EmptySet, Zenon
<1> QED  BY <1>1

LEMMA LookUpKeepsInv ==
  ASSUME GateInv, NEW g \in Gates, LookUp(g)
  PROVE  GateInv'
<1> USE DEF GateInv, GateTypeOK
<1>1. /\ requestAt[g] = "received" /\ found' = [found EXCEPT ![g] = RunsOfKey]
      /\ UNCHANGED <<keyRuns, openFlow, finished>> /\ RunsOfKey \subseteq Gates
  BY DEF LookUp, RunsOfKey
<1>2. /\ requestAt' = [requestAt EXCEPT ![g] = IF RunsOfKey = {} THEN "looked up" ELSE "refused"]
      /\ gateAt' \in [Gates -> {"idle", "waiting", "polling"} \cup Exits]
      /\ watched' \in [Gates -> Gates \cup {"none"}]
      /\ \A h \in Gates \ {g} : watched'[h] = watched[h]
      /\ watched'[g] \in RunsOfKey \cup {watched[g], "none"}
      /\ RunsOfKey = {} => watched'[g] = watched[g]
      /\ \A h \in Gates : gateAt'[h] = "idle" => gateAt[h] = "idle"
  <2>1. CASE RunsOfKey = {} /\ requestAt' = [requestAt EXCEPT ![g] = "looked up"]
             /\ UNCHANGED <<gateAt, watched>>
    BY <2>1
  <2>2. ASSUME NEW one \in RunsOfKey, requestAt' = [requestAt EXCEPT ![g] = "refused"],
               Told(g, Verdict(keyRuns[one]), one)
        PROVE  /\ requestAt' = [requestAt EXCEPT ![g] = "refused"] /\ RunsOfKey # {}
               /\ gateAt' \in [Gates -> {"idle", "waiting", "polling"} \cup Exits]
               /\ watched' \in [Gates -> Gates \cup {"none"}]
               /\ \A h \in Gates \ {g} : watched'[h] = watched[h]
               /\ watched'[g] \in {watched[g], one}
               /\ \A h \in Gates : gateAt'[h] = "idle" => gateAt[h] = "idle"
    <3>1. Verdict(keyRuns[one]) \in {"polling"} \cup Exits /\ one \in Gates
      BY <1>1, <2>2, VerdictTyped
    <3> QED  BY <2>2, <3>1, ToldTyped
  <2>3. CASE Cardinality(RunsOfKey) > 1 /\ requestAt' = [requestAt EXCEPT ![g] = "refused"]
             /\ Told(g, "usage error", "none")
    <3>1. "usage error" \in {"polling"} \cup Exits
      BY DEF Exits
    <3>2. RunsOfKey # {}
      BY <2>3, SeveralNotNone, Zenon
    <3> QED  BY <2>3, <3>1, <3>2, ToldTyped
  <2> QED  BY <2>1, <2>2, <2>3 DEF LookUp
<1>3. GateTypeOK' /\ (found \in [Gates -> SUBSET Gates])' /\ (finished \in [Gates -> SUBSET Gates])'
  BY <1>1, <1>2
<1>4. CommittedDone' /\ OneAtATime' /\ IdleNotAsked'
  <2>1. CommittedDone'
    BY <1>1, <1>2 DEF CommittedDone
  <2>2. Scheduled' = Scheduled
    BY <1>1, <1>2 DEF Scheduled
  <2>3. OneAtATime'
    BY <1>1, <2>2 DEF OneAtATime
  <2>4. gateAt[g] # "idle" /\ \A h \in Gates \ {g} : requestAt'[h] = requestAt[h]
    BY <1>1, <1>2 DEF IdleNotAsked
  <2>5. IdleNotAsked'
    BY <1>2, <2>4 DEF IdleNotAsked
  <2> QED  BY <2>1, <2>3, <2>5
<1>5. FindersRefused'
  BY <1>1, <1>2 DEF FindersRefused
<1> QED  BY <1>3, <1>4, <1>5

(* A workflow starts when every other one has closed.                      *)
LEMMA StartKeepsInv ==
  ASSUME GateInv, NEW g \in Gates, StartWorkflow(g)
  PROVE  GateInv'
<1> USE DEF GateInv, GateTypeOK
<1>1. /\ requestAt[g] = "looked up" /\ openFlow = "none" /\ openFlow' = g
      /\ finished' = [finished EXCEPT ![g] = Closed]
      /\ requestAt' = [requestAt EXCEPT ![g] = "started"]
      /\ UNCHANGED <<gateAt, watched, keyRuns, found>>
  BY DEF StartWorkflow, MayStart
<1>2. Closed = Scheduled /\ Scheduled \subseteq Gates /\ g \notin Scheduled
  <2>1. \A h \in Gates : h # openFlow
    BY <1>1, RunRequestsAssumption
  <2>2. Closed = Scheduled
    BY <2>1 DEF Closed, Scheduled
  <2>3. Scheduled \subseteq Gates /\ g \notin Scheduled
    BY <1>1, Zenon DEF Scheduled
  <2> QED  BY <2>2, <2>3
<1>3. Scheduled' = Scheduled \cup {g}
  BY <1>1 DEF Scheduled
<1>4. OneAtATime'
  <2>1. finished'[g] = Scheduled /\ \A h \in Gates \ {g} : finished'[h] = finished[h]
    BY <1>1, <1>2
  <2> SUFFICES ASSUME NEW a \in Scheduled \cup {g}, NEW b \in Scheduled \cup {g}, a # b
               PROVE  a \in finished'[b] \/ b \in finished'[a]
    BY <1>3 DEF OneAtATime
  <2> QED  BY <1>2, <2>1 DEF OneAtATime
<1> QED  BY <1>1, <1>2, <1>4 DEF CommittedDone, FindersRefused, IdleNotAsked

LEMMA RequestsKeepInv ==
  ASSUME GateInv, NEW g \in Gates, RollBack(g) \/ Answer(g) \/ CommitRun(g)
  PROVE  GateInv'
<1>0. /\ requestAt \in [Gates -> {"none", "received", "looked up", "refused", "started",
                                  "answered", "done", "orphaned"}]
      /\ keyRuns \in [Gates -> {"absent", "queued", "running"} \cup RunEndings]
      /\ IdleNotAsked /\ CommittedDone /\ FindersRefused /\ OneAtATime
  BY DEF GateInv, GateTypeOK
<1>1. /\ requestAt[g] \in {"started", "answered"}
      /\ \E at \in {"answered", "done", "orphaned"} : requestAt' = [requestAt EXCEPT ![g] = at]
      /\ keyRuns' = keyRuns \/ (keyRuns' = [keyRuns EXCEPT ![g] = "queued"] /\ requestAt'[g] = "done")
      /\ UNCHANGED <<openFlow, found, finished>>
  <2>1. CASE RollBack(g)
    BY <2>1 DEF RollBack
  <2>2. CASE Answer(g)
    BY <2>2 DEF Answer
  <2>3. CASE CommitRun(g)
    BY <1>0, <2>3 DEF CommitRun
  <2> QED  BY <2>1, <2>2, <2>3
<1>2. /\ gateAt' \in [Gates -> {"idle", "waiting", "polling"} \cup Exits]
      /\ watched' \in [Gates -> Gates \cup {"none"}]
      /\ \A h \in Gates \ {g} : watched'[h] = watched[h]
      /\ \A h \in Gates : gateAt'[h] = "idle" => gateAt[h] = "idle"
  <2>1. {"usage error", "polling"} \subseteq {"polling"} \cup Exits
    BY DEF Exits
  <2> QED  BY <2>1, ToldTyped DEF RollBack, Answer, CommitRun, GateInv, GateTypeOK
<1>3. /\ requestAt' \in [Gates -> {"none", "received", "looked up", "refused", "started",
                                   "answered", "done", "orphaned"}]
      /\ \A h \in Gates \ {g} : requestAt'[h] = requestAt[h]
      /\ requestAt'[g] \in {"answered", "done", "orphaned"}
      /\ keyRuns' \in [Gates -> {"absent", "queued", "running"} \cup RunEndings]
      /\ \A h \in Gates \ {g} : keyRuns'[h] = keyRuns[h]
      /\ keyRuns'[g] = keyRuns[g] \/ requestAt'[g] = "done"
  BY <1>0, <1>1
<1>4. found[g] = {} /\ keyRuns[g] = "absent" /\ gateAt[g] # "idle"
  BY <1>0, <1>1 DEF FindersRefused, CommittedDone, IdleNotAsked
<1>5. Scheduled' = Scheduled
  BY <1>1, <1>3 DEF Scheduled
<1>6. OneAtATime'
  BY <1>0, <1>1, <1>5 DEF OneAtATime
<1>7. CommittedDone' /\ IdleNotAsked'
  <2>1. CommittedDone'
    BY <1>0, <1>3, <1>4 DEF CommittedDone
  <2>2. IdleNotAsked'
    BY <1>0, <1>2, <1>3, <1>4 DEF IdleNotAsked
  <2> QED  BY <2>1, <2>2
<1>8. FindersRefused'
  <2> SUFFICES ASSUME NEW h \in Gates
               PROVE  /\ found[h] # {} => /\ requestAt'[h] = "refused"
                                          /\ watched'[h] \in found[h] \cup {"none"}
                      /\ requestAt'[h] \in {"none", "received", "looked up"}
                           => watched'[h] = "none"
    BY <1>1 DEF FindersRefused
  <2>1. CASE h = g
    BY <1>3, <1>4, <2>1
  <2>2. CASE h # g
    BY <1>0, <1>2, <1>3, <2>2 DEF FindersRefused
  <2> QED  BY <2>1, <2>2
<1> QED  BY <1>1, <1>2, <1>3, <1>6, <1>7, <1>8 DEF GateInv, GateTypeOK

LEMMA FlowsKeepInv ==
  ASSUME GateInv, FlowRuns \/ FlowEnds \/ FlowDies
  PROVE  GateInv'
<1> USE DEF GateInv, GateTypeOK, IdleNotAsked, CommittedDone, FindersRefused, OneAtATime, Scheduled
<1>1. CASE FlowRuns
  BY <1>1 DEF FlowRuns
<1>2. CASE FlowEnds
  <2>1. PICK status \in RunEndings : keyRuns' = [keyRuns EXCEPT ![openFlow] = status]
    BY <1>2 DEF FlowEnds
  <2> QED  BY <1>2, <2>1 DEF FlowEnds
<1>3. CASE FlowDies
  BY <1>3 DEF FlowDies
<1> QED  BY <1>1, <1>2, <1>3

LEMMA GateStepInv == GateInv /\ [GateNext]_gateVars => GateInv'
<1> SUFFICES ASSUME GateInv, [GateNext]_gateVars PROVE GateInv'
  OBVIOUS
<1>1. CASE UNCHANGED gateVars
  BY <1>1 DEF gateVars, GateInv, GateTypeOK, IdleNotAsked, CommittedDone, FindersRefused,
              OneAtATime, Scheduled
<1> QED  BY <1>1, GatesKeepInv, LookUpKeepsInv, StartKeepsInv, RequestsKeepInv, FlowsKeepInv
         DEF GateNext

LEMMA GateAlways == GateSpec => []GateInv
BY GateInitInv, GateStepInv, PTL DEF GateSpec

(* However many invocations use the key, and whatever requests are rolled  *)
(* back, workflows die and gates give up: of two runs with the key one was *)
(* asked for before the other was committed and started after the other's  *)
(* workflow had closed, and a key that names one run answers with it.      *)
THEOREM DuplicatesNeedWindow == GateSpec => []DuplicatesOnlyInWindow
<1>1. GateInv => DuplicatesOnlyInWindow
  <2> SUFFICES ASSUME GateInv PROVE DuplicatesOnlyInWindow
    OBVIOUS
  <2>1. ASSUME NEW a \in RunsOfKey, NEW b \in RunsOfKey, a # b
        PROVE  a \in finished[b] \ found[b] \/ b \in finished[a] \ found[a]
    BY <2>1 DEF GateInv, CommittedDone, FindersRefused, OneAtATime, Scheduled, RunsOfKey
  <2>2. \A g \in Gates : found[g] # {} => watched[g] \in found[g] \cup {"none"}
    BY DEF GateInv, FindersRefused
  <2> QED  BY <2>1, <2>2 DEF DuplicatesOnlyInWindow
<1> QED  BY <1>1, GateAlways, PTL

(* The variables of the gate model keep their types.                       *)
THEOREM GateTyped == GateSpec => []GateTypeOK
<1>1. GateInv => GateTypeOK
  BY DEF GateInv
<1> QED  BY <1>1, GateAlways, PTL

-----------------------------------------------------------------------------
(* The order of the services: ServiceRegistry. *)

(* q lists the members of s, each of them once.                            *)
Lists(q, s) ==
  /\ q \in Seq(Registered) /\ Range(q) = s
  /\ \A i, j \in DOMAIN q : q[i] = q[j] => i = j

LEMMA NamesTyped ==
  /\ Len(Names) \in Nat /\ DOMAIN Names = 1 .. Len(Names) /\ Lists(Names, Registered)
BY ServiceRegistryAssumption, LenProperties DEF Lists, Registered, IsInjective

(* A list is as long as the set it lists.                                  *)
LEMMA ListsLength ==
  ASSUME NEW s, NEW q, Lists(q, s)
  PROVE  /\ Len(q) \in Nat /\ DOMAIN q = 1 .. Len(q) /\ s \subseteq Registered
         /\ IsFiniteSet(s) /\ Cardinality(s) = Len(q)
<1>1. /\ Len(q) \in Nat /\ DOMAIN q = 1 .. Len(q) /\ q \in [1 .. Len(q) -> Registered]
  BY LenProperties DEF Lists
<1>2. s \subseteq Registered /\ q \in [1 .. Len(q) -> s]
  BY <1>1 DEF Lists, Range
<1>3. q \in Surjection(1 .. Len(q), s) /\ q \in Injection(1 .. Len(q), s)
  BY <1>1, <1>2 DEF Lists, Range, Surjection, Injection, IsInjective
<1>4. IsFiniteSet(1 .. Len(q)) /\ Cardinality(1 .. Len(q)) = Len(q)
  <2>1. PICK n \in Nat : n = Len(q)
    BY <1>1
  <2>2. IsFiniteSet(1 .. n) /\ Cardinality(1 .. n) = IF 1 > n THEN 0 ELSE n - 1 + 1
    BY FS_Interval
  <2>3. Cardinality(1 .. n) = n
    BY <2>2
  <2> QED  BY <2>1, <2>2, <2>3
<1>5. IsFiniteSet(s) /\ Cardinality(s) = Cardinality(1 .. Len(q))
  BY <1>3, <1>4, FS_Surjection
<1> QED  BY <1>1, <1>2, <1>4, <1>5

LEMMA RegisteredFinite ==
  IsFiniteSet(Registered) /\ Cardinality(Registered) = Len(Names)
BY NamesTyped, ListsLength

LEMMA AppendLists ==
  ASSUME NEW s, NEW q, Lists(q, s), NEW n \in Registered, n \notin s
  PROVE  Lists(Append(q, n), s \cup {n})
<1> DEFINE r == Append(q, n)
<1>1. Len(q) \in Nat /\ DOMAIN q = 1 .. Len(q) /\ q \in Seq(Registered)
  BY ListsLength DEF Lists
<1>2. /\ r \in Seq(Registered) /\ Len(r) = Len(q) + 1
      /\ \A i \in 1 .. Len(q) : r[i] = q[i]
      /\ r[Len(q) + 1] = n
  BY <1>1, AppendProperties
<1> HIDE DEF r
<1>3. DOMAIN r = 1 .. (Len(q) + 1)
  BY <1>2, LenProperties
<1>4. DOMAIN r = DOMAIN q \cup {Len(q) + 1} /\ Len(q) + 1 \notin DOMAIN q
  BY <1>1, <1>3
<1>5. Range(r) = s \cup {n}
  <2>1. \A i \in DOMAIN q : q[i] \in s
    BY DEF Lists, Range
  <2>2. \A x \in s : \E i \in DOMAIN q : q[i] = x
    BY DEF Lists, Range
  <2> QED  BY <1>1, <1>2, <1>4, <2>1, <2>2 DEF Range
<1>6. ASSUME NEW i \in DOMAIN r, NEW j \in DOMAIN r, r[i] = r[j] PROVE i = j
  <2>1. \A k \in DOMAIN q : r[k] \in s /\ r[k] = q[k]
    BY <1>1, <1>2 DEF Lists, Range
  <2>2. \A k, l \in DOMAIN q : q[k] = q[l] => k = l
    BY DEF Lists
  <2> QED  BY <1>2, <1>4, <1>6, <2>1, <2>2
<1> QED  BY <1>2, <1>5, <1>6 DEF Lists, r

LEMMA ConcatLists ==
  ASSUME NEW s, NEW t, NEW q, NEW r, Lists(q, s), Lists(r, t), s \cap t = {}
  PROVE  Lists(q \o r, s \cup t)
<1> DEFINE c == q \o r
<1>1. /\ Len(q) \in Nat /\ DOMAIN q = 1 .. Len(q) /\ q \in Seq(Registered)
      /\ Len(r) \in Nat /\ DOMAIN r = 1 .. Len(r) /\ r \in Seq(Registered)
  BY ListsLength DEF Lists
<1>2. /\ c \in Seq(Registered) /\ Len(c) = Len(q) + Len(r)
      /\ \A i \in 1 .. Len(q) + Len(r) : c[i] = IF i <= Len(q) THEN q[i] ELSE r[i - Len(q)]
  BY <1>1, ConcatProperties
<1> HIDE DEF c
<1>3. DOMAIN c = 1 .. (Len(q) + Len(r))
  BY <1>2, LenProperties
<1>4. \A i \in DOMAIN c : \/ i \in DOMAIN q /\ c[i] = q[i]
                          \/ i - Len(q) \in DOMAIN r /\ c[i] = r[i - Len(q)]
  BY <1>1, <1>2, <1>3
<1>5. \A i \in DOMAIN q : i \in DOMAIN c /\ c[i] = q[i]
  BY <1>1, <1>2, <1>3
<1>6. \A i \in DOMAIN r : i + Len(q) \in DOMAIN c /\ c[i + Len(q)] = r[i]
  BY <1>1, <1>2, <1>3
<1>7. /\ \A i \in DOMAIN q : q[i] \in s
      /\ \A i \in DOMAIN r : r[i] \in t
      /\ \A x \in s : \E i \in DOMAIN q : q[i] = x
      /\ \A x \in t : \E i \in DOMAIN r : r[i] = x
  BY DEF Lists, Range
<1>8. Range(c) = s \cup t
  <2>1. \A x \in Range(c) : x \in s \cup t
    BY <1>4, <1>7 DEF Range
  <2>2. \A x \in s \cup t : x \in Range(c)
    BY <1>5, <1>6, <1>7 DEF Range
  <2> QED  BY <2>1, <2>2
<1>9. ASSUME NEW i \in DOMAIN c, NEW j \in DOMAIN c, c[i] = c[j] PROVE i = j
  <2>1. /\ \A k, l \in DOMAIN q : q[k] = q[l] => k = l
        /\ \A k, l \in DOMAIN r : r[k] = r[l] => k = l
    BY DEF Lists
  <2>2. CASE i \in DOMAIN q /\ c[i] = q[i] /\ j \in DOMAIN q /\ c[j] = q[j]
    BY <1>9, <2>1, <2>2
  <2>3. CASE /\ i - Len(q) \in DOMAIN r /\ c[i] = r[i - Len(q)]
             /\ j - Len(q) \in DOMAIN r /\ c[j] = r[j - Len(q)]
    <3>1. i - Len(q) = j - Len(q)
      BY <1>9, <2>1, <2>3
    <3> QED  BY <1>1, <1>3, <3>1
  <2> QED  BY <1>4, <1>7, <1>9, <2>2, <2>3
<1> QED  BY <1>2, <1>8, <1>9 DEF Lists, c

LEMMA TailLists ==
  ASSUME NEW s, NEW q, Lists(q, s), q # <<>>
  PROVE  Head(q) \in s /\ Head(q) = q[1] /\ Lists(Tail(q), s \ {Head(q)})
         /\ Len(q) \in Nat \ {0} /\ Len(Tail(q)) = Len(q) - 1
         /\ \A i \in 1 .. Len(Tail(q)) : Tail(q)[i] = q[i + 1]
<1>1. Len(q) \in Nat \ {0} /\ DOMAIN q = 1 .. Len(q) /\ q \in Seq(Registered)
  BY ListsLength, EmptySeq DEF Lists
<1>2. /\ Tail(q) \in Seq(Registered) /\ Len(Tail(q)) = Len(q) - 1
      /\ \A i \in 1 .. Len(Tail(q)) : Tail(q)[i] = q[i + 1]
  BY <1>1, HeadTailProperties
<1>3. DOMAIN Tail(q) = 1 .. (Len(q) - 1) /\ Head(q) = q[1] /\ 1 \in DOMAIN q
  BY <1>1, <1>2, LenProperties
<1>4. \A i \in DOMAIN Tail(q) :
        i + 1 \in DOMAIN q /\ i + 1 # 1 /\ Tail(q)[i] = q[i + 1]
  BY <1>1, <1>2, <1>3
<1>5. \A i \in DOMAIN q : i # 1 => i - 1 \in DOMAIN Tail(q) /\ Tail(q)[i - 1] = q[i]
  BY <1>1, <1>2, <1>3
<1>6. /\ \A i \in DOMAIN q : q[i] \in s
      /\ \A x \in s : \E i \in DOMAIN q : q[i] = x
      /\ \A k, l \in DOMAIN q : q[k] = q[l] => k = l
  BY DEF Lists, Range
<1>7. Range(Tail(q)) = s \ {Head(q)}
  <2>1. \A x \in Range(Tail(q)) : x \in s \ {Head(q)}
    BY <1>3, <1>4, <1>6 DEF Range
  <2>2. ASSUME NEW x \in s \ {Head(q)} PROVE x \in Range(Tail(q))
    <3>1. PICK i \in DOMAIN q : q[i] = x
      BY <1>6
    <3>2. i - 1 \in DOMAIN Tail(q) /\ Tail(q)[i - 1] = x
      BY <1>3, <1>5, <3>1
    <3> QED  BY <3>2 DEF Range
  <2> QED  BY <2>1, <2>2
<1>8. ASSUME NEW i \in DOMAIN Tail(q), NEW j \in DOMAIN Tail(q), Tail(q)[i] = Tail(q)[j]
      PROVE  i = j
  <2>1. i + 1 = j + 1
    BY <1>4, <1>6, <1>8
  <2> QED  BY <1>1, <1>3, <2>1
<1> QED  BY <1>1, <1>2, <1>3, <1>6, <1>7, <1>8 DEF Lists

(* The recursion behind InOrder.                                           *)
UpTo(names) ==
  CHOOSE f : f = [i \in 0 .. Len(Names) |->
                    IF i = 0 THEN <<>>
                    ELSE IF Names[i] \in names THEN Append(f[i - 1], Names[i]) ELSE f[i - 1]]

LEMMA UpToDefined ==
  ASSUME NEW names
  PROVE  /\ InOrder(names) = UpTo(names)[Len(Names)] /\ UpTo(names)[0] = <<>>
         /\ \A i \in 1 .. Len(Names) :
              UpTo(names)[i] = IF Names[i] \in names THEN Append(UpTo(names)[i - 1], Names[i])
                               ELSE UpTo(names)[i - 1]
<1> DEFINE S == Seq(Registered)
           step == [i \in 1 .. Len(Names) |-> [q \in S |->
                      IF Names[i] \in names THEN Append(q, Names[i]) ELSE q]]
           Def(f) == [i \in 0 .. Len(Names) |->
                        IF i = 0 THEN <<>>
                        ELSE IF Names[i] \in names THEN Append(f[i - 1], Names[i]) ELSE f[i - 1]]
<1>1. /\ Len(Names) \in Nat /\ <<>> \in S
      /\ \A i \in 1 .. Len(Names) : Names[i] \in Registered
  BY NamesTyped, EmptySeq DEF Lists, Range, Registered
<1>2. step \in [1 .. Len(Names) -> [S -> S]]
  <2>1. ASSUME NEW i \in 1 .. Len(Names), NEW q \in S PROVE Append(q, Names[i]) \in S
    BY <1>1, AppendProperties
  <2> QED  BY <2>1
<1>3. PICK f \in [0 .. Len(Names) -> S] :
        f[0] = <<>> /\ \A i \in 1 .. Len(Names) : f[i] = step[i][f[i - 1]]
  <2> HIDE DEF step, S
  <2>1. Recursion(Len(Names), S, <<>>, step)
    BY <1>1, <1>2, IntervalRecursion
  <2> QED  BY <2>1 DEF Recursion
<1>4. f = Def(f)
  <2>1. ASSUME NEW i \in 0 .. Len(Names)
        PROVE  f[i] = IF i = 0 THEN <<>>
                      ELSE IF Names[i] \in names THEN Append(f[i - 1], Names[i]) ELSE f[i - 1]
    <3>1. CASE i = 0
      BY <3>1, <1>3
    <3>2. CASE i # 0
      <4>1. i \in 1 .. Len(Names) /\ i - 1 \in 0 .. Len(Names)
        BY <1>1, <3>2
      <4>2. f[i - 1] \in S /\ f[i] = step[i][f[i - 1]]
        BY <1>3, <4>1
      <4> QED  BY <3>2, <4>1, <4>2
    <3> QED  BY <3>1, <3>2
  <2>2. f = [i \in 0 .. Len(Names) |-> f[i]]
    OBVIOUS
  <2> QED  BY <2>1, <2>2, Zenon
<1>5. UpTo(names) = Def(UpTo(names))
  <2>1. UpTo(names) = CHOOSE g : g = Def(g)
    BY DEF UpTo
  <2> HIDE DEF Def
  <2> QED  BY <1>4, <2>1
<1>6. InOrder(names) = UpTo(names)[Len(Names)]
  BY DEF InOrder, UpTo
<1>7. 0 \in 0 .. Len(Names) /\ \A i \in 1 .. Len(Names) : i \in 0 .. Len(Names) /\ i # 0
  BY <1>1
<1> QED  BY <1>5, <1>6, <1>7

(* InOrder lists the registered ones among the names it is given.          *)
LEMMA ListedInOrder ==
  ASSUME NEW names
  PROVE  Lists(InOrder(names), names \cap Registered)
<1> DEFINE Before(i) == names \cap {Names[k] : k \in 1 .. i}
           S == {i \in 0 .. Len(Names) : Lists(UpTo(names)[i], Before(i))}
<1>1. /\ Len(Names) \in Nat /\ DOMAIN Names = 1 .. Len(Names)
      /\ \A i \in 1 .. Len(Names) : Names[i] \in Registered
      /\ \A i, j \in 1 .. Len(Names) : Names[i] = Names[j] => i = j
      /\ Registered = {Names[k] : k \in 1 .. Len(Names)}
  BY NamesTyped DEF Lists, Range, Registered
<1>2. 0 \in S
  <2>1. 0 \in 0 .. Len(Names) /\ UpTo(names)[0] = <<>> /\ Before(0) = {}
    BY <1>1, UpToDefined
  <2>2. Lists(<<>>, {})
    BY EmptySeq DEF Lists, Range
  <2> QED  BY <2>1, <2>2
<1>3. ASSUME NEW i \in 1 .. Len(Names), i - 1 \in S PROVE i \in S
  <2>1. /\ i \in 0 .. Len(Names) /\ Lists(UpTo(names)[i - 1], Before(i - 1))
        /\ UpTo(names)[i] = IF Names[i] \in names THEN Append(UpTo(names)[i - 1], Names[i])
                            ELSE UpTo(names)[i - 1]
    BY <1>1, <1>3, UpToDefined
  <2>2. \A k \in 1 .. i : k \in 1 .. (i - 1) \/ k = i
    BY <1>1
  <2>3. \A k \in 1 .. (i - 1) : k \in 1 .. i /\ k \in 1 .. Len(Names) /\ k # i
    BY <1>1
  <2>4. {Names[k] : k \in 1 .. i} = {Names[k] : k \in 1 .. (i - 1)} \cup {Names[i]}
    BY <1>1, <2>2, <2>3
  <2>5. Names[i] \notin {Names[k] : k \in 1 .. (i - 1)}
    BY <1>1, <2>3
  <2>6. Lists(UpTo(names)[i], Before(i))
    <3>1. CASE Names[i] \in names
      <4>1. Before(i) = Before(i - 1) \cup {Names[i]} /\ Names[i] \notin Before(i - 1)
        BY <2>4, <2>5, <3>1
      <4> HIDE DEF Before
      <4> QED  BY <1>1, <2>1, <3>1, <4>1, AppendLists
    <3>2. CASE Names[i] \notin names
      <4>1. Before(i) = Before(i - 1)
        BY <2>4, <3>2
      <4> QED  BY <2>1, <3>2, <4>1
    <3> QED  BY <3>1, <3>2
  <2> QED  BY <2>1, <2>6
<1>4. Len(Names) \in S
  <2> HIDE DEF S
  <2>1. \A i \in 0 .. Len(Names) : i \in S
    BY <1>1, <1>2, <1>3, IntervalBySuccessor
  <2> QED  BY <1>1, <2>1
<1> QED  BY <1>1, <1>4, UpToDefined

(* How far the search has come: a service is in the order or in the queue, *)
(* once and in one of them, exactly if what it depends on is in the order; *)
(* and what one in the order depends on stands before it.                  *)
Search == [order : Seq(Registered), queue : Seq(Registered)]
Needs(g, n) == g[n] \cap Registered

Sound(g, p) ==
  /\ p \in Search
  /\ Lists(p.order, Range(p.order)) /\ Lists(p.queue, Range(p.queue))
  /\ Range(p.order) \cap Range(p.queue) = {}
  /\ \A n \in Registered :
       n \in Range(p.order) \cup Range(p.queue) <=> Needs(g, n) \subseteq Range(p.order)
  /\ \A i \in DOMAIN p.order : Needs(g, p.order[i]) \subseteq {p.order[j] : j \in 1 .. (i - 1)}

LEMMA CountsAll ==
  ASSUME NEW g, NEW n \in Registered, NEW s \in SUBSET Registered
  PROVE  /\ InDegree(g, n) = 0 <=> Needs(g, n) = {}
         /\ Cardinality(g[n] \cap s) = InDegree(g, n) <=> Needs(g, n) \subseteq s
<1>1. IsFiniteSet(Needs(g, n)) /\ g[n] \cap s \in SUBSET Needs(g, n)
  BY RegisteredFinite, FS_Subset DEF Needs
<1>2. Cardinality(Needs(g, n)) = Cardinality(g[n] \cap s) => Needs(g, n) = g[n] \cap s
  BY <1>1, FS_Subset
<1>3. Cardinality(Needs(g, n)) = 0 <=> Needs(g, n) = {}
  BY <1>1, FS_EmptySet
<1>4. InDegree(g, n) = Cardinality(Needs(g, n))
  BY DEF InDegree, Needs
<1>5. Needs(g, n) \subseteq s => g[n] \cap s = Needs(g, n)
  BY DEF Needs
<1> QED  BY <1>2, <1>3, <1>4, <1>5 DEF Needs

LEMMA SearchBegins ==
  ASSUME NEW g
  PROVE  Sound(g, [order |-> <<>>, queue |-> InOrder({n \in Registered : InDegree(g, n) = 0})])
<1> DEFINE free == {n \in Registered : InDegree(g, n) = 0}
           p == [order |-> <<>>, queue |-> InOrder(free)]
<1>1. Lists(InOrder(free), free)
  <2>1. free \cap Registered = free
    OBVIOUS
  <2> HIDE DEF free
  <2> QED  BY <2>1, ListedInOrder
<1>2. free = {n \in Registered : Needs(g, n) = {}}
  <2>1. \A n \in Registered : InDegree(g, n) = 0 <=> Needs(g, n) = {}
    BY CountsAll
  <2> QED  BY <2>1
<1> HIDE DEF free
<1>3. Lists(<<>>, {}) /\ Range(<<>>) = {} /\ DOMAIN <<>> = {}
  BY EmptySeq DEF Lists, Range
<1>4. p.order = <<>> /\ p.queue = InOrder(free) /\ Range(p.queue) = free /\ p \in Search
  BY <1>1, <1>3 DEF Lists, Search
<1> HIDE DEF p
<1>5. Lists(p.order, Range(p.order)) /\ Lists(p.queue, Range(p.queue))
  BY <1>1, <1>3, <1>4
<1>6. \A n \in Registered : n \in Range(p.order) \cup Range(p.queue) <=> Needs(g, n) \subseteq Range(p.order)
  BY <1>2, <1>3, <1>4
<1>7. Sound(g, p)
  BY <1>3, <1>4, <1>5, <1>6 DEF Sound
<1> QED  BY <1>7 DEF p, free

LEMMA ReleasedListed ==
  ASSUME NEW g, NEW q \in Seq(Registered), q # <<>>
  PROVE  LET last == q[Len(q)]
             s == {n \in Registered : last \in g[n] /\ Needs(g, n) \subseteq Range(q)}
         IN  Lists(ReleasedBy(g, q), s)
<1> DEFINE released == {n \in Registered :
                          /\ q[Len(q)] \in g[n]
                          /\ Cardinality(g[n] \cap Range(q)) = InDegree(g, n)}
           s == {n \in Registered : q[Len(q)] \in g[n] /\ Needs(g, n) \subseteq Range(q)}
<1>1. Range(q) \in SUBSET Registered
  BY LenProperties DEF Range
<1>2. \A n \in Registered :
        Cardinality(g[n] \cap Range(q)) = InDegree(g, n) <=> Needs(g, n) \subseteq Range(q)
  BY <1>1, CountsAll
<1>3. released = s /\ released \cap Registered = released
  BY <1>2
<1>4. ReleasedBy(g, q) = InOrder(released)
  BY DEF ReleasedBy
<1> HIDE DEF released
<1>5. Lists(InOrder(released), released \cap Registered)
  BY ListedInOrder
<1> QED  BY <1>3, <1>4, <1>5

LEMMA PlaceNextTyped ==
  ASSUME NEW g, NEW p \in Search
  PROVE  PlaceNext(g, p) \in Search
<1>1. p.order \in Seq(Registered) /\ p.queue \in Seq(Registered)
  BY DEF Search
<1>2. CASE p.queue = <<>>
  BY <1>2 DEF PlaceNext
<1>3. CASE p.queue # <<>>
  <2> DEFINE order == Append(p.order, Head(p.queue))
  <2>1. Head(p.queue) \in Registered /\ Tail(p.queue) \in Seq(Registered)
    BY <1>1, <1>3, HeadTailProperties
  <2>2. order \in Seq(Registered) /\ order # <<>>
    BY <1>1, <2>1, AppendProperties
  <2>3. ReleasedBy(g, order) \in Seq(Registered)
    <3> HIDE DEF order
    <3> QED  BY <2>2, ReleasedListed DEF Lists
  <2>4. Tail(p.queue) \o ReleasedBy(g, order) \in Seq(Registered)
    <3> HIDE DEF order
    <3> QED  BY <2>1, <2>3, ConcatProperties
  <2> QED  BY <1>3, <2>2, <2>4 DEF PlaceNext, Search
<1> QED  BY <1>2, <1>3

(* Placing the first of the queue keeps the search sound, and places one   *)
(* more service.                                                           *)
LEMMA PlacingKeepsSound ==
  ASSUME NEW g, NEW p, Sound(g, p), p.queue # <<>>
  PROVE  Sound(g, PlaceNext(g, p)) /\ Len(PlaceNext(g, p).order) = Len(p.order) + 1
<1> DEFINE h == Head(p.queue)
           placed == Range(p.order)
           waiting == Range(p.queue)
           order == Append(p.order, h)
           released == {n \in Registered : h \in g[n] /\ Needs(g, n) \subseteq placed \cup {h}}
           next == PlaceNext(g, p)
<1>1. /\ Lists(p.order, placed) /\ Lists(p.queue, waiting) /\ placed \cap waiting = {}
      /\ \A n \in Registered : n \in placed \cup waiting <=> Needs(g, n) \subseteq placed
      /\ \A i \in DOMAIN p.order : Needs(g, p.order[i]) \subseteq {p.order[j] : j \in 1 .. (i - 1)}
  BY DEF Sound
<1>2. h \in waiting /\ h \notin placed /\ Lists(Tail(p.queue), waiting \ {h})
      /\ h \in Registered
  <2>1. waiting \subseteq Registered
    BY <1>1, ListsLength
  <2> HIDE DEF waiting, placed
  <2> QED  BY <1>1, <2>1, TailLists
<1>3. Lists(order, placed \cup {h}) /\ Range(order) = placed \cup {h}
  <2> HIDE DEF h, placed, waiting
  <2> QED  BY <1>1, <1>2, AppendLists DEF Lists
<1>4. /\ Len(p.order) \in Nat /\ DOMAIN p.order = 1 .. Len(p.order)
      /\ order \in Seq(Registered) /\ order # <<>> /\ Len(order) = Len(p.order) + 1
      /\ \A i \in 1 .. Len(p.order) : order[i] = p.order[i]
      /\ order[Len(p.order) + 1] = h
      /\ DOMAIN order = 1 .. (Len(p.order) + 1)
  <2>1. Len(p.order) \in Nat /\ DOMAIN p.order = 1 .. Len(p.order) /\ p.order \in Seq(Registered)
    BY <1>1, ListsLength DEF Lists
  <2>2. /\ order \in Seq(Registered) /\ order # <<>> /\ Len(order) = Len(p.order) + 1
        /\ \A i \in 1 .. Len(p.order) : order[i] = p.order[i]
        /\ order[Len(p.order) + 1] = h
    <3> HIDE DEF h
    <3> QED  BY <1>2, <2>1, AppendProperties
  <2> HIDE DEF order
  <2>3. DOMAIN order = 1 .. Len(order)
    BY <2>2, LenProperties
  <2> QED  BY <2>1, <2>2, <2>3
<1>5. Lists(ReleasedBy(g, order), released)
  <2> HIDE DEF order, h, placed
  <2>1. order[Len(order)] = h /\ Range(order) = placed \cup {h}
    BY <1>3, <1>4
  <2>2. Lists(ReleasedBy(g, order),
              {n \in Registered : order[Len(order)] \in g[n] /\ Needs(g, n) \subseteq Range(order)})
    BY <1>4, ReleasedListed
  <2> QED  BY <2>1, <2>2
<1>6. released \cap (placed \cup waiting) = {}
  <2>1. ASSUME NEW n \in released, n \in placed \cup waiting PROVE FALSE
    BY <1>1, <1>2, <2>1 DEF Needs
  <2> QED  BY <2>1
<1> DEFINE queue == Tail(p.queue) \o ReleasedBy(g, order)
<1>7. Lists(queue, (waiting \ {h}) \cup released)
  <2>1. (waiting \ {h}) \cap released = {}
    BY <1>6
  <2> HIDE DEF released, waiting, h, placed, order
  <2> QED  BY <1>2, <1>5, <2>1, ConcatLists
<1>8. next = [order |-> order, queue |-> queue]
  BY DEF PlaceNext
<1> HIDE DEF next, order, queue
<1>9. /\ next.order = order /\ next.queue = queue
      /\ Range(next.order) = placed \cup {h}
      /\ Range(next.queue) = (waiting \ {h}) \cup released
  BY <1>3, <1>7, <1>8 DEF Lists
<1>10. next \in Search
  BY <1>4, <1>7, <1>8 DEF Search, Lists
<1>11. Range(next.order) \cap Range(next.queue) = {}
  <2> HIDE DEF h, placed, waiting
  <2> QED  BY <1>1, <1>2, <1>6, <1>9
<1>12. ASSUME NEW n \in Registered
       PROVE  n \in Range(next.order) \cup Range(next.queue)
                <=> Needs(g, n) \subseteq Range(next.order)
  <2>1. n \in Range(next.order) \cup Range(next.queue)
          <=> n \in placed \cup waiting \cup released
    <3> HIDE DEF released, h, placed, waiting
    <3> QED  BY <1>2, <1>9
  <2>2. n \in placed \cup waiting => Needs(g, n) \subseteq placed \cup {h}
    <3> HIDE DEF h, placed, waiting
    <3> QED  BY <1>1
  <2>3. n \in released => Needs(g, n) \subseteq placed \cup {h}
    OBVIOUS
  <2>4. Needs(g, n) \subseteq placed \cup {h} => n \in placed \cup waiting \cup released
    <3>1. CASE h \in g[n]
      BY <3>1
    <3>2. CASE h \notin g[n]
      <4>1. Needs(g, n) \subseteq placed \cup {h} => Needs(g, n) \subseteq placed
        BY <3>2 DEF Needs
      <4> HIDE DEF h, placed, waiting, released
      <4> QED  BY <1>1, <4>1
    <3> QED  BY <3>1, <3>2
  <2> HIDE DEF released, h, placed, waiting
  <2> QED  BY <1>9, <2>1, <2>2, <2>3, <2>4
<1>13. ASSUME NEW i \in DOMAIN next.order
       PROVE  Needs(g, next.order[i]) \subseteq {next.order[j] : j \in 1 .. (i - 1)}
  <2> HIDE DEF h
  <2>1. i \in 1 .. (Len(p.order) + 1) /\ next.order = order
    BY <1>4, <1>9
  <2>2. \A j \in 1 .. (i - 1) : j \in 1 .. Len(p.order) /\ order[j] = p.order[j]
    BY <1>4, <2>1
  <2>3. {order[j] : j \in 1 .. (i - 1)} = {p.order[j] : j \in 1 .. (i - 1)}
    BY <2>2
  <2>4. CASE i = Len(p.order) + 1
    <3>1. placed = {p.order[j] : j \in 1 .. (i - 1)}
      BY <1>4, <2>4 DEF Range
    <3>2. Needs(g, h) \subseteq placed
      BY <1>1, <1>2
    <3>3. order[i] = h
      BY <1>4, <2>4
    <3> QED  BY <2>1, <2>3, <3>1, <3>2, <3>3, Zenon
  <2>5. CASE i # Len(p.order) + 1
    <3>1. i \in DOMAIN p.order /\ order[i] = p.order[i]
      BY <1>4, <2>1, <2>5
    <3>2. Needs(g, p.order[i]) \subseteq {p.order[j] : j \in 1 .. (i - 1)}
      BY <1>1, <3>1
    <3> QED  BY <2>1, <2>3, <3>1, <3>2, Zenon
  <2> QED  BY <2>4, <2>5
<1>14. Lists(next.order, Range(next.order)) /\ Lists(next.queue, Range(next.queue))
  BY <1>3, <1>7, <1>9
<1> QED  BY <1>4, <1>9, <1>10, <1>11, <1>12, <1>13, <1>14 DEF Sound, next

(* The recursion behind Placing.                                           *)
Turns(g) ==
  CHOOSE f : f = [i \in 0 .. Len(Names) |->
                    IF i = 0
                    THEN [order |-> <<>>, queue |-> InOrder({n \in Registered : InDegree(g, n) = 0})]
                    ELSE PlaceNext(g, f[i - 1])]

LEMMA TurnsDefined ==
  ASSUME NEW g
  PROVE  /\ Placing(g) = Turns(g)[Len(Names)]
         /\ Turns(g)[0] = [order |-> <<>>, queue |-> InOrder({n \in Registered : InDegree(g, n) = 0})]
         /\ \A i \in 1 .. Len(Names) : Turns(g)[i] = PlaceNext(g, Turns(g)[i - 1])
<1> DEFINE base == [order |-> <<>>, queue |-> InOrder({n \in Registered : InDegree(g, n) = 0})]
           step == [i \in 1 .. Len(Names) |-> [p \in Search |-> PlaceNext(g, p)]]
           Def(f) == [i \in 0 .. Len(Names) |-> IF i = 0 THEN base ELSE PlaceNext(g, f[i - 1])]
<1>1. Len(Names) \in Nat /\ base \in Search
  <2>1. Sound(g, base)
    BY SearchBegins
  <2> HIDE DEF base
  <2> QED  BY <2>1, NamesTyped DEF Sound
<1>2. step \in [1 .. Len(Names) -> [Search -> Search]]
  BY PlaceNextTyped
<1>3. PICK f \in [0 .. Len(Names) -> Search] :
        f[0] = base /\ \A i \in 1 .. Len(Names) : f[i] = step[i][f[i - 1]]
  <2> HIDE DEF step, base
  <2>1. Recursion(Len(Names), Search, base, step)
    BY <1>1, <1>2, IntervalRecursion
  <2> QED  BY <2>1 DEF Recursion
<1> HIDE DEF base
<1>4. f = Def(f)
  <2>1. ASSUME NEW i \in 0 .. Len(Names)
        PROVE  f[i] = IF i = 0 THEN base ELSE PlaceNext(g, f[i - 1])
    <3>1. CASE i = 0
      BY <3>1, <1>3
    <3>2. CASE i # 0
      <4>1. i \in 1 .. Len(Names) /\ i - 1 \in 0 .. Len(Names)
        BY <1>1, <3>2
      <4>2. f[i - 1] \in Search /\ f[i] = step[i][f[i - 1]]
        BY <1>3, <4>1
      <4> QED  BY <3>2, <4>1, <4>2
    <3> QED  BY <3>1, <3>2
  <2>2. f = [i \in 0 .. Len(Names) |-> f[i]]
    OBVIOUS
  <2> QED  BY <2>1, <2>2, Zenon
<1>5. Turns(g) = Def(Turns(g))
  <2>1. Turns(g) = CHOOSE f2 : f2 = Def(f2)
    BY DEF Turns, base
  <2> HIDE DEF Def
  <2> QED  BY <1>4, <2>1
<1>6. Placing(g) = Turns(g)[Len(Names)]
  BY DEF Placing, Turns
<1>7. 0 \in 0 .. Len(Names) /\ \A i \in 1 .. Len(Names) : i \in 0 .. Len(Names) /\ i # 0
  BY <1>1
<1>8. Turns(g)[0] = base /\ \A i \in 1 .. Len(Names) : Turns(g)[i] = PlaceNext(g, Turns(g)[i - 1])
  BY <1>5, <1>7
<1> QED  BY <1>6, <1>8 DEF base

(* The search ends with an empty queue.                                    *)
LEMMA PlacingSound ==
  ASSUME NEW g
  PROVE  Sound(g, Placing(g)) /\ Placing(g).queue = <<>>
<1> DEFINE Reached(p, i) == Sound(g, p) /\ (p.queue = <<>> \/ Len(p.order) = i)
           S == {i \in 0 .. Len(Names) : Reached(Turns(g)[i], i)}
<1>1. Len(Names) \in Nat
  BY NamesTyped
<1>2. 0 \in S
  <2>1. Sound(g, Turns(g)[0]) /\ Turns(g)[0].order = <<>>
    <3> DEFINE base == [order |-> <<>>, queue |-> InOrder({n \in Registered : InDegree(g, n) = 0})]
    <3>1. Sound(g, base) /\ Turns(g)[0] = base /\ base.order = <<>>
      BY SearchBegins, TurnsDefined
    <3> HIDE DEF base
    <3> QED  BY <3>1
  <2>2. Len(<<>>) = 0
    BY EmptySeq
  <2> QED  BY <1>1, <2>1, <2>2
<1>3. ASSUME NEW i \in 1 .. Len(Names), i - 1 \in S PROVE i \in S
  <2> DEFINE p == Turns(g)[i - 1]
  <2>1. /\ i \in 0 .. Len(Names) /\ Turns(g)[i] = PlaceNext(g, p)
        /\ Sound(g, p) /\ (p.queue = <<>> \/ Len(p.order) = i - 1)
    <3>1. Reached(p, i - 1)
      BY <1>3
    <3>2. i \in 0 .. Len(Names)
      BY <1>1
    <3>3. Turns(g)[i] = PlaceNext(g, p)
      BY TurnsDefined, Zenon
    <3> QED  BY <3>1, <3>2, <3>3
  <2> HIDE DEF p
  <2>2. CASE p.queue = <<>>
    <3>1. PlaceNext(g, p) = p
      BY <2>2 DEF PlaceNext
    <3> QED  BY <2>1, <2>2, <3>1
  <2>3. CASE p.queue # <<>>
    <3>1. Sound(g, PlaceNext(g, p)) /\ Len(PlaceNext(g, p).order) = Len(p.order) + 1
      BY <2>1, <2>3, PlacingKeepsSound
    <3>2. Len(PlaceNext(g, p).order) = i
      BY <1>1, <2>1, <2>3, <3>1
    <3> QED  BY <2>1, <3>1, <3>2
  <2> QED  BY <2>2, <2>3
<1>4. Len(Names) \in S
  <2> HIDE DEF S
  <2>1. \A i \in 0 .. Len(Names) : i \in S
    BY <1>1, <1>2, <1>3, IntervalBySuccessor
  <2> QED  BY <1>1, <2>1
<1>5. Sound(g, Placing(g))
      /\ (Placing(g).queue = <<>> \/ Len(Placing(g).order) = Len(Names))
  BY <1>4, TurnsDefined
<1> DEFINE q == Placing(g)
<1> HIDE DEF q
<1>6. q.queue = <<>>
  <2> SUFFICES ASSUME q.queue # <<>> PROVE FALSE
    OBVIOUS
  <2>1. /\ Lists(q.order, Range(q.order)) /\ Lists(q.queue, Range(q.queue))
        /\ Range(q.order) \cap Range(q.queue) = {} /\ Len(q.order) = Len(Names)
    BY <1>5 DEF Sound, q
  <2>2. Head(q.queue) \in Range(q.queue) /\ Range(q.queue) \subseteq Registered
    BY <2>1, ListsLength, TailLists
  <2>3. Range(q.order) \in SUBSET Registered /\ Cardinality(Range(q.order)) = Cardinality(Registered)
    BY <2>1, ListsLength, RegisteredFinite
  <2>4. Range(q.order) = Registered
    BY <2>3, RegisteredFinite, FS_Subset
  <2> QED  BY <2>1, <2>2, <2>4
<1> QED  BY <1>5, <1>6 DEF q

(* The order is refused exactly for a graph with a cycle; otherwise it     *)
(* lists every service behind what it depends on.                          *)
LEMMA StartOrderResolves ==
  ASSUME NEW g
  PROVE  /\ Circular(g) <=> Cyclic(g)
         /\ ~Circular(g) => /\ Lists(StartOrder(g), Registered) /\ Len(StartOrder(g)) = Len(Names)
                            /\ \A i \in 1 .. Len(Names) :
                                 Needs(g, StartOrder(g)[i]) \subseteq {StartOrder(g)[j] : j \in 1 .. (i - 1)}
<1> DEFINE q == StartOrder(g)
           placed == Range(q)
<1>1. /\ Lists(q, placed)
      /\ \A n \in Registered : n \in placed <=> Needs(g, n) \subseteq placed
      /\ \A i \in DOMAIN q : Needs(g, q[i]) \subseteq {q[j] : j \in 1 .. (i - 1)}
  <2>1. Sound(g, Placing(g)) /\ Placing(g).queue = <<>>
    BY PlacingSound
  <2>2. Range(Placing(g).queue) = {}
    BY <2>1 DEF Range
  <2> QED  BY <2>1, <2>2 DEF Sound, StartOrder
<1> HIDE DEF q
<1>2. /\ Len(q) \in Nat /\ DOMAIN q = 1 .. Len(q) /\ placed \subseteq Registered
      /\ Cardinality(placed) = Len(q)
  BY <1>1, ListsLength
<1>3. Circular(g) <=> placed # Registered
  <2>1. Circular(g) <=> Len(q) # Len(Names)
    BY DEF Circular, q
  <2>2. Cardinality(placed) = Cardinality(Registered) => placed = Registered
    BY <1>2, RegisteredFinite, FS_Subset
  <2> QED  BY <1>2, <2>1, <2>2, RegisteredFinite
<1>4. ASSUME placed # Registered PROVE Cyclic(g)
  <2> DEFINE s == Registered \ placed
  <2>1. s \in SUBSET Registered /\ s # {}
    BY <1>2, <1>4
  <2>2. \A n \in s : g[n] \cap s # {}
    <3> HIDE DEF placed
    <3> QED  BY <1>1 DEF Needs
  <2> HIDE DEF s
  <2> QED  BY <2>1, <2>2 DEF Cyclic
<1>5. ASSUME placed = Registered PROVE ~Cyclic(g)
  <2> SUFFICES ASSUME NEW s \in SUBSET Registered, s # {}, \A n \in s : g[n] \cap s # {}
               PROVE  FALSE
    BY DEF Cyclic
  <2> DEFINE T == {i \in DOMAIN q : q[i] \in s}
  <2>1. T \in SUBSET Nat /\ T # {}
    <3>1. PICK x \in s : TRUE
      OBVIOUS
    <3>2. PICK i \in DOMAIN q : q[i] = x
      BY <1>5, <3>1 DEF Range
    <3> QED  BY <1>2, <3>1, <3>2
  <2>2. PICK i \in T : \A j \in T : i <= j
    <3> HIDE DEF T
    <3> QED  BY <2>1, LeastNatural
  <2>3. PICK x \in g[q[i]] : x \in s
    OBVIOUS
  <2>4. x \in Needs(g, q[i])
    BY <2>3 DEF Needs
  <2>5. PICK j \in 1 .. (i - 1) : q[j] = x
    BY <1>1, <2>4
  <2>6. j \in T /\ j < i /\ ~(i <= j)
    BY <1>2, <2>3, <2>5
  <2> QED  BY <2>2, <2>6
<1>6. placed = Registered => Len(q) = Len(Names)
  BY <1>2, RegisteredFinite
<1> QED  BY <1>1, <1>2, <1>3, <1>4, <1>5, <1>6 DEF q

LEMMA ReverseLists ==
  ASSUME NEW s, NEW q, Lists(q, s)
  PROVE  /\ Lists(Reverse(q), s) /\ Len(Reverse(q)) = Len(q)
         /\ \A i \in 1 .. Len(q) : Reverse(q)[i] = q[(Len(q) - i) + 1]
<1>1. /\ Len(q) \in Nat /\ DOMAIN q = 1 .. Len(q) /\ q \in [1 .. Len(q) -> Registered]
      /\ \A k, l \in DOMAIN q : q[k] = q[l] => k = l
      /\ s = {q[i] : i \in 1 .. Len(q)}
  BY ListsLength, LenProperties DEF Lists, Range
<1> DEFINE r == Reverse(q)
<1>2. /\ DOMAIN r = 1 .. Len(q) /\ r \in [1 .. Len(q) -> Registered]
      /\ \A i \in 1 .. Len(q) : r[i] = q[(Len(q) - i) + 1] /\ (Len(q) - i) + 1 \in 1 .. Len(q)
  BY <1>1 DEF Reverse
<1> HIDE DEF r
<1>3. r \in Seq(Registered)
  BY <1>1, <1>2, SeqDef
<1>4. Len(r) = Len(q)
  BY <1>1, <1>2, <1>3, LenProperties
<1>5. Range(r) = s
  <2>1. \A x \in Range(r) : x \in s
    BY <1>1, <1>2 DEF Range
  <2>2. ASSUME NEW i \in 1 .. Len(q) PROVE q[i] \in Range(r)
    <3>1. (Len(q) - i) + 1 \in 1 .. Len(q) /\ (Len(q) - ((Len(q) - i) + 1)) + 1 = i
      BY <1>1
    <3> QED  BY <1>2, <3>1 DEF Range
  <2> QED  BY <1>1, <2>1, <2>2
<1>6. ASSUME NEW i \in DOMAIN r, NEW j \in DOMAIN r, r[i] = r[j] PROVE i = j
  <2>1. (Len(q) - i) + 1 = (Len(q) - j) + 1
    BY <1>1, <1>2, <1>6
  <2> QED  BY <1>1, <1>2, <2>1
<1> QED  BY <1>2, <1>3, <1>4, <1>5, <1>6 DEF Lists, r

(* The registry has gone through q up to what regOrder holds.              *)
Gone(q) == Len(q) - Len(regOrder)
Through(q) ==
  /\ Len(regOrder) <= Len(q)
  /\ \A i \in 1 .. Len(regOrder) : regOrder[i] = q[Gone(q) + i]
  /\ regTried = {q[i] : i \in 1 .. Gone(q)}

RegInv ==
  /\ RegTypeOK
  /\ regPhase = "refused" => Circular(regGraph)
  /\ regPhase \notin {"registered", "refused"} => ~Circular(regGraph)
  /\ regPhase = "registered" => regTried = {}
  /\ regPhase = "starting" => Through(StartOrder(regGraph))
  /\ regPhase = "stopping" => Through(Reverse(StartOrder(regGraph)))
  /\ regPhase \in {"started", "stopped"} => regTried = Registered

LEMMA ThroughBegins ==
  ASSUME NEW q, Lists(q, Registered), regOrder' = q, regTried' = {}
  PROVE  Through(q)'
<1>1. Len(q) \in Nat
  BY ListsLength
<1>2. Gone(q)' = 0 /\ \A i \in 1 .. Len(q) : 0 + i = i
  BY <1>1 DEF Gone
<1> QED  BY <1>1, <1>2 DEF Through

LEMMA ThroughNext ==
  ASSUME NEW q, Lists(q, Registered), Through(q), regOrder \in Seq(Registered), regOrder # <<>>,
         regOrder' = Tail(regOrder), regTried' = regTried \cup {Head(regOrder)}
  PROVE  Through(q)' /\ Tail(regOrder) \in Seq(Registered) /\ Head(regOrder) \in Registered
<1>1. /\ Len(q) \in Nat /\ Len(regOrder) \in Nat \ {0} /\ Len(regOrder) <= Len(q)
      /\ Head(regOrder) \in Registered
      /\ Tail(regOrder) \in Seq(Registered) /\ Len(Tail(regOrder)) = Len(regOrder) - 1
      /\ \A i \in 1 .. Len(Tail(regOrder)) : Tail(regOrder)[i] = regOrder[i + 1]
      /\ Head(regOrder) = regOrder[1]
  BY ListsLength, EmptySeq, HeadTailProperties DEF Through
<1>2. Gone(q) \in Nat /\ Gone(q)' = Gone(q) + 1
  BY <1>1 DEF Gone
<1>3. Head(regOrder) = q[Gone(q) + 1]
  BY <1>1 DEF Through
<1>4. \A i \in 1 .. Len(regOrder') : regOrder'[i] = q[Gone(q)' + i]
  <2> SUFFICES ASSUME NEW i \in 1 .. (Len(regOrder) - 1)
               PROVE  Tail(regOrder)[i] = q[Gone(q) + 1 + i]
    BY <1>1, <1>2
  <2>1. i + 1 \in 1 .. Len(regOrder) /\ Gone(q) + (i + 1) = Gone(q) + 1 + i
    BY <1>1, <1>2
  <2>2. Tail(regOrder)[i] = regOrder[i + 1]
    BY <1>1
  <2>3. regOrder[i + 1] = q[Gone(q) + (i + 1)]
    BY <2>1 DEF Through
  <2> QED  BY <2>1, <2>2, <2>3
<1>5. regTried' = {q[i] : i \in 1 .. Gone(q)'}
  <2>1. 1 .. (Gone(q) + 1) = 1 .. Gone(q) \cup {Gone(q) + 1}
    BY <1>2
  <2>2. regTried = {q[i] : i \in 1 .. Gone(q)}
    BY DEF Through
  <2>3. {q[i] : i \in 1 .. Gone(q) \cup {Gone(q) + 1}} = {q[i] : i \in 1 .. Gone(q)} \cup {q[Gone(q) + 1]}
    OBVIOUS
  <2> QED  BY <1>2, <1>3, <2>1, <2>2, <2>3
<1>6. Len(regOrder') <= Len(q)
  BY <1>1
<1>7. Through(q)'
  BY <1>4, <1>5, <1>6 DEF Through
<1> QED  BY <1>1, <1>7

LEMMA ThroughEnds ==
  ASSUME NEW q, Lists(q, Registered), Through(q), regOrder = <<>>
  PROVE  regTried = Registered
<1>1. Len(q) \in Nat /\ DOMAIN q = 1 .. Len(q) /\ Range(q) = Registered /\ Len(<<>>) = 0
  BY ListsLength, EmptySeq DEF Lists
<1>2. Gone(q) = Len(q)
  BY <1>1 DEF Gone
<1> QED  BY <1>1, <1>2 DEF Through, Range

LEMMA RegInitInv == RegInit => RegInv
<1> SUFFICES ASSUME RegInit PROVE RegInv
  OBVIOUS
<1>1. DOMAIN regGraph = Registered /\ <<>> \in Seq(Registered) /\ 0 \in 0 .. MaxRegFaults
  BY ServiceRegistryAssumption, EmptySeq DEF RegInit
<1> QED  BY <1>1 DEF RegInit, RegInv, RegTypeOK

(* The orders of start and stop of a graph that was not refused.           *)
LEMMA BothOrders ==
  ASSUME NEW g, ~Circular(g)
  PROVE  Lists(StartOrder(g), Registered) /\ Lists(Reverse(StartOrder(g)), Registered)
BY StartOrderResolves, ReverseLists

LEMMA RegBeginsInv ==
  ASSUME RegInv, StartAll \/ StopAll
  PROVE  RegInv'
<1> USE DEF RegInv, RegTypeOK
<1>1. CASE StartAll /\ Circular(regGraph)
  BY <1>1 DEF StartAll
<1>2. CASE StartAll /\ ~Circular(regGraph)
  <2>1. /\ regPhase' = "starting" /\ regOrder' = StartOrder(regGraph) /\ regTried' = {}
        /\ UNCHANGED <<regGraph, regUp, regHealthy, regFaults>>
    BY <1>2 DEF StartAll
  <2>2. PICK q : q = StartOrder(regGraph)
    OBVIOUS
  <2>3. Lists(q, Registered)
    BY <1>2, <2>2, BothOrders
  <2>4. Through(q)' /\ regOrder' \in Seq(Registered)
    BY <2>1, <2>2, <2>3, ThroughBegins DEF Lists
  <2>5. Through(StartOrder(regGraph))'
    BY <2>1, <2>2, <2>4
  <2> QED  BY <1>2, <2>1, <2>4, <2>5
<1>3. CASE StopAll
  <2>1. /\ regPhase = "started" /\ regPhase' = "stopping"
        /\ regOrder' = Reverse(StartOrder(regGraph)) /\ regTried' = {}
        /\ UNCHANGED <<regGraph, regUp, regHealthy, regFaults>> /\ ~Circular(regGraph)
    BY <1>3 DEF StopAll
  <2>2. PICK q : q = Reverse(StartOrder(regGraph))
    OBVIOUS
  <2>3. Lists(q, Registered)
    BY <2>1, <2>2, BothOrders
  <2>4. Through(q)' /\ regOrder' \in Seq(Registered)
    BY <2>1, <2>2, <2>3, ThroughBegins DEF Lists
  <2>5. Through(Reverse(StartOrder(regGraph)))'
    BY <2>1, <2>2, <2>4
  <2> QED  BY <2>1, <2>4, <2>5
<1> QED  BY <1>1, <1>2, <1>3

LEMMA RegTurnsInv ==
  ASSUME RegInv, ServiceStarts \/ StartRaises \/ ServiceStops \/ StopRaises
  PROVE  RegInv'
<1> USE DEF RegInv, RegTypeOK
<1>1. /\ regPhase \in {"starting", "stopping"} /\ regOrder # <<>>
      /\ regTried' = regTried \cup {Head(regOrder)} /\ regOrder' = Tail(regOrder)
      /\ UNCHANGED <<regGraph, regPhase>> /\ ~Circular(regGraph)
      /\ regUp' \subseteq regUp \cup {Head(regOrder)}
      /\ regHealthy' \subseteq regHealthy \cup {Head(regOrder)}
  BY DEF ServiceStarts, StartRaises, ServiceStops, StopRaises
<1>2. regFaults' \in 0 .. MaxRegFaults
  BY ServiceRegistryAssumption DEF ServiceStarts, StartRaises, ServiceStops, StopRaises, RegFault
<1>3. PICK q : q = IF regPhase = "starting" THEN StartOrder(regGraph)
                   ELSE Reverse(StartOrder(regGraph))
  OBVIOUS
<1>4. Lists(q, Registered) /\ Through(q)
  BY <1>1, <1>3, BothOrders
<1>5. Through(q)' /\ Tail(regOrder) \in Seq(Registered) /\ Head(regOrder) \in Registered
  BY <1>1, <1>4, ThroughNext
<1>6. /\ regPhase' = "starting" => Through(StartOrder(regGraph))'
      /\ regPhase' = "stopping" => Through(Reverse(StartOrder(regGraph)))'
  BY <1>1, <1>3, <1>5
<1> QED  BY <1>1, <1>2, <1>5, <1>6

LEMMA RegEndsInv ==
  ASSUME RegInv, AllStarted \/ AllStopped
  PROVE  RegInv'
<1> USE DEF RegInv, RegTypeOK
<1>1. /\ regPhase \in {"starting", "stopping"} /\ regOrder = <<>>
      /\ regPhase' \in {"started", "stopped"} /\ ~Circular(regGraph)
      /\ UNCHANGED <<regGraph, regOrder, regUp, regHealthy, regTried, regFaults>>
  BY DEF AllStarted, AllStopped
<1>2. Lists(StartOrder(regGraph), Registered) /\ Lists(Reverse(StartOrder(regGraph)), Registered)
  BY <1>1, BothOrders
<1>3. regTried = Registered
  BY <1>1, <1>2, ThroughEnds
<1> QED  BY <1>1, <1>3

LEMMA RegStepInv == RegInv /\ [RegNext]_regVars => RegInv'
<1> SUFFICES ASSUME RegInv, [RegNext]_regVars PROVE RegInv'
  OBVIOUS
<1>1. CASE UNCHANGED regVars
  BY <1>1 DEF regVars, RegInv, RegTypeOK, Through, Gone
<1> QED  BY <1>1, RegBeginsInv, RegTurnsInv, RegEndsInv DEF RegNext

(* What the invariant says of the order.                                   *)
LEMMA RegInvSound == RegInv => StartOrderSound
<1> SUFFICES ASSUME RegInv PROVE StartOrderSound
  OBVIOUS
<1> DEFINE q == StartOrder(regGraph)
<1>1. ASSUME ~Circular(regGraph)
      PROVE  /\ Lists(q, Registered) /\ Len(q) \in Nat /\ DOMAIN q = 1 .. Len(q)
             /\ \A i \in 1 .. Len(q) :
                  Needs(regGraph, q[i]) \subseteq {q[j] : j \in 1 .. (i - 1)}
  BY <1>1, StartOrderResolves, ListsLength
<1>2. /\ regPhase = "refused" => Cyclic(regGraph)
      /\ regPhase \notin {"registered", "refused"} => ~Cyclic(regGraph)
  BY StartOrderResolves DEF RegInv
<1>3. ASSUME regPhase = "starting", NEW n \in regTried
      PROVE  regGraph[n] \cap Registered \subseteq regTried
  <2>1. ~Circular(regGraph) /\ Through(q) /\ Len(regOrder) \in Nat
    BY <1>3, LenProperties DEF RegInv, RegTypeOK
  <2> HIDE DEF q
  <2>2. Gone(q) \in Nat /\ Gone(q) <= Len(q)
    BY <1>1, <2>1 DEF Gone, Through
  <2>3. PICK i \in 1 .. Gone(q) : n = q[i]
    BY <2>1 DEF Through
  <2>4. Needs(regGraph, q[i]) \subseteq {q[j] : j \in 1 .. (i - 1)}
    BY <1>1, <2>1, <2>2
  <2>5. {q[j] : j \in 1 .. (i - 1)} \subseteq {q[j] : j \in 1 .. Gone(q)}
    BY <2>2
  <2> QED  BY <2>1, <2>3, <2>4, <2>5 DEF Through, Needs
<1>4. ASSUME regPhase = "stopping", NEW n \in Registered, regGraph[n] \cap regTried # {}
      PROVE  n \in regTried
  <2> DEFINE r == Reverse(q)
             m == Len(q)
  <2>1. ~Circular(regGraph) /\ Through(r) /\ Len(regOrder) \in Nat /\ regTried \subseteq Registered
    BY <1>4, LenProperties DEF RegInv, RegTypeOK
  <2>2. /\ Lists(q, Registered) /\ m \in Nat /\ DOMAIN q = 1 .. m
        /\ \A i \in 1 .. m : Needs(regGraph, q[i]) \subseteq {q[j] : j \in 1 .. (i - 1)}
    BY <1>1, <2>1
  <2> HIDE DEF q
  <2>3. Len(r) = m /\ \A i \in 1 .. m : r[i] = q[(m - i) + 1]
    BY <2>2, ReverseLists
  <2> HIDE DEF r, m
  <2>4. Gone(r) \in Nat /\ Gone(r) <= m /\ regTried = {r[i] : i \in 1 .. Gone(r)}
    BY <2>1, <2>2, <2>3 DEF Gone, Through
  <2>5. PICK d \in regGraph[n] : d \in regTried
    BY <1>4
  <2>6. PICK i \in 1 .. Gone(r) : d = r[i]
    BY <2>4, <2>5
  <2>7. PICK b \in 1 .. m : q[b] = n
    BY <2>2 DEF Lists, Range
  <2>8. d \in Needs(regGraph, n)
    BY <2>1, <2>5 DEF Needs
  <2>9. PICK c \in 1 .. (b - 1) : d = q[c]
    BY <2>2, <2>7, <2>8
  <2>10. /\ c \in 1 .. m /\ c < b /\ (m - i) + 1 \in 1 .. m
         /\ (m - b) + 1 \in 1 .. m /\ (m - ((m - b) + 1)) + 1 = b
    BY <2>2, <2>4, <2>6, <2>7, <2>9
  <2>11. c = (m - i) + 1
    <3>1. i \in 1 .. m
      BY <2>2, <2>4
    <3>2. r[i] = q[(m - i) + 1]
      BY <2>3, <3>1
    <3>3. c \in DOMAIN q /\ (m - i) + 1 \in DOMAIN q /\ q[c] = q[(m - i) + 1]
      BY <2>2, <2>6, <2>9, <2>10, <3>2
    <3> QED  BY <2>2, <3>3 DEF Lists
  <2>12. (m - b) + 1 \in 1 .. Gone(r)
    BY <2>2, <2>4, <2>6, <2>7, <2>9, <2>10, <2>11
  <2>13. r[(m - b) + 1] = n
    BY <2>3, <2>7, <2>10
  <2> QED  BY <2>4, <2>12, <2>13
<1>5. regPhase \in {"started", "stopped"} => regTried = Registered
  BY DEF RegInv
<1> QED  BY <1>2, <1>3, <1>4, <1>5 DEF StartOrderSound

(* For any graph of services: it is refused exactly if it has a cycle, and *)
(* otherwise every service is started behind those it depends on and       *)
(* stopped before them, whatever raises.                                   *)
THEOREM StartOrderHeld == RegSpec => []StartOrderSound
BY RegInitInv, RegStepInv, RegInvSound, PTL DEF RegSpec

-----------------------------------------------------------------------------
(* The consumers beside the start and stop of the services: Startup. *)

\* InfrastructureServices registers the bus as a dependent of the database.
BusNeedsDatabase ==
  /\ {"database", "event_bus"} \subseteq Registered
  /\ "database" \in regGraph["event_bus"]

(* What _subscribe has begun to subscribe is in the bus's lists, and only  *)
(* what is in a list has a consumer.                                       *)
ListsGrow ==
  /\ \A i \in 1 .. joined : i <= Len(Plan) => subs[Plan[i].type] # <<>>
  /\ \A t \in EventTypes : task[t] # "none" => subs[t] # <<>>
  /\ \A t \in EventTypes : task[t] = "handle" => nth[t] <= Len(subs[t])

(* The bus runs from its start to its stop, the engine from the boot to    *)
(* the stop of the database.                                               *)
BusRuns ==
  /\ listening => regPhase \in {"starting", "started", "stopping"}
  /\ listening /\ regPhase = "starting" => "event_bus" \in regTried
  /\ listening /\ regPhase = "stopping" => "event_bus" \notin regTried
EngineRuns ==
  /\ regPhase \in {"starting", "started"} => engine = "created"
  /\ regPhase = "stopping" /\ "database" \notin regTried => engine = "created"
ConsumersRun ==
  /\ listening => \A t \in SubscribedTypes : task[t] # "none"
  /\ ~listening => \A t \in EventTypes : task[t] = "none"

BusFunctions ==
  /\ subs \in [EventTypes -> Seq(Subscribers)]
  /\ task \in [EventTypes -> {"none", "new", "read", "handle"}]
  /\ nth \in [EventTypes -> Int] /\ stream \in [EventTypes -> 0 .. MaxPublished]
  /\ delivered \in [EventTypes -> Int]

StartupInv ==
  /\ StartupTypeOK /\ RegInv /\ BusFunctions
  /\ ListsGrow
  /\ ConsumersRun

BusInvariant == BusNeedsDatabase /\ BusRuns /\ EngineRuns

LEMMA PlanTyped ==
  /\ Len(Plan) \in Nat
  /\ \A i \in 1 .. Len(Plan) : Plan[i].type \in EventTypes /\ Plan[i].handler \in Subscribers
<1>1. Plan \in Seq([type : EventTypes, handler : Subscribers])
  BY StartupAssumption
<1>2. Len(Plan) \in Nat /\ Plan \in [1 .. Len(Plan) -> [type : EventTypes, handler : Subscribers]]
  BY <1>1, LenProperties
<1> QED  BY <1>2

LEMMA StartupInitInv == StartupInit => StartupInv
<1> SUFFICES ASSUME StartupInit PROVE StartupInv
  OBVIOUS
<1>1. RegInv /\ RegTypeOK
  BY RegInitInv DEF StartupInit, RegInv
<1>2. <<>> \in Seq(Subscribers) /\ Len(<<>>) = 0 /\ 0 \in 0 .. MaxPublished /\ 0 \in 0 .. Len(Plan) + 1
  BY StartupAssumption, PlanTyped, EmptySeq
<1>3. BusFunctions
  BY <1>2 DEF StartupInit, BusFunctions
<1>4. StartupTypeOK
  <2>1. ASSUME NEW t \in EventTypes
        PROVE  /\ subs[t] \in Seq(Subscribers) /\ task[t] = "none" /\ nth[t] = 1
               /\ Len(subs[t]) = 0 /\ stream[t] = 0 /\ delivered[t] = -1
    BY <1>2 DEF StartupInit
  <2>2. ASSUME NEW t \in EventTypes
        PROVE  /\ nth[t] \in 1 .. Len(subs[t]) + 1
               /\ stream[t] \in 0 .. MaxPublished /\ delivered[t] \in -1 .. stream[t]
    BY <1>2, <2>1
  <2>3. joined \in 0 .. Len(Plan) + 1
    BY <1>2 DEF StartupInit
  <2> QED  BY <1>1, <2>1, <2>2, <2>3 DEF StartupInit, StartupTypeOK
<1>5. ListsGrow /\ ConsumersRun
  BY DEF StartupInit, ListsGrow, ConsumersRun
<1> QED  BY <1>1, <1>3, <1>4, <1>5 DEF StartupInv

(* Every step of the process is one of the registry's or leaves it alone.  *)
LEMMA StartupMovesRegistry == StartupNext => [RegNext]_regVars
BY DEF StartupNext, RegNext, Boot, SubscribeNext, StartDatabase, StartEventBus,
       StartTemporalClient, StartTemporalWorker, Serve, Shutdown, StopTemporalWorker,
       StopTemporalClient, StopEventBus, StopDatabase, Exit, PublishTo, Listen, ReadNext, Handle

(* The steps of the process that leave the event bus alone.                *)
LEMMA ProcessTyped ==
  ASSUME StartupInv, RegTypeOK', UNCHANGED <<joined, busState>>,
         \/ Boot \/ StartDatabase \/ StartTemporalClient \/ StartTemporalWorker \/ Serve
         \/ Shutdown \/ StopTemporalWorker \/ StopTemporalClient \/ StopDatabase \/ Exit
  PROVE  StartupTypeOK'
<1>1. /\ life' \in {"init", "starting", "serving", "aborted", "stopping", "down"}
      /\ engine' \in {"none", "created"} /\ client' \in BOOLEAN
      /\ worker' \in {"none", "created", "running"}
  BY DEF StartupInv, StartupTypeOK, appState, Boot, StartDatabase, StartTemporalClient,
         StartTemporalWorker, Serve, Shutdown, StopTemporalWorker, StopTemporalClient,
         StopDatabase, Exit
<1> QED  BY <1>1 DEF StartupInv, StartupTypeOK, busState

LEMMA ProcessKeepsInv ==
  ASSUME StartupInv, RegTypeOK', RegInv',
         \/ Boot \/ StartDatabase \/ StartTemporalClient \/ StartTemporalWorker \/ Serve
         \/ Shutdown \/ StopTemporalWorker \/ StopTemporalClient \/ StopDatabase \/ Exit
  PROVE  StartupInv'
<1>1. UNCHANGED <<joined, busState>>
  BY DEF Boot, StartDatabase, StartTemporalClient, StartTemporalWorker, Serve, Shutdown,
         StopTemporalWorker, StopTemporalClient, StopDatabase, Exit
<1>2. StartupTypeOK'
  BY <1>1, ProcessTyped
<1> QED  BY <1>1, <1>2 DEF StartupInv, BusFunctions, ListsGrow, ConsumersRun, SubscribedTypes, busState

LEMMA SubscribeKeepsInv ==
  ASSUME StartupInv, RegTypeOK', RegInv', SubscribeNext
  PROVE  StartupInv'
<1>1. /\ joined \in 0 .. Len(Plan) /\ joined' = joined + 1 /\ Len(Plan) \in Nat
      /\ joined > 0 => Plan[joined].type \in EventTypes
      /\ joined < Len(Plan) => /\ Plan[joined + 1].type \in EventTypes
                               /\ Plan[joined + 1].handler \in Subscribers
  BY PlanTyped DEF StartupInv, StartupTypeOK, SubscribeNext
<1>2. UNCHANGED <<life, engine, client, worker, listening, nth, stream, delivered>>
  BY DEF SubscribeNext, appState
<1>3. ASSUME NEW t \in EventTypes
      PROVE  /\ subs'[t] \in Seq(Subscribers) /\ Len(subs'[t]) \in Nat /\ Len(subs[t]) \in Nat
             /\ Len(subs[t]) <= Len(subs'[t]) /\ (subs[t] # <<>> => subs'[t] # <<>>)
  <2>1. subs[t] \in Seq(Subscribers)
    BY DEF StartupInv, StartupTypeOK
  <2>2. CASE subs'[t] = subs[t]
    BY <2>1, <2>2, LenProperties
  <2>3. CASE joined < Len(Plan) /\ subs'[t] = Append(subs[t], Plan[joined + 1].handler)
    <3>1. /\ subs'[t] \in Seq(Subscribers) /\ Len(subs'[t]) = Len(subs[t]) + 1
          /\ Len(subs[t]) \in Nat
      BY <1>1, <2>1, <2>3, AppendProperties, LenProperties
    <3> QED  BY <3>1, EmptySeq
  <2> QED  BY <2>2, <2>3 DEF SubscribeNext, StartupInv, BusFunctions
<1>4. subs' \in [EventTypes -> Seq(Subscribers)]
  BY <1>3 DEF SubscribeNext, StartupInv, BusFunctions
<1>5. joined < Len(Plan) => subs'[Plan[joined + 1].type] # <<>>
  <2> SUFFICES ASSUME joined < Len(Plan) PROVE subs'[Plan[joined + 1].type] # <<>>
    OBVIOUS
  <2> DEFINE t == Plan[joined + 1].type
             s == subs[t]
  <2>1. t \in EventTypes /\ s \in Seq(Subscribers) /\ subs'[t] = Append(s, Plan[joined + 1].handler)
    BY <1>1 DEF SubscribeNext, StartupInv, BusFunctions
  <2> HIDE DEF t, s
  <2>2. Append(s, Plan[joined + 1].handler) # <<>>
    BY <1>1, <2>1, AppendProperties
  <2> QED  BY <2>1, <2>2 DEF t
<1>6. /\ task' \in [EventTypes -> {"none", "new", "read", "handle"}]
      /\ \A t \in EventTypes : (task'[t] = task[t] \/ (listening /\ task[t] = "none" /\ task'[t] = "new"
                                      /\ joined > 0 /\ t = Plan[joined].type))
      /\ joined > 0 /\ listening => task'[Plan[joined].type] # "none"
      /\ ~listening => task' = task
  BY <1>1 DEF SubscribeNext, AfterSubscribe, WithConsumers, StartupInv, BusFunctions
<1>7. ListsGrow'
  <2>1. \A i \in 1 .. joined' : i <= Len(Plan) => subs'[Plan[i].type] # <<>>
    <3> SUFFICES ASSUME NEW i \in 1 .. joined', i <= Len(Plan) PROVE subs'[Plan[i].type] # <<>>
      OBVIOUS
    <3>1. CASE i = joined + 1
      BY <1>1, <1>5, <3>1
    <3>2. CASE i \in 1 .. joined
      BY <1>3, <3>2, PlanTyped DEF StartupInv, ListsGrow
    <3> QED  BY <1>1, <3>1, <3>2
  <2>2. \A t \in EventTypes : task'[t] # "none" => subs'[t] # <<>>
    <3> SUFFICES ASSUME NEW t \in EventTypes, task'[t] # "none" PROVE subs'[t] # <<>>
      OBVIOUS
    <3>1. CASE joined > 0 /\ t = Plan[joined].type
      <4>1. subs[Plan[joined].type] # <<>>
        BY <1>1, <3>1 DEF StartupInv, ListsGrow
      <4> QED  BY <1>3, <3>1, <4>1
    <3>2. CASE task'[t] = task[t]
      BY <1>3, <3>2 DEF StartupInv, ListsGrow
    <3> QED  BY <1>6, <3>1, <3>2
  <2>3. \A t \in EventTypes : task'[t] = "handle" => nth'[t] <= Len(subs'[t])
    <3> SUFFICES ASSUME NEW t \in EventTypes, task'[t] = "handle"
                 PROVE  nth'[t] <= Len(subs'[t])
      OBVIOUS
    <3>1. nth[t] <= Len(subs[t]) /\ nth[t] \in Int
      BY <1>6 DEF StartupInv, ListsGrow, BusFunctions
    <3> QED  BY <1>2, <1>3, <3>1
  <2> QED  BY <2>1, <2>2, <2>3 DEF ListsGrow
<1>8. StartupTypeOK'
  <2>1. joined' \in 0 .. Len(Plan) + 1
    BY <1>1
  <2>2. ASSUME NEW t \in EventTypes
        PROVE  /\ nth'[t] \in 1 .. Len(subs'[t]) + 1 /\ stream'[t] \in 0 .. MaxPublished
               /\ delivered'[t] \in -1 .. stream'[t]
    BY <1>2, <1>3, <2>2 DEF StartupInv, StartupTypeOK
  <2>3. /\ life' \in {"init", "starting", "serving", "aborted", "stopping", "down"}
        /\ engine' \in {"none", "created"} /\ client' \in BOOLEAN
        /\ worker' \in {"none", "created", "running"} /\ listening' \in BOOLEAN
    BY <1>2 DEF StartupInv, StartupTypeOK
  <2> QED  BY <1>3, <1>6, <2>1, <2>2, <2>3 DEF StartupTypeOK
<1>9. ConsumersRun'
  <2>1. SubscribedTypes' = {Plan[i].type : i \in 1 .. joined}
    BY <1>1 DEF SubscribedTypes
  <2>2. ASSUME listening, NEW i \in 1 .. joined PROVE task'[Plan[i].type] # "none"
    <3>1. CASE i = joined
      BY <1>1, <1>6, <2>2, <3>1
    <3>2. CASE i \in 1 .. (joined - 1)
      <4>1. Plan[i].type \in SubscribedTypes /\ Plan[i].type \in EventTypes
        BY <1>1, <3>2, PlanTyped DEF SubscribedTypes
      <4> QED  BY <1>6, <2>2, <4>1 DEF StartupInv, ConsumersRun
    <3> QED  BY <1>1, <3>1, <3>2
  <2> QED  BY <1>2, <1>6, <2>1, <2>2 DEF StartupInv, ConsumersRun
<1>10. BusFunctions'
  BY <1>2, <1>4, <1>6 DEF StartupInv, BusFunctions
<1> QED  BY <1>7, <1>8, <1>9, <1>10 DEF StartupInv

LEMMA BusTurnsKeepInv ==
  ASSUME StartupInv, RegTypeOK', RegInv', StartEventBus \/ StopEventBus
  PROVE  StartupInv'
<1>1. /\ UNCHANGED <<life, engine, client, worker, joined, subs, nth, stream, delivered>>
      /\ listening' \in BOOLEAN
      /\ task' \in [EventTypes -> {"none", "new", "read", "handle"}]
  BY DEF StartEventBus, StopEventBus, WithConsumers, appState, StartupInv, BusFunctions
<1>2. \A t \in EventTypes : task'[t] # "none" =>
        /\ subs[t] # <<>>
        /\ task'[t] = "handle" => task[t] = "handle"
  BY DEF StartEventBus, StopEventBus, WithConsumers, StartupInv, ListsGrow
<1>3. StartupTypeOK'
  BY <1>1 DEF StartupInv, StartupTypeOK
<1>4. ListsGrow' /\ BusFunctions'
  BY <1>1, <1>2 DEF StartupInv, ListsGrow, BusFunctions
<1>5. ConsumersRun'
  <2>1. CASE StartEventBus
    <3>1. listening' /\ \A t \in EventTypes : subs[t] # <<>> => task'[t] # "none"
      BY <2>1 DEF StartEventBus, WithConsumers
    <3>2. ASSUME NEW i \in 1 .. (joined - 1)
          PROVE  Plan[i].type \in EventTypes /\ subs[Plan[i].type] # <<>>
      <4>1. i \in 1 .. joined /\ i \in 1 .. Len(Plan)
        BY PlanTyped DEF StartupInv, StartupTypeOK
      <4> QED  BY <4>1, PlanTyped DEF StartupInv, ListsGrow
    <3> QED  BY <1>1, <3>1, <3>2 DEF ConsumersRun, SubscribedTypes
  <2>2. CASE StopEventBus
    BY <2>2 DEF StopEventBus, ConsumersRun
  <2> QED  BY <2>1, <2>2
<1> QED  BY <1>3, <1>4, <1>5 DEF StartupInv

LEMMA ConsumersKeepInv ==
  ASSUME StartupInv, RegTypeOK', RegInv', NEW t \in EventTypes,
         PublishTo(t) \/ Listen(t) \/ ReadNext(t) \/ Handle(t)
  PROVE  StartupInv'
<1>1. /\ UNCHANGED <<life, engine, client, worker, joined, listening, subs>>
      /\ Len(subs[t]) \in Nat /\ (subs[t] # <<>> => Len(subs[t]) > 0)
      /\ \A u \in EventTypes \ {t} : /\ task'[u] = task[u] /\ nth'[u] = nth[u]
                                     /\ stream'[u] = stream[u] /\ delivered'[u] = delivered[u]
  BY LenProperties, EmptySeq
     DEF PublishTo, Listen, ReadNext, Handle, appState, StartupInv, StartupTypeOK, BusFunctions
<1>2. /\ nth[t] \in 1 .. Len(subs[t]) + 1 /\ stream[t] \in 0 .. MaxPublished
      /\ delivered[t] \in -1 .. stream[t] /\ MaxPublished \in Nat
      /\ task[t] # "none" => subs[t] # <<>>
      /\ task[t] = "handle" => nth[t] <= Len(subs[t])
  BY StartupAssumption DEF StartupInv, StartupTypeOK, ListsGrow
<1>3. /\ task'[t] \in {"none", "new", "read", "handle"}
      /\ task'[t] = "none" <=> task[t] = "none"
      /\ nth'[t] \in 1 .. Len(subs[t]) + 1 /\ stream'[t] \in 0 .. MaxPublished
      /\ delivered'[t] \in -1 .. stream'[t]
      /\ task'[t] = "handle" => nth'[t] <= Len(subs[t])
  <2>1. CASE PublishTo(t)
    BY <1>1, <1>2, <2>1 DEF PublishTo, StartupInv, BusFunctions
  <2>2. CASE Listen(t)
    BY <1>1, <1>2, <2>2 DEF Listen, StartupInv, BusFunctions
  <2>3. CASE ReadNext(t)
    BY <1>1, <1>2, <2>3 DEF ReadNext, StartupInv, BusFunctions
  <2>4. CASE Handle(t)
    BY <1>1, <1>2, <2>4 DEF Handle, StartupInv, BusFunctions
  <2> QED  BY <2>1, <2>2, <2>3, <2>4
<1>4. StartupTypeOK'
  BY <1>1, <1>3 DEF StartupInv, StartupTypeOK
<1>5. ListsGrow'
  BY <1>1, <1>2, <1>3 DEF StartupInv, ListsGrow
<1>6. ConsumersRun'
  <2>1. \A u \in EventTypes : task'[u] = "none" <=> task[u] = "none"
    BY <1>1, <1>3
  <2>2. SubscribedTypes' = SubscribedTypes /\ SubscribedTypes \subseteq EventTypes
    <3>1. \A i \in 1 .. (joined - 1) : i \in 1 .. Len(Plan)
      BY PlanTyped DEF StartupInv, StartupTypeOK
    <3> QED  BY <1>1, <3>1, PlanTyped DEF SubscribedTypes
  <2> QED  BY <1>1, <2>1, <2>2 DEF StartupInv, ConsumersRun
<1>7. BusFunctions'
  <2>1. \A f : (\E a : f = [task EXCEPT ![t] = a]) => f = [task EXCEPT ![t] = f[t]]
    BY DEF StartupInv, BusFunctions
  <2>2. task' = task \/ task' = [task EXCEPT ![t] = task'[t]]
    BY <2>1, Zenon DEF PublishTo, Listen, ReadNext, Handle
  <2>3. \A f : (\E a : f = [nth EXCEPT ![t] = a]) => f = [nth EXCEPT ![t] = f[t]]
    BY DEF StartupInv, BusFunctions
  <2>4. nth' = nth \/ nth' = [nth EXCEPT ![t] = nth'[t]]
    BY <2>3, Zenon DEF PublishTo, Listen, ReadNext, Handle
  <2>5. \A f : (\E a : f = [stream EXCEPT ![t] = a]) => f = [stream EXCEPT ![t] = f[t]]
    BY DEF StartupInv, BusFunctions
  <2>6. stream' = stream \/ stream' = [stream EXCEPT ![t] = stream'[t]]
    BY <2>5, Zenon DEF PublishTo, Listen, ReadNext, Handle
  <2>7. \A f : (\E a : f = [delivered EXCEPT ![t] = a]) => f = [delivered EXCEPT ![t] = f[t]]
    BY DEF StartupInv, BusFunctions
  <2>8. delivered' = delivered \/ delivered' = [delivered EXCEPT ![t] = delivered'[t]]
    BY <2>7, Zenon DEF PublishTo, Listen, ReadNext, Handle
  <2>9. nth'[t] \in Int /\ delivered'[t] \in Int
    BY <1>2, <1>3
  <2>10. task' \in [EventTypes -> {"none", "new", "read", "handle"}] /\ nth' \in [EventTypes -> Int]
    BY <1>3, <2>2, <2>4, <2>9 DEF StartupInv, BusFunctions
  <2>11. stream' \in [EventTypes -> 0 .. MaxPublished] /\ delivered' \in [EventTypes -> Int]
    BY <1>3, <2>6, <2>8, <2>9 DEF StartupInv, BusFunctions
  <2> QED  BY <1>1, <2>10, <2>11 DEF StartupInv, BusFunctions
<1> QED  BY <1>4, <1>5, <1>6, <1>7 DEF StartupInv

LEMMA StartupStepInv == StartupInv /\ [StartupNext]_startupVars => StartupInv'
<1> SUFFICES ASSUME StartupInv, [StartupNext]_startupVars PROVE StartupInv'
  OBVIOUS
<1>1. RegInv' /\ RegTypeOK'
  BY RegStepInv, StartupMovesRegistry DEF StartupInv, RegInv, startupVars
<1>2. CASE UNCHANGED startupVars
  BY <1>1, <1>2 DEF startupVars, appState, busState, StartupInv, StartupTypeOK, BusFunctions,
                    ListsGrow, ConsumersRun, SubscribedTypes
<1>3. CASE StartupNext
  BY <1>1, <1>3, ProcessKeepsInv, SubscribeKeepsInv, BusTurnsKeepInv, ConsumersKeepInv
     DEF StartupNext
<1> QED  BY <1>2, <1>3

LEMMA RegInvSoundNext == RegInv' => StartOrderSound'
BY RegInvSound, PTL

LEMMA BusInitInv == StartupInit /\ BusNeedsDatabase => BusInvariant
BY DEF StartupInit, RegInit, BusInvariant, BusRuns, EngineRuns

LEMMA BusStepInv ==
  ASSUME StartupInv, BusInvariant, [StartupNext]_startupVars
  PROVE  BusInvariant'
<1>1. RegInv' /\ RegInv /\ StartOrderSound /\ StartOrderSound' /\ regGraph' = regGraph
  <2>1. RegInv' /\ RegInv
    BY StartupStepInv DEF StartupInv
  <2>2. [RegNext]_regVars
    BY StartupMovesRegistry DEF startupVars
  <2>3. regGraph' = regGraph
    BY <2>2 DEF RegNext, regVars, StartAll, ServiceStarts, StartRaises, AllStarted, StopAll,
                ServiceStops, StopRaises, AllStopped
  <2> QED  BY <2>1, <2>3, RegInvSound, RegInvSoundNext
<1>2. BusNeedsDatabase' /\ BusNeedsDatabase
  BY <1>1 DEF BusInvariant, BusNeedsDatabase
<1>3. regTried \subseteq Registered /\ regTried' \subseteq Registered
  BY <1>1 DEF RegInv, RegTypeOK
(* The database comes first in a start and last in a stop.                 *)
<1>4. /\ regPhase' = "starting" /\ "event_bus" \in regTried' => "database" \in regTried'
      /\ regPhase' = "stopping" /\ "database" \in regTried' => "event_bus" \in regTried'
  BY <1>1, <1>2, <1>3 DEF StartOrderSound, BusNeedsDatabase
<1>5. BusRuns'
  <2>1. CASE StartEventBus
    BY <2>1 DEF BusRuns, StartEventBus, Turn, ServiceStarts
  <2>2. CASE StopEventBus
    BY <2>2 DEF BusRuns, StopEventBus
  <2>3. CASE listening' = listening /\ regPhase' = regPhase /\ (regTried' = regTried
             \/ (regTried' = regTried \cup {Head(regOrder)} /\ (regPhase = "stopping" => Head(regOrder) # "event_bus")))
    BY <2>3 DEF BusInvariant, BusRuns
  <2>4. CASE Boot \/ Serve \/ Shutdown \/ Exit
    <3>1. listening' = listening /\ ~(regPhase = "registered" /\ listening)
          /\ (regPhase = "starting" /\ listening => "event_bus" \in regTried)
      BY <2>4 DEF BusInvariant, BusRuns, Boot, Serve, Shutdown, Exit, busState
    <3>2. regPhase' \in {"started", "stopped"} => regTried' = Registered
      BY <1>1 DEF StartOrderSound
    <3>3. Exit => ~listening
      <4>1. Exit => regPhase = "stopping" /\ regTried' = regTried /\ regPhase' = "stopped"
        BY DEF Exit, AllStopped
      <4> QED  BY <1>2, <3>2, <4>1 DEF BusInvariant, BusRuns, BusNeedsDatabase
    <3>4. CASE Boot
      BY <3>1, <3>4 DEF BusRuns, Boot, StartAll
    <3>5. CASE Serve
      BY <3>1, <3>5 DEF BusRuns, Serve, AllStarted
    <3>6. CASE Shutdown
      BY <3>1, <3>6 DEF BusRuns, Shutdown, StopAll
    <3>7. CASE Exit
      BY <3>1, <3>3, <3>7 DEF BusRuns
    <3> QED  BY <2>4, <3>4, <3>5, <3>6, <3>7
  <2>5. CASE UNCHANGED startupVars
    BY <2>3, <2>5 DEF startupVars, busState, regVars
  <2>6. CASE SubscribeNext \/ \E t \in EventTypes : PublishTo(t) \/ Listen(t) \/ ReadNext(t) \/ Handle(t)
    BY <2>3, <2>6 DEF SubscribeNext, PublishTo, Listen, ReadNext, Handle, regVars
  <2>7. CASE StartDatabase \/ StartTemporalClient \/ StartTemporalWorker
             \/ StopTemporalWorker \/ StopTemporalClient \/ StopDatabase
    BY <2>3, <2>7 DEF StartDatabase, StartTemporalClient, StartTemporalWorker, StopTemporalWorker,
         StopTemporalClient, StopDatabase, Turn, ServiceStarts, StartRaises, ServiceStops, StopRaises,
         busState
  <2> QED  BY <2>1, <2>2, <2>4, <2>5, <2>6, <2>7 DEF StartupNext
<1>6. EngineRuns'
  <2>1. CASE Boot
    BY <2>1 DEF EngineRuns, Boot, StartAll
  <2>2. CASE StopDatabase
    <3>1. /\ regPhase' = "stopping" /\ Head(regOrder) = "database"
          /\ regTried' = regTried \cup {Head(regOrder)}
      BY <2>2 DEF StopDatabase, Turn, ServiceStops, StopRaises
    <3> QED  BY <3>1 DEF EngineRuns
  <2>3. CASE engine' = engine /\ regPhase' = regPhase /\ regTried \subseteq regTried'
    BY <2>3 DEF BusInvariant, EngineRuns
  <2>4. CASE Serve \/ Shutdown \/ Exit
    BY <2>4 DEF BusInvariant, EngineRuns, Serve, AllStarted, Shutdown, StopAll, Exit, AllStopped
  <2>5. CASE UNCHANGED startupVars
    BY <2>3, <2>5 DEF startupVars, appState, regVars
  <2>6. CASE SubscribeNext \/ \E t \in EventTypes : PublishTo(t) \/ Listen(t) \/ ReadNext(t) \/ Handle(t)
    BY <2>3, <2>6 DEF SubscribeNext, PublishTo, Listen, ReadNext, Handle, regVars, appState
  <2>7. CASE StartDatabase \/ StartEventBus \/ StartTemporalClient \/ StartTemporalWorker
             \/ StopTemporalWorker \/ StopTemporalClient \/ StopEventBus
    BY <2>3, <2>7 DEF StartDatabase, StartEventBus, StartTemporalClient, StartTemporalWorker,
         StopTemporalWorker, StopTemporalClient, StopEventBus, ServiceStarts, StartRaises, ServiceStops,
         StopRaises, appState
  <2> QED  BY <2>1, <2>2, <2>4, <2>5, <2>6, <2>7 DEF StartupNext
<1> QED  BY <1>2, <1>5, <1>6 DEF BusInvariant

LEMMA BusInvMatches == StartupInv /\ BusInvariant => ConsumersMatchSubscriptions
<1> SUFFICES ASSUME StartupInv, BusInvariant PROVE ConsumersMatchSubscriptions
  OBVIOUS
<1>1. StartOrderSound /\ regTried \subseteq Registered
  BY RegInvSound DEF StartupInv, RegInv, RegTypeOK
<1>2. ASSUME listening
      PROVE  /\ engine = "created"
             /\ regPhase = "starting" => "database" \in regTried
             /\ regPhase = "stopping" => "database" \notin regTried
  <2>1. /\ regPhase = "starting" => "database" \in regTried
        /\ regPhase = "stopping" => "database" \notin regTried
    BY <1>1, <1>2 DEF BusInvariant, BusRuns, BusNeedsDatabase, StartOrderSound
  <2> QED  BY <1>2, <2>1 DEF BusInvariant, BusRuns, EngineRuns
<1> QED  BY <1>2 DEF StartupInv, ConsumersRun, ConsumersMatchSubscriptions

(* For any subscriptions and any registry in which the event bus depends   *)
(* on the database: while the bus runs every type subscribed to has its    *)
(* consumer, there is none before or after, and the engine outlives them.  *)
THEOREM ConsumersFollowBus == StartupSpec /\ BusNeedsDatabase => []ConsumersMatchSubscriptions
BY StartupInitInv, StartupStepInv, BusInitInv, BusStepInv, BusInvMatches, PTL DEF StartupSpec

(* Types of the process's variables, for any registry.                     *)
THEOREM StartupTyped == StartupSpec => []StartupTypeOK
<1>1. StartupInv => StartupTypeOK
  BY DEF StartupInv
<1> QED  BY <1>1, StartupInitInv, StartupStepInv, PTL DEF StartupSpec

-----------------------------------------------------------------------------
(* What a later attempt rebuilds: CampaignLoop. *)

Phases == {"exploration", "exploitation"}
Campaigns == [rounds : Seq(CampResults), phase : Phases, stopped : BOOLEAN]
Durables == [1 .. CampRounds -> CampResults \cup {NoResult}]

LEMMA ResultsTyped ==
  /\ NoResult \notin CampResults /\ CampThreshold \in Nat /\ CampRounds \in Nat
  /\ \A r \in CampResults : r.score \in Nat /\ r.failed \in BOOLEAN
BY CampaignLoopAssumption DEF NoResult

LEMMA PhaseTyped ==
  ASSUME NEW s \in Seq(CampResults), NEW p \in Phases
  PROVE  PhaseAfter(s, p) \in Phases
<1>1. Len(s) \in Nat
  BY LenProperties
<1>2. PhaseAfter(s, p) = p \/ PhaseAfter(s, p) = "exploitation" \/ PhaseAfter(s, p) = "exploration"
  BY <1>1 DEF PhaseAfter
<1> QED  BY <1>2 DEF Phases

(* Without failed calls, only the threshold stops a campaign.              *)
LEMMA StopsByThreshold ==
  ASSUME NEW s \in Seq(CampResults), Len(s) > 0, \A i \in 1 .. Len(s) : ~s[i].failed
  PROVE  ShouldStopEarly(s) <=> s[Len(s)].score >= CampThreshold
<1>1. Len(s) \in Nat
  BY LenProperties
<1>2. Len(s) >= 3 => Len(s) \in Len(s) - 2 .. Len(s) /\ Len(s) \in 1 .. Len(s)
  BY <1>1
<1> QED  BY <1>1, <1>2 DEF ShouldStopEarly

LEMMA ReplayMoves ==
  ASSUME NEW c \in Campaigns, NEW r \in CampResults
  PROVE  /\ Replay(c, r) \in Campaigns
         /\ c.stopped => Replay(c, r) = c
         /\ ~c.stopped => /\ Replay(c, r).rounds = Append(c.rounds, r)
                          /\ Replay(c, r).stopped <=> ShouldStopEarly(Append(c.rounds, r))
<1> DEFINE s == Append(c.rounds, r)
<1>1. s \in Seq(CampResults) /\ PhaseAfter(s, c.phase) \in Phases
  BY AppendProperties, PhaseTyped DEF Campaigns
<1>2. CASE c.stopped
  BY <1>2 DEF Replay
<1>3. CASE ~c.stopped /\ ShouldStopEarly(s)
  <2>1. Replay(c, r) = [c EXCEPT !.rounds = s, !.stopped = TRUE]
    BY <1>3 DEF Replay
  <2> HIDE DEF s
  <2> QED  BY <1>1, <1>3, <2>1 DEF Campaigns, s
<1>4. CASE ~c.stopped /\ ~ShouldStopEarly(s)
  <2>1. Replay(c, r) = [c EXCEPT !.rounds = s, !.phase = PhaseAfter(s, c.phase)]
    BY <1>4 DEF Replay
  <2> HIDE DEF s
  <2> QED  BY <1>1, <1>4, <2>1 DEF Campaigns, s
<1> QED  BY <1>2, <1>3, <1>4 DEF Campaigns

(* The recursion behind Replayed.                                          *)
Rebuilt(d) ==
  CHOOSE f : f = [n \in 0 .. CampRounds |->
                    IF n = 0 THEN NewCampaign
                    ELSE IF d[n] = NoResult THEN f[n - 1] ELSE Replay(f[n - 1], d[n])]

LEMMA NewCampaignTyped == NewCampaign \in Campaigns /\ Len(NewCampaign.rounds) = 0
BY EmptySeq DEF NewCampaign, Campaigns, Phases

LEMMA RebuiltDefined ==
  ASSUME NEW d \in Durables
  PROVE  /\ Rebuilt(d)[0] = NewCampaign
         /\ \A n \in 1 .. CampRounds :
              /\ Rebuilt(d)[n - 1] \in Campaigns /\ Rebuilt(d)[n] \in Campaigns
              /\ d[n] = NoResult => Rebuilt(d)[n] = Rebuilt(d)[n - 1]
              /\ d[n] # NoResult => /\ d[n] \in CampResults
                                    /\ Rebuilt(d)[n] = Replay(Rebuilt(d)[n - 1], d[n])
<1> DEFINE Advance(n, c) == IF d[n] = NoResult THEN c ELSE Replay(c, d[n])
           step == [n \in 1 .. CampRounds |-> [c \in Campaigns |-> Advance(n, c)]]
           Def(f) == [n \in 0 .. CampRounds |->
                        IF n = 0 THEN NewCampaign
                        ELSE IF d[n] = NoResult THEN f[n - 1] ELSE Replay(f[n - 1], d[n])]
<1>1. CampRounds \in Nat /\ NewCampaign \in Campaigns
  BY ResultsTyped, NewCampaignTyped
<1>2. step \in [1 .. CampRounds -> [Campaigns -> Campaigns]]
  <2>1. ASSUME NEW n \in 1 .. CampRounds, NEW c \in Campaigns PROVE Advance(n, c) \in Campaigns
    <3>1. d[n] = NoResult \/ d[n] \in CampResults
      BY DEF Durables
    <3> QED  BY <3>1, ReplayMoves
  <2> QED  BY <2>1
<1>3. PICK f \in [0 .. CampRounds -> Campaigns] :
        f[0] = NewCampaign /\ \A n \in 1 .. CampRounds : f[n] = step[n][f[n - 1]]
  <2> HIDE DEF step
  <2>1. Recursion(CampRounds, Campaigns, NewCampaign, step)
    BY <1>1, <1>2, IntervalRecursion
  <2> QED  BY <2>1 DEF Recursion
<1>4. f = Def(f)
  <2>1. ASSUME NEW n \in 0 .. CampRounds
        PROVE  f[n] = IF n = 0 THEN NewCampaign
                      ELSE IF d[n] = NoResult THEN f[n - 1] ELSE Replay(f[n - 1], d[n])
    <3>1. CASE n = 0
      BY <3>1, <1>3
    <3>2. CASE n # 0
      <4>1. n \in 1 .. CampRounds /\ n - 1 \in 0 .. CampRounds
        BY <1>1, <3>2
      <4>2. f[n - 1] \in Campaigns /\ f[n] = step[n][f[n - 1]]
        BY <1>3, <4>1
      <4> QED  BY <3>2, <4>1, <4>2
    <3> QED  BY <3>1, <3>2
  <2>2. f = [n \in 0 .. CampRounds |-> f[n]]
    OBVIOUS
  <2> QED  BY <2>1, <2>2, Zenon
<1>5. Rebuilt(d) = Def(Rebuilt(d))
  <2>1. Rebuilt(d) = CHOOSE f2 : f2 = Def(f2)
    BY DEF Rebuilt
  <2> HIDE DEF Def
  <2> QED  BY <1>4, <2>1
<1>6. 0 \in 0 .. CampRounds /\ \A n \in 1 .. CampRounds : n \in 0 .. CampRounds /\ n # 0
  BY <1>1
<1>7. /\ Rebuilt(d)[0] = NewCampaign
      /\ \A n \in 1 .. CampRounds :
           Rebuilt(d)[n] = IF d[n] = NoResult THEN Rebuilt(d)[n - 1]
                           ELSE Replay(Rebuilt(d)[n - 1], d[n])
  BY <1>5, <1>6
<1>8. \A n \in 1 .. CampRounds : d[n] = NoResult \/ d[n] \in CampResults
  BY DEF Durables
<1> DEFINE S == {n \in 0 .. CampRounds : Rebuilt(d)[n] \in Campaigns}
<1>9. \A n \in 0 .. CampRounds : n \in S
  <2>1. 0 \in S
    BY <1>1, <1>6, <1>7
  <2>2. ASSUME NEW n \in 1 .. CampRounds, n - 1 \in S PROVE n \in S
    <3>1. Rebuilt(d)[n - 1] \in Campaigns
      BY <2>2
    <3>2. d[n] # NoResult => Replay(Rebuilt(d)[n - 1], d[n]) \in Campaigns
      BY <1>8, <3>1, ReplayMoves
    <3>3. Rebuilt(d)[n] \in Campaigns
      BY <1>7, <3>1, <3>2
    <3> QED  BY <1>6, <3>3
  <2> HIDE DEF S
  <2> QED  BY <1>1, <2>1, <2>2, IntervalBySuccessor
<1>10. \A n \in 1 .. CampRounds : Rebuilt(d)[n - 1] \in Campaigns /\ Rebuilt(d)[n] \in Campaigns
  <2>1. \A n \in 1 .. CampRounds : n - 1 \in 0 .. CampRounds
    BY <1>1
  <2> QED  BY <1>6, <1>9, <2>1
<1> QED  BY <1>7, <1>8, <1>10

LEMMA ReplayedIsRebuilt == Replayed = Rebuilt(campDurable)[CampRounds]
BY DEF Replayed, Rebuilt

(* A rebuilt campaign without a gap below its last round.                  *)
Full(d, m) == \A i \in 1 .. m : d[i] # NoResult
StopsAtThreshold(c) ==
  (\A i \in 1 .. Len(c.rounds) : ~c.rounds[i].failed) =>
    (c.stopped <=> Len(c.rounds) > 0 /\ c.rounds[Len(c.rounds)].score >= CampThreshold)
FromPrefix(d, c) ==
  Full(d, Len(c.rounds)) =>
    /\ c = Rebuilt(d)[Len(c.rounds)]
    /\ \A i \in 1 .. Len(c.rounds) : c.rounds[i] = d[i]
Rebuilds(d, n) ==
  LET c == Rebuilt(d)[n] IN
  /\ c \in Campaigns /\ Len(c.rounds) <= n
  /\ \A j \in 0 .. n : Len(Rebuilt(d)[j].rounds) <= Len(c.rounds)
  /\ StopsAtThreshold(c) /\ FromPrefix(d, c)

LEMMA CampaignLength ==
  ASSUME NEW c \in Campaigns
  PROVE  c.rounds \in Seq(CampResults) /\ Len(c.rounds) \in Nat
BY LenProperties DEF Campaigns

(* The next round keeps what stops the campaign.                           *)
LEMMA AppendStops ==
  ASSUME NEW c \in Campaigns, NEW r \in CampResults, NEW b \in Campaigns,
         b.rounds = Append(c.rounds, r), b.stopped <=> ShouldStopEarly(b.rounds)
  PROVE  /\ Len(b.rounds) = Len(c.rounds) + 1 /\ b.rounds[Len(c.rounds) + 1] = r
         /\ \A i \in 1 .. Len(c.rounds) : b.rounds[i] = c.rounds[i]
         /\ StopsAtThreshold(b)
<1>1. /\ Len(b.rounds) = Len(c.rounds) + 1 /\ b.rounds[Len(c.rounds) + 1] = r
      /\ \A i \in 1 .. Len(c.rounds) : b.rounds[i] = c.rounds[i]
      /\ Len(c.rounds) \in Nat /\ b.rounds \in Seq(CampResults)
  BY CampaignLength, AppendProperties
<1>2. ASSUME \A i \in 1 .. Len(b.rounds) : ~b.rounds[i].failed
      PROVE  b.stopped <=> b.rounds[Len(b.rounds)].score >= CampThreshold
  <2>1. b.rounds \in Seq(CampResults) /\ Len(b.rounds) > 0
    BY <1>1
  <2>2. ShouldStopEarly(b.rounds) <=> b.rounds[Len(b.rounds)].score >= CampThreshold
    BY <1>2, <2>1, StopsByThreshold
  <2> QED  BY <2>2
<1>3. StopsAtThreshold(b)
  BY <1>1, <1>2 DEF StopsAtThreshold
<1> QED  BY <1>1, <1>3

LEMMA RebuildsNext ==
  ASSUME NEW d \in Durables, NEW n \in 1 .. CampRounds, Rebuilds(d, n - 1)
  PROVE  Rebuilds(d, n)
<1> DEFINE c == Rebuilt(d)[n - 1]
           b == Rebuilt(d)[n]
           m == Len(c.rounds)
<1>0. CampRounds \in Nat /\ n <= CampRounds
  BY ResultsTyped
<1>1. /\ c \in Campaigns /\ m \in Nat /\ m <= n - 1 /\ n \in Nat /\ b \in Campaigns
      /\ \A j \in 0 .. (n - 1) : Len(Rebuilt(d)[j].rounds) <= m
      /\ StopsAtThreshold(c) /\ FromPrefix(d, c)
  <2>1. c \in Campaigns
    BY DEF Rebuilds
  <2> QED  BY <2>1, ResultsTyped, RebuiltDefined, CampaignLength DEF Rebuilds
<1>2. /\ d[n] = NoResult => b = c
      /\ d[n] # NoResult => d[n] \in CampResults /\ b = Replay(c, d[n])
  BY RebuiltDefined
<1>3. CASE b = c
  <2>1. \A j \in 0 .. n : j \in 0 .. (n - 1) \/ Rebuilt(d)[j] = c
    BY <1>1, <1>3
  <2>2. \A j \in 0 .. n : Len(Rebuilt(d)[j].rounds) <= m
    BY <1>1, <2>1
  <2> HIDE DEF c
  <2>3. b \in Campaigns /\ Len(b.rounds) <= n /\ StopsAtThreshold(b) /\ FromPrefix(d, b)
    BY <1>1, <1>3
  <2> QED  BY <1>3, <2>2, <2>3 DEF Rebuilds
<1>4. CASE d[n] # NoResult /\ ~c.stopped
  <2>1. b.rounds = Append(c.rounds, d[n]) /\ (b.stopped <=> ShouldStopEarly(b.rounds))
    <3>1. d[n] \in CampResults /\ b = Replay(c, d[n])
      BY <1>2, <1>4
    <3>2. /\ Replay(c, d[n]).rounds = Append(c.rounds, d[n])
          /\ Replay(c, d[n]).stopped <=> ShouldStopEarly(Append(c.rounds, d[n]))
      BY <1>1, <1>4, <3>1, ReplayMoves
    <3> HIDE DEF b, c
    <3> QED  BY <3>1, <3>2
  <2>2. /\ Len(b.rounds) = m + 1 /\ b.rounds[m + 1] = d[n] /\ StopsAtThreshold(b)
        /\ \A i \in 1 .. m : b.rounds[i] = c.rounds[i]
    <3>1. d[n] \in CampResults /\ b \in Campaigns /\ c \in Campaigns
      BY <1>1, <1>2, <1>4
    <3> HIDE DEF b, c
    <3>2. PICK r \in CampResults, x \in Campaigns, y \in Campaigns : r = d[n] /\ x = c /\ y = b
      BY <3>1
    <3>3. y.rounds = Append(x.rounds, r) /\ (y.stopped <=> ShouldStopEarly(y.rounds))
      BY <2>1, <3>2
    <3>4. /\ Len(y.rounds) = Len(x.rounds) + 1 /\ y.rounds[Len(x.rounds) + 1] = r
          /\ \A i \in 1 .. Len(x.rounds) : y.rounds[i] = x.rounds[i]
          /\ StopsAtThreshold(y)
      BY <3>3, AppendStops
    <3> QED  BY <3>2, <3>4
  <2>3. \A j \in 0 .. n : Len(Rebuilt(d)[j].rounds) <= m + 1
    <3> SUFFICES ASSUME NEW j \in 0 .. n PROVE Len(Rebuilt(d)[j].rounds) <= m + 1
      OBVIOUS
    <3>1. CASE j = n
      BY <1>1, <2>2, <3>1
    <3>2. CASE j \in 0 .. (n - 1)
      <4>1. Rebuilt(d)[j] \in Campaigns
        <5>1. j + 1 \in 1 .. CampRounds /\ (j + 1) - 1 = j
          BY <1>0, <1>1, <3>2
        <5> QED  BY <5>1, RebuiltDefined
      <4>2. Len(Rebuilt(d)[j].rounds) \in Nat /\ Len(Rebuilt(d)[j].rounds) <= m
        BY <1>1, <3>2, <4>1, CampaignLength
      <4> QED  BY <1>1, <4>2
    <3> QED  BY <1>1, <3>1, <3>2
  <2>4. ASSUME Full(d, m + 1)
        PROVE  b = Rebuilt(d)[m + 1] /\ \A i \in 1 .. m + 1 : b.rounds[i] = d[i]
    <3>1. Full(d, m)
      BY <1>1, <2>4 DEF Full
    <3>2. c = Rebuilt(d)[m] /\ \A i \in 1 .. m : c.rounds[i] = d[i]
      BY <1>1, <3>1 DEF FromPrefix
    <3>3. CASE m + 1 < n
      <4>1. m + 1 \in 1 .. CampRounds /\ m + 1 \in 0 .. (n - 1) /\ (m + 1) - 1 = m
        BY <1>0, <1>1, <3>3
      <4>2. d[m + 1] \in CampResults /\ Rebuilt(d)[m + 1] = Replay(Rebuilt(d)[m], d[m + 1])
            /\ Rebuilt(d)[m + 1] \in Campaigns
        <5>1. d[m + 1] # NoResult
          BY <1>1, <2>4 DEF Full
        <5> QED  BY <4>1, <5>1, RebuiltDefined
      <4> DEFINE a == Rebuilt(d)[m + 1]
      <4>3. a = Replay(c, d[m + 1])
        BY <3>2, <4>2
      <4>4. a.rounds = Append(c.rounds, d[m + 1])
        BY <1>1, <1>4, <4>2, <4>3, ReplayMoves
      <4>5. Len(a.rounds) = m + 1
        BY <1>1, <4>2, <4>4, CampaignLength, AppendProperties
      <4> QED  BY <1>1, <4>1, <4>5
    <3>4. CASE m + 1 = n
      <4>1. \A i \in 1 .. m + 1 : i \in 1 .. m \/ i = n
        BY <1>1, <3>4
      <4> QED  BY <2>2, <3>2, <3>4, <4>1
    <3> QED  BY <1>1, <3>3, <3>4
  <2>5. FromPrefix(d, b)
    BY <2>2, <2>4 DEF FromPrefix
  <2> HIDE DEF c, b
  <2>6. Len(b.rounds) <= n
    BY <1>1, <2>2
  <2> QED  BY <1>1, <2>2, <2>3, <2>5, <2>6 DEF Rebuilds, b
<1>5. c.stopped /\ d[n] # NoResult => b = c
  BY <1>1, <1>2, ReplayMoves
<1> QED  BY <1>2, <1>3, <1>4, <1>5

LEMMA RebuildsAll ==
  ASSUME NEW d \in Durables
  PROVE  \A n \in 0 .. CampRounds : Rebuilds(d, n)
<1> DEFINE S == {n \in 0 .. CampRounds : Rebuilds(d, n)}
<1>1. CampRounds \in Nat
  BY ResultsTyped
<1>2. 0 \in S
  <2>1. Rebuilt(d)[0] = NewCampaign /\ ~NewCampaign.stopped /\ \A j \in 0 .. 0 : j = 0
    BY RebuiltDefined DEF NewCampaign
  <2>2. StopsAtThreshold(NewCampaign) /\ FromPrefix(d, NewCampaign)
    <3>1. Len(NewCampaign.rounds) = 0
      BY NewCampaignTyped
    <3> QED  BY <2>1, <3>1 DEF StopsAtThreshold, FromPrefix
  <2>3. Rebuilds(d, 0)
    BY <2>1, <2>2, NewCampaignTyped DEF Rebuilds
  <2> QED  BY <1>1, <2>3
<1>3. ASSUME NEW n \in 1 .. CampRounds, n - 1 \in S PROVE n \in S
  <2>1. Rebuilds(d, n)
    BY <1>3, RebuildsNext
  <2> QED  BY <1>1, <2>1
<1>4. \A n \in 0 .. CampRounds : n \in S
  <2> HIDE DEF S
  <2> QED  BY <1>1, <1>2, <1>3, IntervalBySuccessor
<1> QED  BY <1>4

(* What lies behind the first n durable rounds does not change them.       *)
LEMMA RebuiltAgrees ==
  ASSUME NEW d \in Durables, NEW e \in Durables, NEW m \in 0 .. CampRounds,
         \A i \in 1 .. m : d[i] = e[i]
  PROVE  Rebuilt(d)[m] = Rebuilt(e)[m]
<1> DEFINE S == {n \in 0 .. m : Rebuilt(d)[n] = Rebuilt(e)[n]}
<1>1. m \in Nat /\ CampRounds \in Nat /\ m <= CampRounds
  BY ResultsTyped
<1>2. 0 \in S
  BY <1>1, RebuiltDefined
<1>3. ASSUME NEW n \in 1 .. m, n - 1 \in S PROVE n \in S
  <2>1. n \in 1 .. CampRounds /\ d[n] = e[n] /\ n \in 0 .. m
    BY <1>1
  <2>2. Rebuilt(d)[n - 1] = Rebuilt(e)[n - 1]
    BY <1>3
  <2>3. Rebuilt(d)[n] = Rebuilt(e)[n]
    <3>1. CASE d[n] = NoResult
      BY <2>1, <2>2, <3>1, RebuiltDefined
    <3>2. CASE d[n] # NoResult
      BY <2>1, <2>2, <3>2, RebuiltDefined
    <3> QED  BY <3>1, <3>2
  <2> QED  BY <2>1, <2>3
<1>4. \A n \in 0 .. m : n \in S
  <2> HIDE DEF S
  <2> QED  BY <1>1, <1>2, <1>3, IntervalBySuccessor
<1>5. m \in 0 .. m
  BY <1>1
<1> QED  BY <1>4, <1>5

(* Empty rounds at the end are passed over.                                *)
LEMMA RebuiltPasses ==
  ASSUME NEW d \in Durables, NEW m \in 0 .. CampRounds,
         \A i \in m + 1 .. CampRounds : d[i] = NoResult
  PROVE  Rebuilt(d)[CampRounds] = Rebuilt(d)[m]
<1> DEFINE S == {n \in 0 .. CampRounds : n >= m => Rebuilt(d)[n] = Rebuilt(d)[m]}
<1>1. m \in Nat /\ CampRounds \in Nat /\ m <= CampRounds
  BY ResultsTyped
<1>2. 0 \in S
  BY <1>1
<1>3. ASSUME NEW n \in 1 .. CampRounds, n - 1 \in S PROVE n \in S
  <2>1. CASE n > m
    <3>1. n - 1 >= m /\ n \in m + 1 .. CampRounds /\ n \in 0 .. CampRounds
      BY <1>1, <2>1
    <3>2. Rebuilt(d)[n] = Rebuilt(d)[n - 1]
      BY <3>1, RebuiltDefined
    <3> QED  BY <1>3, <3>1, <3>2
  <2>2. CASE n <= m
    BY <1>1, <2>2
  <2> QED  BY <1>1, <2>1, <2>2
<1>4. \A n \in 0 .. CampRounds : n \in S
  <2> HIDE DEF S
  <2> QED  BY <1>1, <1>2, <1>3, IntervalBySuccessor
<1> QED  BY <1>1, <1>4

(* A campaign in which every round so far was stored and none but the last *)
(* met the threshold is the one the durable rounds rebuild.                *)
Stored(c, d) ==
  /\ \A i \in 1 .. Len(c.rounds) : ~c.rounds[i].failed /\ d[i] # NoResult
  /\ \A i \in 1 .. Len(c.rounds) - 1 : c.rounds[i].score < CampThreshold
StoredIsRebuilt ==
  Stored(campaign, campDurable) =>
    /\ \A i \in 1 .. Len(campaign.rounds) : campaign.rounds[i] = campDurable[i]
    /\ campaign = Rebuilt(campDurable)[Len(campaign.rounds)]
    /\ StopsAtThreshold(campaign)
ExecutedIsStored ==
  campAt = "executed" =>
    /\ Len(campaign.rounds) < CampRounds /\ campNext \in CampResults
    /\ ~campNext.failed => campDurable[Len(campaign.rounds) + 1] = campNext
CampTypes ==
  /\ campAt \in {"loop", "executed", "stopped", "spent", "done"}
  /\ campaign \in Campaigns /\ Len(campaign.rounds) <= CampRounds
  /\ campDurable \in Durables
  /\ campState \in {"running", "completed", "budget_exhausted", "cancelled", "failed"}
CampInv == CampTypes /\ ExecutedIsStored /\ StoredIsRebuilt

LEMMA CampInvTyped == CampInv => CampTypeOK
BY DEF CampInv, CampTypes, CampTypeOK, Campaigns, Durables, Phases

LEMMA CampInitInv == CampInit => CampInv
<1> SUFFICES ASSUME CampInit PROVE CampInv
  OBVIOUS
<1>1. campDurable \in Durables /\ campaign = NewCampaign /\ campaign \in Campaigns
      /\ Len(campaign.rounds) = 0 /\ CampRounds \in Nat
  BY ResultsTyped, NewCampaignTyped DEF CampInit, Durables
<1>2. CampTypes /\ ExecutedIsStored
  BY <1>1 DEF CampInit, CampTypes, ExecutedIsStored
<1>3. StoredIsRebuilt
  <2>1. campaign = Rebuilt(campDurable)[0]
    BY <1>1, RebuiltDefined
  <2>2. StopsAtThreshold(campaign)
    BY <1>1 DEF StopsAtThreshold, NewCampaign
  <2> QED  BY <1>1, <2>1, <2>2 DEF StoredIsRebuilt
<1> QED  BY <1>2, <1>3 DEF CampInv

LEMMA ExecuteKeepsInv ==
  ASSUME CampInv, NEW result \in CampResults, ExecuteRound(result)
  PROVE  CampInv'
<1> DEFINE n == Len(campaign.rounds)
<1>1. /\ campaign' = campaign /\ campState' = campState /\ campAt' = "executed"
      /\ campNext' = result /\ n \in Nat /\ n < CampRounds /\ CampRounds \in Nat
      /\ campDurable \in Durables /\ campaign \in Campaigns
  BY ResultsTyped, CampaignLength DEF CampInv, CampTypes, ExecuteRound, RoundsLeft
<1>2. n + 1 \in 1 .. CampRounds /\ \A i \in 1 .. n : i # n + 1 /\ i \in 1 .. CampRounds
  BY <1>1
<1>3. /\ campDurable' \in Durables
      /\ \A i \in 1 .. n : campDurable'[i] = campDurable[i]
      /\ ~result.failed => campDurable'[n + 1] = result
  BY <1>1, <1>2 DEF ExecuteRound, Durables
<1>4. CampTypes' /\ ExecutedIsStored'
  BY <1>1, <1>3 DEF CampInv, CampTypes, ExecutedIsStored
<1>5. Rebuilt(campDurable')[n] = Rebuilt(campDurable)[n]
  <2>1. n \in 0 .. CampRounds
    BY <1>1
  <2> HIDE DEF n
  <2> QED  BY <1>1, <1>3, <2>1, RebuiltAgrees
<1>6. StoredIsRebuilt'
  <2>1. Stored(campaign, campDurable') => Stored(campaign, campDurable)
    BY <1>3 DEF Stored
  <2> QED  BY <1>1, <1>3, <1>5, <2>1 DEF CampInv, StoredIsRebuilt
<1> QED  BY <1>4, <1>6 DEF CampInv

LEMMA RecordKeepsInv ==
  ASSUME CampInv, RecordRound
  PROVE  CampInv'
<1> DEFINE c == campaign
           n == Len(campaign.rounds)
           s == Append(campaign.rounds, campNext)
<1>1. /\ campAt = "executed" /\ UNCHANGED <<campDurable, campState>>
      /\ campAt' \in {"stopped", "loop"}
      /\ c \in Campaigns /\ n \in Nat /\ n < CampRounds /\ CampRounds \in Nat
      /\ campNext \in CampResults /\ campDurable \in Durables
      /\ ~campNext.failed => campDurable[n + 1] = campNext
  BY ResultsTyped, CampaignLength DEF CampInv, CampTypes, ExecutedIsStored, RecordRound
<1>2. s \in Seq(CampResults) /\ Len(s) = n + 1 /\ PhaseAfter(s, c.phase) \in Phases
  <2>1. c.rounds \in Seq(CampResults) /\ c.phase \in Phases
    BY <1>1 DEF Campaigns
  <2>2. s \in Seq(CampResults) /\ Len(s) = n + 1
    BY <1>1, <2>1, AppendProperties
  <2> HIDE DEF s
  <2> QED  BY <2>1, <2>2, PhaseTyped
<1>3. campaign' = IF ShouldStopEarly(s) THEN [c EXCEPT !.rounds = s, !.stopped = TRUE]
                  ELSE [c EXCEPT !.rounds = s, !.phase = PhaseAfter(s, c.phase)]
  BY DEF RecordRound
<1>4. campaign' \in Campaigns /\ campaign'.rounds = s
  <2> HIDE DEF s, n
  <2> QED  BY <1>1, <1>2, <1>3 DEF Campaigns
<1>5. CampTypes' /\ ExecutedIsStored'
  <2>1. Len(campaign'.rounds) <= CampRounds
    BY <1>1, <1>2, <1>4
  <2> QED  BY <1>1, <1>4, <2>1 DEF CampInv, CampTypes, ExecutedIsStored
<1>6. ASSUME Stored(campaign', campDurable')
      PROVE  /\ \A i \in 1 .. Len(campaign'.rounds) : campaign'.rounds[i] = campDurable'[i]
             /\ campaign' = Rebuilt(campDurable')[Len(campaign'.rounds)]
             /\ StopsAtThreshold(campaign')
  <2>1. /\ \A i \in 1 .. n + 1 : ~s[i].failed /\ campDurable[i] # NoResult
        /\ \A i \in 1 .. n : s[i].score < CampThreshold
        /\ \A i \in 1 .. n : s[i] = c.rounds[i]
        /\ s[n + 1] = campNext
    <3>1. (n + 1) - 1 = n
      BY <1>1
    <3> QED  BY <1>1, <1>2, <1>4, <1>6, <3>1, CampaignLength, AppendProperties DEF Stored
  <2>2. Stored(c, campDurable)
    BY <1>1, <2>1 DEF Stored
  <2>3. /\ \A i \in 1 .. n : c.rounds[i] = campDurable[i]
        /\ c = Rebuilt(campDurable)[n] /\ StopsAtThreshold(c)
    BY <2>2 DEF CampInv, StoredIsRebuilt
  <2>4. ~c.stopped
    <3>1. n > 0 => c.rounds[n].score < CampThreshold /\ c.rounds[n].score \in Nat
      <4> SUFFICES ASSUME n > 0
                   PROVE  c.rounds[n].score < CampThreshold /\ c.rounds[n].score \in Nat
        OBVIOUS
      <4>1. n \in 1 .. n /\ c.rounds \in Seq(CampResults)
        BY <1>1 DEF Campaigns
      <4>2. c.rounds[n] \in CampResults
        BY <4>1
      <4> QED  BY <2>1, <4>1, <4>2, ResultsTyped
    <3>2. ~(n > 0 /\ c.rounds[n].score >= CampThreshold)
      BY <3>1, ResultsTyped
    <3>3. \A i \in 1 .. n : ~c.rounds[i].failed
      BY <2>2 DEF Stored
    <3> QED  BY <2>3, <3>2, <3>3 DEF StopsAtThreshold
  <2>5. campaign' = Replay(c, campNext)
    BY <1>3, <2>4 DEF Replay
  <2>6. campDurable[n + 1] = campNext /\ campNext # NoResult
    <3>1. n + 1 \in 1 .. n + 1
      BY <1>1
    <3> QED  BY <1>1, <2>1, <3>1
  <2>7. campaign' = Rebuilt(campDurable)[n + 1]
    <3>1. n + 1 \in 1 .. CampRounds /\ (n + 1) - 1 = n
      BY <1>1
    <3>2. Rebuilt(campDurable)[n + 1] = Replay(Rebuilt(campDurable)[n], campNext)
      BY <1>1, <2>6, <3>1, RebuiltDefined
    <3> QED  BY <2>3, <2>5, <3>2
  <2>8. StopsAtThreshold(campaign')
    <3>1. campaign'.stopped <=> ShouldStopEarly(campaign'.rounds)
      BY <1>1, <1>4, <2>4, <2>5, ReplayMoves
    <3> HIDE DEF c
    <3> QED  BY <1>1, <1>4, <3>1, AppendStops DEF c
  <2>9. \A i \in 1 .. n + 1 : s[i] = campDurable[i]
    <3>1. \A i \in 1 .. n + 1 : i \in 1 .. n \/ i = n + 1
      BY <1>1
    <3> QED  BY <2>1, <2>3, <2>6, <3>1
  <2> QED  BY <1>1, <1>2, <1>4, <2>7, <2>8, <2>9
<1>7. StoredIsRebuilt'
  BY <1>6 DEF StoredIsRebuilt
<1> QED  BY <1>5, <1>7 DEF CampInv

LEMMA ResumeKeepsInv ==
  ASSUME CampInv, ResumeCampaign
  PROVE  CampInv'
<1> DEFINE d == campDurable
           c == Rebuilt(d)[CampRounds]
<1>1. /\ d \in Durables /\ CampRounds \in Nat /\ campDurable' = d /\ campaign' = c
      /\ campAt' = "loop" /\ campState' = "running"
  BY ReplayedIsRebuilt, ResultsTyped DEF CampInv, CampTypes, ResumeCampaign
<1>2. /\ c \in Campaigns /\ Len(c.rounds) <= CampRounds
      /\ StopsAtThreshold(c) /\ FromPrefix(d, c)
  BY <1>1, RebuildsAll DEF Rebuilds
<1> HIDE DEF c, d
<1>3. CampTypes' /\ ExecutedIsStored'
  BY <1>1, <1>2 DEF CampTypes, ExecutedIsStored
<1>4. Stored(c, d) => Full(d, Len(c.rounds))
  BY DEF Stored, Full
<1>5. StoredIsRebuilt'
  BY <1>1, <1>2, <1>4 DEF StoredIsRebuilt, FromPrefix
<1> QED  BY <1>3, <1>5 DEF CampInv

LEMMA EndsKeepInv ==
  ASSUME CampInv, EndLoop \/ Conclude \/ CancelCampaign \/ FailCampaign \/ UNCHANGED campVars
  PROVE  CampInv'
<1>1. /\ UNCHANGED <<campaign, campNext, campDurable>>
      /\ campAt' = campAt \/ campAt' \in {"spent", "done"}
      /\ campState' \in {"running", "completed", "budget_exhausted", "cancelled", "failed"}
  BY DEF EndLoop, Conclude, CancelCampaign, FailCampaign, campVars, CampInv, CampTypes
<1> QED  BY <1>1 DEF CampInv, CampTypes, ExecutedIsStored, StoredIsRebuilt

LEMMA CampStepInv == CampInv /\ [CampNext]_campVars => CampInv'
BY ExecuteKeepsInv, RecordKeepsInv, ResumeKeepsInv, EndsKeepInv DEF CampNext

LEMMA CampInvRebuilds == CampInv => ReplayRebuildsCampaign
<1> SUFFICES ASSUME CampInv, Undisturbed, campAt # "executed" PROVE Replayed = campaign
  BY DEF ReplayRebuildsCampaign
<1> DEFINE n == Len(campaign.rounds)
<1>1. /\ n \in Nat /\ n <= CampRounds /\ CampRounds \in Nat /\ campDurable \in Durables
      /\ Stored(campaign, campDurable)
      /\ \A i \in n + 1 .. CampRounds : campDurable[i] = NoResult
  BY ResultsTyped, CampaignLength DEF CampInv, CampTypes, Undisturbed, Stored
<1>2. campaign = Rebuilt(campDurable)[n]
  BY <1>1 DEF CampInv, StoredIsRebuilt
<1>3. Rebuilt(campDurable)[CampRounds] = Rebuilt(campDurable)[n]
  <2>1. n \in 0 .. CampRounds
    BY <1>1
  <2> HIDE DEF n
  <2> QED  BY <1>1, <2>1, RebuiltPasses
<1> QED  BY <1>2, <1>3, ReplayedIsRebuilt

(* For any limit on rounds, threshold and outcomes of rounds, and any      *)
(* number of crashes: as long as every round was stored and none but the   *)
(* last met the threshold, the attempt that takes over rebuilds rounds,    *)
(* phase and stop of the one that died.                                    *)
THEOREM ReplayRebuilds == CampSpec => []ReplayRebuildsCampaign
BY CampInitInv, CampStepInv, CampInvRebuilds, PTL DEF CampSpec

(* Types of the campaign's variables, for any number of rounds.            *)
THEOREM CampTyped == CampSpec => []CampTypeOK
BY CampInitInv, CampStepInv, CampInvTyped, PTL DEF CampSpec

-----------------------------------------------------------------------------
(* Saved definitions: Definitions. *)

DefKinds == {"evaluation", "agent", "experiment"}
OpsOf(kind) ==
  IF kind = "evaluation" THEN {"update", "ready", "archive", "delete"}
  ELSE IF kind = "agent" THEN {"update", "activate", "deactivate", "archive", "delete"}
  ELSE {"update", "activate", "complete", "archive", "set_baseline", "delete"}

LEMMA RulesTyped ==
  ASSUME defKind \in DefKinds
  PROVE  /\ DOMAIN Rules = OpsOf(defKind)
         /\ \A op \in OpsOf(defKind) :
              /\ Rules[op].to \in Statuses \cup {Keep, "none"}
              /\ Rules[op].to = "none" <=> op = "delete"
         /\ FirstStatus \in Statuses /\ "create" \notin OpsOf(defKind)
         /\ "update" \in OpsOf(defKind) /\ "delete" \in OpsOf(defKind)
<1>1. CASE defKind = "evaluation"
  <2>1. Rules = EvaluationRules
    BY <1>1 DEF Rules
  <2> QED  BY <1>1, <2>1 DEF EvaluationRules, OpsOf, Operation, Statuses, Keep, FirstStatus
<1>2. CASE defKind = "agent"
  <2>1. Rules = AgentRules
    BY <1>2 DEF Rules
  <2> QED  BY <1>2, <2>1 DEF AgentRules, OpsOf, Operation, Statuses, Keep, FirstStatus
<1>3. CASE defKind = "experiment"
  <2>1. Rules = ExperimentRules
    BY <1>3 DEF Rules
  <2> QED  BY <1>3, <2>1 DEF ExperimentRules, OpsOf, Operation, Statuses, Keep, FirstStatus
<1> QED  BY <1>1, <1>2, <1>3 DEF DefKinds

LEMMA RulesKeepUpdate == ASSUME defKind \in DefKinds PROVE Rules["update"].to = Keep
BY DEF DefKinds, Rules, EvaluationRules, AgentRules, ExperimentRules, Operation

SeenRows == Rows \cup {NoRow}
OpenStages == {"checking", "saving", "flush", "flushed"}
Flushing == {"flush", "flushed"}

(* The entity a request holds is the one its operation makes of the row it *)
(* has seen; once it is being saved, the operation was allowed on that row. *)
Made(q, rules, first) ==
  IF q.op = "create"
  THEN q.seen = NoRow /\ q.saved \in Rows /\ q.saved.status = first
  ELSE /\ q.op \in DOMAIN rules /\ q.seen \in Rows
       /\ q.saved.status = IF rules[q.op].to = Keep THEN q.seen.status ELSE rules[q.op].to
       /\ q.op # "update" => q.saved.name = q.seen.name
       /\ q.op # "delete" => q.saved \in Rows /\ q.saved.version = 2
       /\ q.at = "checking" => q.op = "update"
       /\ q.at # "checking" => q.seen.status \in rules[q.op].from

RequestHeld(q, used, rules, first) ==
  /\ q.at \in {"idle", "done"} \cup OpenStages
  /\ q.at \in OpenStages => q.id \in used /\ Made(q, rules, first)
  /\ q.at = "checking" => DOMAIN q = {"at", "op", "id", "seen", "saved"}
  /\ q.at \in Flushing => /\ DOMAIN q = {"at", "op", "id", "seen", "base", "saved", "answer"}
                          /\ q.base \in SeenRows /\ q.answer \in {"none", "ok"}
                          /\ q.op = "create" => q.base = NoRow
  /\ q.at = "flushed" => q.op = "create"

\* A definition that is being created is nobody else's business yet.
CreatedAlone ==
  \A r \in DefRequests : defReq[r].at \in OpenStages /\ defReq[r].op = "create" =>
    /\ defRow[defReq[r].id] = NoRow
    /\ \A s \in DefRequests \ {r} :
         defReq[s].at \in OpenStages => defReq[s].id # defReq[r].id

\* A row still in its first version is what a request has read of it.
FirstVersionsSeen ==
  \A r \in DefRequests :
    /\ defReq[r].at \in Flushing /\ defReq[r].base # NoRow
    /\ defRow[defReq[r].id].version = 1
    => defReq[r].base = defRow[defReq[r].id]

DefInv ==
  /\ defKind \in DefKinds /\ defUsed \subseteq DefIds
  /\ defRow \in [DefIds -> SeenRows] /\ \A d \in DefIds \ defUsed : defRow[d] = NoRow
  /\ DOMAIN defReq = DefRequests
  /\ \A r \in DefRequests : RequestHeld(defReq[r], defUsed, Rules, FirstStatus)
  /\ CreatedAlone /\ FirstVersionsSeen

LEMMA DefInvTyped == DefInv => DefinitionsTypeOK
BY DEF DefInv, DefinitionsTypeOK, SeenRows, RequestHeld, OpenStages

LEMMA DefInitInv == DefInit => DefInv
<1> SUFFICES ASSUME DefInit PROVE DefInv
  OBVIOUS
<1>1. \A r \in DefRequests : defReq[r].at = "idle"
  BY DEF DefInit, NoReq
<1>2. \A r \in DefRequests : RequestHeld(defReq[r], defUsed, Rules, FirstStatus)
  BY <1>1 DEF RequestHeld, OpenStages, Flushing
<1>3. CreatedAlone /\ FirstVersionsSeen
  BY <1>1 DEF CreatedAlone, FirstVersionsSeen, OpenStages, Flushing
<1> QED  BY <1>2, <1>3 DEF DefInit, DefInv, DefKinds, SeenRows

LEMMA RulesKept == ASSUME UNCHANGED defKind PROVE Rules' = Rules /\ FirstStatus' = FirstStatus
BY DEF Rules, FirstStatus

(* What a request that moves may turn to: what it works on is what it      *)
(* worked on, or new, or there; and what it has read is the row.           *)
Follows(old, q) ==
  /\ q.at \in OpenStages =>
       \/ old.at \in OpenStages /\ old.id = q.id /\ old.op = q.op
       \/ q.id \notin defUsed
       \/ q.op # "create" /\ defRow[q.id] # NoRow
  /\ q.at \in Flushing =>
       \/ old.at \in Flushing /\ old.id = q.id /\ old.base = q.base
       \/ q.base = defRow[q.id]

(* A request's own step, which leaves the table alone.                     *)
LEMMA RequestMoves ==
  ASSUME DefInv, NEW r \in DefRequests, NEW q, Set(r, q),
         RequestHeld(q, defUsed', Rules, FirstStatus), Follows(defReq[r], q),
         UNCHANGED <<defKind, defRow>>, defUsed \subseteq defUsed', defUsed' \subseteq DefIds
  PROVE  DefInv'
<1>1. DOMAIN defReq' = DefRequests /\ defReq'[r] = q
      /\ \A p \in DefRequests \ {r} : defReq'[p] = defReq[p]
  BY DEF DefInv, Set
<1>2. Rules' = Rules /\ FirstStatus' = FirstStatus
  BY RulesKept
<1>3. ASSUME NEW p \in DefRequests
      PROVE  RequestHeld(defReq'[p], defUsed', Rules', FirstStatus')
  <2>1. CASE p = r
    BY <1>1, <1>2, <2>1
  <2>2. CASE p # r
    <3>1. RequestHeld(defReq[p], defUsed, Rules, FirstStatus)
      BY DEF DefInv
    <3> QED  BY <1>1, <1>2, <2>2, <3>1 DEF RequestHeld
  <2> QED  BY <2>1, <2>2
<1>4. \A p \in DefRequests : defReq[p].at \in OpenStages => defReq[p].id \in defUsed
  BY DEF DefInv, RequestHeld
<1>5. q.at \in OpenStages /\ q.id \notin defUsed => defRow[q.id] = NoRow
  BY DEF DefInv, RequestHeld
<1>6. CreatedAlone'
  <2> SUFFICES ASSUME NEW p \in DefRequests, defReq'[p].at \in OpenStages,
                      defReq'[p].op = "create"
               PROVE  /\ defRow[defReq'[p].id] = NoRow
                      /\ \A s \in DefRequests \ {p} :
                           defReq'[s].at \in OpenStages => defReq'[s].id # defReq'[p].id
    BY DEF CreatedAlone
  <2>1. CASE p = r
    BY <1>1, <1>4, <1>5, <2>1 DEF Follows, DefInv, CreatedAlone
  <2>2. CASE p # r
    BY <1>1, <1>4, <1>5, <2>2 DEF Follows, DefInv, CreatedAlone
  <2> QED  BY <2>1, <2>2
<1>7. FirstVersionsSeen'
  BY <1>1 DEF Follows, DefInv, FirstVersionsSeen
<1> QED  BY <1>1, <1>3, <1>6, <1>7 DEF DefInv

LEMMA FinishedHeld ==
  ASSUME NEW op, NEW d, NEW answer, NEW used, NEW rules, NEW first, NEW old
  PROVE  /\ RequestHeld(Finished(op, d, answer), used, rules, first)
         /\ Follows(old, Finished(op, d, answer))
BY DEF RequestHeld, Follows, Finished, OpenStages, Flushing

LEMMA CreateKeepsInv ==
  ASSUME DefInv, NEW r \in DefRequests, NEW d \in DefIds, NEW s \in DefIds, NEW name \in DefNames,
         CreateDefinition(r, d, name) \/ DuplicateDefinition(r, s, d, name)
  PROVE  DefInv'
<1>1. NewRow(name) \in Rows /\ NewRow(name).status = FirstStatus
  BY RulesTyped DEF DefInv, NewRow, Rows
<1>2. CASE FreshId(d) /\ Set(r, Checking("create", d, NoRow, NewRow(name)))
           /\ UNCHANGED <<defKind, defRow>>
  <2>1. /\ d \in defUsed' /\ defUsed \subseteq defUsed' /\ defUsed' \subseteq DefIds
        /\ d \notin defUsed
    BY <1>2 DEF FreshId, DefInv
  <2>2. PICK q : q = Checking("create", d, NoRow, NewRow(name))
    OBVIOUS
  <2>3. /\ q.at = "checking" /\ q.id = d /\ q.op = "create" /\ q.seen = NoRow
        /\ q.saved = NewRow(name) /\ DOMAIN q = {"at", "op", "id", "seen", "saved"}
    BY <2>2 DEF Checking, Saving
  <2>4. RequestHeld(q, defUsed', Rules, FirstStatus) /\ Follows(defReq[r], q)
    BY <1>1, <2>1, <2>3 DEF RequestHeld, Made, Follows, OpenStages, Flushing
  <2>5. Set(r, q)
    BY <1>2, <2>2
  <2> QED  BY <1>2, <2>1, <2>4, <2>5, RequestMoves
<1>3. CASE Set(r, Finished("duplicate", s, "not_found")) /\ UNCHANGED <<defKind, defRow, defUsed>>
  <2>1. PICK q : q = Finished("duplicate", s, "not_found")
    OBVIOUS
  <2>2. RequestHeld(q, defUsed', Rules, FirstStatus) /\ Follows(defReq[r], q)
    BY <2>1, FinishedHeld
  <2>3. defUsed \subseteq defUsed' /\ defUsed' \subseteq DefIds /\ Set(r, q)
    BY <1>3, <2>1 DEF DefInv
  <2> QED  BY <1>3, <2>2, <2>3, RequestMoves
<1> QED  BY <1>2, <1>3 DEF CreateDefinition, DuplicateDefinition

LEMMA OperateKeepsInv ==
  ASSUME DefInv, NEW r \in DefRequests, NEW d \in DefIds, NEW op \in DOMAIN Rules,
         NEW name \in DefNames \cup {Keep}, NEW checks \in BOOLEAN,
         Operate(r, op, d, name, checks), op # "update" => name = Keep, checks => op = "update"
  PROVE  DefInv'
<1>1. /\ d \in defUsed /\ UNCHANGED <<defKind, defRow, defUsed>> /\ defRow[d] \in SeenRows
      /\ defUsed \subseteq defUsed' /\ defUsed' \subseteq DefIds
  BY DEF Operate, DefInv
<1>2. PICK row, rules, first : row = defRow[d] /\ rules = Rules /\ first = FirstStatus
  OBVIOUS
<1>3. PICK entity : entity = Changed(op, row, name)
  OBVIOUS
<1>4. row # NoRow =>
        /\ op \in DOMAIN rules /\ row \in Rows /\ op # "create"
        /\ entity.status = IF rules[op].to = Keep THEN row.status ELSE rules[op].to
        /\ op # "update" => entity.name = row.name
        /\ op # "delete" => entity \in Rows /\ entity.version = 2
  BY <1>1, <1>2, <1>3, RulesTyped DEF DefInv, Changed, Rows, SeenRows
<1>5. PICK q : /\ Set(r, q)
               /\ \/ \E answer : q = Finished(op, d, answer)
                  \/ row # NoRow /\ checks /\ q = Checking(op, d, row, entity)
                  \/ /\ row # NoRow /\ ~checks /\ row.status \in rules[op].from
                     /\ q = Saving(op, d, row, entity)
  <2>1. CASE row = NoRow
    BY <1>2, <2>1 DEF Operate
  <2>2. CASE row # NoRow /\ checks
    BY <1>2, <1>3, <2>2 DEF Operate
  <2>3. CASE row # NoRow /\ ~checks /\ Allowed(op, row.status)
    BY <1>2, <1>3, <2>3 DEF Operate, Allowed
  <2>4. CASE row # NoRow /\ ~checks /\ ~Allowed(op, row.status)
    BY <1>2, <2>4 DEF Operate
  <2> QED  BY <2>1, <2>2, <2>3, <2>4
<1>6. RequestHeld(q, defUsed', Rules, FirstStatus) /\ Follows(defReq[r], q)
  <2>1. CASE \E answer : q = Finished(op, d, answer)
    BY <2>1, FinishedHeld
  <2>2. CASE row # NoRow /\ checks /\ q = Checking(op, d, row, entity)
    <3>1. /\ q.at = "checking" /\ q.id = d /\ q.op = op /\ q.seen = row /\ q.saved = entity
          /\ DOMAIN q = {"at", "op", "id", "seen", "saved"}
      BY <2>2 DEF Checking, Saving
    <3>2. Made(q, rules, first)
      BY <1>4, <2>2, <3>1 DEF Made
    <3> QED
      BY <1>1, <1>2, <1>4, <2>2, <3>1, <3>2 DEF RequestHeld, Follows, OpenStages, Flushing
  <2>3. CASE /\ row # NoRow /\ ~checks /\ row.status \in rules[op].from
             /\ q = Saving(op, d, row, entity)
    <3>1. q.at = "saving" /\ q.id = d /\ q.op = op /\ q.seen = row /\ q.saved = entity
      BY <2>3 DEF Saving
    <3>2. Made(q, rules, first)
      BY <1>4, <2>3, <3>1 DEF Made
    <3> QED
      BY <1>1, <1>2, <1>4, <2>3, <3>1, <3>2 DEF RequestHeld, Follows, OpenStages, Flushing
  <2> QED  BY <1>5, <2>1, <2>2, <2>3, Zenon
<1> QED  BY <1>1, <1>5, <1>6, RequestMoves

LEMMA SaversKeepInv ==
  ASSUME DefInv, NEW r \in DefRequests,
         CheckName(r) \/ SelectRow(r) \/ RespondFirst(r) \/ FlushRow(r)
  PROVE  DefInv'
<1>1. /\ UNCHANGED <<defKind, defRow, defUsed>>
      /\ defUsed \subseteq defUsed' /\ defUsed' \subseteq DefIds
      /\ RequestHeld(defReq[r], defUsed, Rules, FirstStatus) /\ defRow \in [DefIds -> SeenRows]
  BY DEF CheckName, SelectRow, RespondFirst, FlushRow, DefInv
<1>2. PICK q, rules, first : q = defReq[r] /\ rules = Rules /\ first = FirstStatus
  OBVIOUS
<1>3. CASE CheckName(r)
  <2>1. q.at = "checking" /\ RequestHeld(q, defUsed, rules, first)
    BY <1>1, <1>2, <1>3 DEF CheckName
  <2>2. PICK p : /\ Set(r, p)
                 /\ \/ p = Finished(q.op, q.id, "conflict")
                    \/ /\ p = [q EXCEPT !.at = "saving"]
                       /\ q.op = "update" => q.seen.status \in rules[q.op].from
    BY <1>2, <1>3 DEF CheckName, Allowed
  <2>3. CASE p = Finished(q.op, q.id, "conflict")
    <3>1. RequestHeld(p, defUsed', Rules, FirstStatus) /\ Follows(defReq[r], p)
      BY <2>3, FinishedHeld
    <3> QED  BY <1>1, <2>2, <3>1, RequestMoves
  <2>4. CASE /\ p = [q EXCEPT !.at = "saving"]
             /\ q.op = "update" => q.seen.status \in rules[q.op].from
    <3>1. /\ p.at = "saving" /\ p.id = q.id /\ p.op = q.op /\ p.seen = q.seen
          /\ p.saved = q.saved
      BY <2>1, <2>4 DEF RequestHeld
    <3>2. Made(q, rules, first) /\ q.id \in defUsed
      BY <2>1 DEF RequestHeld, OpenStages
    <3>3. Made(p, rules, first)
      BY <2>1, <2>4, <3>1, <3>2 DEF Made
    <3>4. RequestHeld(p, defUsed', Rules, FirstStatus) /\ Follows(defReq[r], p)
      BY <1>1, <1>2, <2>1, <3>1, <3>2, <3>3 DEF RequestHeld, Follows, OpenStages, Flushing
    <3> QED  BY <1>1, <2>2, <3>4, RequestMoves
  <2> QED  BY <2>2, <2>3, <2>4
<1>4. CASE SelectRow(r)
  <2>1. PICK p : p = Flush(q, defRow[q.id])
    OBVIOUS
  <2>2. Set(r, p) /\ q.at = "saving" /\ RequestHeld(q, defUsed, rules, first)
    BY <1>1, <1>2, <1>4, <2>1 DEF SelectRow
  <2>3. Made(q, rules, first) /\ q.id \in defUsed /\ q.id \in DefIds
    BY <2>2 DEF RequestHeld, OpenStages, DefInv
  <2>4. /\ p.at = "flush" /\ p.id = q.id /\ p.op = q.op /\ p.seen = q.seen
        /\ p.saved = q.saved /\ p.base = defRow[q.id] /\ p.answer = "none"
        /\ DOMAIN p = {"at", "op", "id", "seen", "base", "saved", "answer"}
    BY <2>1 DEF Flush
  <2>5. q.op = "create" => p.base = NoRow
    BY <1>2, <2>2, <2>4 DEF DefInv, CreatedAlone, OpenStages
  <2>6. Made(p, rules, first)
    BY <2>2, <2>3, <2>4 DEF Made
  <2>7. RequestHeld(p, defUsed', Rules, FirstStatus) /\ Follows(defReq[r], p)
    BY <1>1, <1>2, <2>2, <2>3, <2>4, <2>5, <2>6 DEF RequestHeld, Follows, OpenStages, Flushing
  <2> QED  BY <1>1, <2>2, <2>7, RequestMoves
<1>5. CASE RespondFirst(r)
  <2>1. /\ Set(r, [q EXCEPT !.answer = "ok"]) /\ q.at = "flush"
        /\ RequestHeld(q, defUsed, rules, first)
    BY <1>1, <1>2, <1>5 DEF RespondFirst
  <2>2. PICK p : p = [q EXCEPT !.answer = "ok"]
    OBVIOUS
  <2>3. /\ p.at = "flush" /\ p.id = q.id /\ p.op = q.op /\ p.seen = q.seen
        /\ p.saved = q.saved /\ p.base = q.base /\ p.answer = "ok" /\ DOMAIN p = DOMAIN q
    BY <2>1, <2>2 DEF RequestHeld, Flushing
  <2>4. Made(p, rules, first)
    BY <2>1, <2>3 DEF RequestHeld, Made, OpenStages
  <2>5. RequestHeld(p, defUsed', Rules, FirstStatus) /\ Follows(defReq[r], p)
    BY <1>1, <1>2, <2>1, <2>3, <2>4 DEF RequestHeld, Follows, OpenStages, Flushing
  <2> QED  BY <1>1, <2>1, <2>2, <2>5, RequestMoves
<1>6. CASE FlushRow(r)
  <2>1. q.at = "flush" /\ q.op = "create" /\ RequestHeld(q, defUsed, rules, first)
    BY <1>1, <1>2, <1>6 DEF FlushRow, FlushesFirst
  <2>2. PICK p : /\ Set(r, p)
                 /\ \/ p = Finished(q.op, q.id, "refused")
                    \/ p = [q EXCEPT !.at = "flushed", !.answer = "ok"]
    BY <1>2, <1>6 DEF FlushRow
  <2>3. CASE p = Finished(q.op, q.id, "refused")
    <3>1. RequestHeld(p, defUsed', Rules, FirstStatus) /\ Follows(defReq[r], p)
      BY <2>3, FinishedHeld
    <3> QED  BY <1>1, <2>2, <3>1, RequestMoves
  <2>4. CASE p = [q EXCEPT !.at = "flushed", !.answer = "ok"]
    <3>1. /\ p.at = "flushed" /\ p.id = q.id /\ p.op = q.op /\ p.seen = q.seen
          /\ p.saved = q.saved /\ p.base = q.base /\ p.answer = "ok" /\ DOMAIN p = DOMAIN q
      BY <2>1, <2>4 DEF RequestHeld, Flushing
    <3>2. Made(p, rules, first)
      BY <2>1, <3>1 DEF RequestHeld, Made, OpenStages
    <3>3. RequestHeld(p, defUsed', Rules, FirstStatus) /\ Follows(defReq[r], p)
      BY <1>1, <1>2, <2>1, <3>1, <3>2 DEF RequestHeld, Follows, OpenStages, Flushing
    <3> QED  BY <1>1, <2>2, <3>3, RequestMoves
  <2> QED  BY <2>2, <2>3, <2>4
<1> QED  BY <1>3, <1>4, <1>5, <1>6

LEMMA WrittenTyped ==
  ASSUME NEW q, q.saved \in Rows, defRow[q.id] \in Rows
  PROVE  /\ Written(q) \in Rows
         /\ \A c \in {"status", "name", "version"} :
              Written(q)[c] = IF q.saved[c] # q.base[c] THEN q.saved[c] ELSE defRow[q.id][c]
BY DEF Written, Rows

(* The row after a commit that succeeds.  Only a creation leaves a row in  *)
(* its first version, and an operation does to the row it has seen what    *)
(* its entity allows.                                                      *)
LEMMA RowAfterCommit ==
  ASSUME DefInv, NEW r \in DefRequests, NEW q, q = defReq[r], q.at \in Flushing,
         q.op # "create" => Succeeds(q)
  PROVE  /\ q.id \in DefIds /\ q.id \in defUsed /\ RowAfter(q) \in SeenRows
         /\ RowAfter(q) # NoRow /\ RowAfter(q).version = 1 => q.op = "create"
         /\ q.seen = defRow[q.id] /\ RowAfter(q) # defRow[q.id] =>
              MayTurn(q.op, defRow[q.id], RowAfter(q))
<1>1. PICK row, rules, first : row = defRow[q.id] /\ rules = Rules /\ first = FirstStatus
  OBVIOUS
<1>2. RequestHeld(q, defUsed, rules, first)
  BY <1>1 DEF DefInv
<1>3. q.id \in defUsed /\ Made(q, rules, first) /\ q.base \in SeenRows
  BY <1>2 DEF RequestHeld, Flushing, OpenStages
<1>4. q.id \in DefIds /\ row \in SeenRows
  BY <1>1, <1>3 DEF DefInv
<1>5. NoRow \notin Rows
  BY DEF NoRow, Rows
<1>6. CASE q.op = "create"
  <2>1. q.base = NoRow /\ row = NoRow
    BY <1>1, <1>2, <1>6 DEF RequestHeld, DefInv, CreatedAlone, Flushing, OpenStages
  <2>2. RowAfter(q) = q.saved
    BY <1>6, <2>1 DEF RowAfter
  <2>3. q.saved \in Rows /\ q.saved.status = first
    BY <1>3, <1>6 DEF Made
  <2> QED  BY <1>1, <1>3, <1>4, <1>6, <2>1, <2>2, <2>3 DEF MayTurn, SeenRows
<1>7. CASE q.op = "delete"
  <2>1. RowAfter(q) = NoRow
    BY <1>7 DEF RowAfter
  <2>2. q.seen.status \in rules[q.op].from /\ rules[q.op].to = "none"
    BY <1>1, <1>3, <1>7, RulesTyped DEF Made, Flushing, DefInv
  <2> QED
    BY <1>1, <1>3, <1>4, <1>7, <2>1, <2>2 DEF MayTurn, SeenRows, NoRow, Keep
<1>8. CASE q.op \notin {"create", "delete"}
  <2>1. /\ q.seen \in Rows /\ q.saved \in Rows /\ q.saved.version = 2
        /\ q.saved.status = IF rules[q.op].to = Keep THEN q.seen.status ELSE rules[q.op].to
        /\ q.op # "update" => q.saved.name = q.seen.name
        /\ q.seen.status \in rules[q.op].from
        /\ rules[q.op].to # "none"
    BY <1>1, <1>3, <1>8, RulesTyped DEF Made, Flushing, DefInv
  <2>2. (q.base = NoRow) <=> (row = NoRow)
    BY <1>1, <1>8 DEF Succeeds
  <2>3. CASE q.base = NoRow
    <3>1. RowAfter(q) = q.saved /\ q.seen # row
      BY <1>5, <1>8, <2>1, <2>2, <2>3 DEF RowAfter
    <3> QED  BY <1>1, <1>3, <1>4, <2>1, <3>1 DEF SeenRows
  <2>4. CASE q.base # NoRow
    <3>1. row \in Rows /\ RowAfter(q) = Written(q) /\ q.base \in Rows
      BY <1>3, <1>4, <1>8, <2>2, <2>4 DEF RowAfter, SeenRows
    <3>2. PICK after : after = RowAfter(q)
      OBVIOUS
    <3>3. /\ after \in Rows
          /\ after.status = IF q.saved.status # q.base.status THEN q.saved.status ELSE row.status
          /\ after.name = IF q.saved.name # q.base.name THEN q.saved.name ELSE row.name
          /\ after.version = IF q.saved.version # q.base.version THEN q.saved.version
                             ELSE row.version
      BY <1>1, <2>1, <3>1, <3>2, WrittenTyped
    <3>4. row.version = 1 => q.base = row
      BY <1>1, <2>4 DEF DefInv, FirstVersionsSeen
    <3>5. after.version # 1
      BY <2>1, <3>3, <3>4
    <3>6. ASSUME q.seen = row, after # row PROVE MayTurn(q.op, row, after)
      <4>1. CASE q.saved.status # q.base.status \/ rules[q.op].to = Keep
        BY <1>1, <1>8, <2>1, <3>3, <3>6, <4>1 DEF MayTurn
      <4>2. CASE q.saved.status = q.base.status /\ rules[q.op].to # Keep /\ row.version = 1
        BY <1>1, <1>8, <2>1, <3>3, <3>4, <3>6, <4>2 DEF MayTurn
      <4>3. CASE q.saved.status = q.base.status /\ rules[q.op].to # Keep /\ row.version # 1
        <5>1. q.op # "update"
          BY <1>1, <4>3, RulesKeepUpdate DEF DefInv
        <5>2. after.status = row.status /\ after.name = row.name
          BY <2>1, <3>3, <3>6, <4>3, <5>1
        <5>3. after.version = 2 /\ row.version = 2
          BY <2>1, <3>1, <3>3, <3>5, <4>3 DEF Rows
        <5>4. after = row
          BY <3>1, <3>3, <5>2, <5>3 DEF Rows
        <5> QED  BY <3>6, <5>4
      <4> QED  BY <4>1, <4>2, <4>3
    <3> QED  BY <1>1, <1>3, <1>4, <3>2, <3>3, <3>5, <3>6 DEF SeenRows
  <2> QED  BY <2>3, <2>4
<1> QED  BY <1>6, <1>7, <1>8

(* What a commit does.                                                     *)
LEMMA CommitIs ==
  ASSUME DefInv, NEW r \in DefRequests, Commit(r)
  PROVE  LET q == defReq[r]
         IN  /\ UNCHANGED <<defKind, defUsed>> /\ q.at \in Flushing
             /\ \E answer : Set(r, Finished(q.op, q.id, answer))
             /\ \/ defRow' = defRow
                \/ /\ q.op # "create" => Succeeds(q)
                   /\ defRow' = [defRow EXCEPT ![q.id] = RowAfter(q)]
<1> DEFINE q == defReq[r]
<1>1. q.at = "flushed" => q.op = "create"
  BY DEF DefInv, RequestHeld
<1>2. ASSUME CommitSucceeds(r)
      PROVE  /\ defRow' = [defRow EXCEPT ![q.id] = RowAfter(q)]
             /\ Set(r, Finished(q.op, q.id, "ok"))
  BY <1>2 DEF CommitSucceeds
<1>3. ASSUME CommitFails(r)
      PROVE  /\ defRow' = defRow
             /\ Set(r, Finished(q.op, q.id, IF q.answer = "none" THEN "refused" ELSE q.answer))
  BY <1>3 DEF CommitFails
<1>4. UNCHANGED <<defKind, defUsed>> /\ q.at \in Flushing
  BY DEF Commit, Flushing
<1>5. CommitSucceeds(r) \/ CommitFails(r)
  BY DEF Commit
<1>6. CommitFails(r) \/ (CommitSucceeds(r) /\ (q.at = "flushed" \/ Succeeds(q)))
  BY DEF Commit
<1> QED  BY <1>1, <1>2, <1>3, <1>4, <1>6

LEMMA CommitKeepsInv ==
  ASSUME DefInv, NEW r \in DefRequests, Commit(r)
  PROVE  DefInv'
<1>1. PICK q : q = defReq[r]
  OBVIOUS
<1>2. PICK p : Set(r, p) /\ \E answer : p = Finished(q.op, q.id, answer)
  BY <1>1, CommitIs
<1>3. /\ UNCHANGED <<defKind, defUsed>> /\ q.at \in Flushing
      /\ \/ defRow' = defRow
         \/ (q.op # "create" => Succeeds(q)) /\ defRow' = [defRow EXCEPT ![q.id] = RowAfter(q)]
  BY <1>1, CommitIs
<1>4. RequestHeld(p, defUsed, Rules, FirstStatus) /\ Follows(q, p) /\ p.at = "done"
  BY <1>2, FinishedHeld DEF Finished
<1>5. CASE defRow' = defRow
  <2>1. defUsed \subseteq defUsed' /\ defUsed' \subseteq DefIds
    BY <1>3 DEF DefInv
  <2> QED  BY <1>1, <1>2, <1>3, <1>4, <1>5, <2>1, RequestMoves
<1>6. CASE (q.op # "create" => Succeeds(q)) /\ defRow' = [defRow EXCEPT ![q.id] = RowAfter(q)]
  <2>1. /\ q.id \in DefIds /\ q.id \in defUsed /\ RowAfter(q) \in SeenRows
        /\ RowAfter(q) # NoRow /\ RowAfter(q).version = 1 => q.op = "create"
    BY <1>1, <1>3, <1>6, RowAfterCommit
  <2>2. PICK after : after = RowAfter(q)
    OBVIOUS
  <2>3. \A d \in DefIds : defRow'[d] = IF d = q.id THEN after ELSE defRow[d]
    BY <1>6, <2>2 DEF DefInv
  <2>4. DOMAIN defReq' = DefRequests /\ defReq'[r] = p
        /\ \A s \in DefRequests \ {r} : defReq'[s] = defReq[s]
    BY <1>2 DEF DefInv, Set
  <2>5. Rules' = Rules /\ FirstStatus' = FirstStatus
    BY <1>3, RulesKept
  <2>6. \A s \in DefRequests : RequestHeld(defReq'[s], defUsed', Rules', FirstStatus')
    <3> SUFFICES ASSUME NEW s \in DefRequests
                 PROVE  RequestHeld(defReq'[s], defUsed', Rules', FirstStatus')
      OBVIOUS
    <3>1. defReq'[s] = p \/ defReq'[s] = defReq[s]
      BY <2>4
    <3>2. RequestHeld(defReq[s], defUsed, Rules, FirstStatus)
      BY DEF DefInv
    <3> QED  BY <1>3, <1>4, <2>5, <3>1, <3>2
  <2>7. defRow' \in [DefIds -> SeenRows] /\ \A d \in DefIds \ defUsed : defRow'[d] = NoRow
    BY <1>6, <2>1, <2>3 DEF DefInv
  <2>8. \A s \in DefRequests \ {r} : defReq[s].at \in OpenStages =>
          /\ defReq[s].id \in DefIds
          /\ (q.op = "create" \/ defReq[s].op = "create") => defReq[s].id # q.id
    <3> SUFFICES ASSUME NEW s \in DefRequests \ {r}, defReq[s].at \in OpenStages
                 PROVE  /\ defReq[s].id \in DefIds
                        /\ (q.op = "create" \/ defReq[s].op = "create") => defReq[s].id # q.id
      OBVIOUS
    <3>1. defReq[s].id \in DefIds
      BY DEF DefInv, RequestHeld
    <3> QED  BY <1>1, <1>3, <3>1 DEF DefInv, CreatedAlone, Flushing, OpenStages
  <2>9. p.at \notin OpenStages /\ p.at \notin Flushing
    BY <1>4 DEF OpenStages, Flushing
  <2>10. CreatedAlone'
    <3> SUFFICES ASSUME NEW s \in DefRequests, defReq'[s].at \in OpenStages,
                        defReq'[s].op = "create"
                 PROVE  /\ defRow'[defReq'[s].id] = NoRow
                        /\ \A u \in DefRequests \ {s} :
                             defReq'[u].at \in OpenStages => defReq'[u].id # defReq'[s].id
      BY DEF CreatedAlone
    <3>1. s # r /\ defReq'[s] = defReq[s]
      BY <2>4, <2>9
    <3>2. defRow'[defReq[s].id] = defRow[defReq[s].id]
      BY <2>3, <2>8, <3>1
    <3> QED  BY <2>4, <2>9, <3>1, <3>2 DEF DefInv, CreatedAlone
  <2>11. FirstVersionsSeen'
    <3> SUFFICES ASSUME NEW s \in DefRequests, defReq'[s].at \in Flushing,
                        defReq'[s].base # NoRow, defRow'[defReq'[s].id].version = 1
                 PROVE  defReq'[s].base = defRow'[defReq'[s].id]
      BY DEF FirstVersionsSeen
    <3>1. s # r /\ defReq'[s] = defReq[s] /\ defReq[s].at \in OpenStages
      BY <2>4, <2>9 DEF Flushing, OpenStages
    <3>2. defReq[s].id # q.id
      <4> SUFFICES ASSUME defReq[s].id = q.id PROVE FALSE
        OBVIOUS
      <4>1. after.version = 1
        BY <2>1, <2>3, <3>1
      <4>2. after # NoRow
        BY <4>1 DEF NoRow
      <4> QED  BY <2>1, <2>2, <2>8, <3>1, <4>1, <4>2
    <3>3. defRow'[defReq[s].id] = defRow[defReq[s].id]
      BY <2>3, <2>8, <3>1, <3>2
    <3> QED  BY <3>1, <3>3 DEF DefInv, FirstVersionsSeen
  <2> QED  BY <1>3, <2>4, <2>6, <2>7, <2>10, <2>11 DEF DefInv
<1> QED  BY <1>3, <1>5, <1>6

LEMMA DefStepInv == DefInv /\ [DefNext]_defVars => DefInv'
<1> SUFFICES ASSUME DefInv, [DefNext]_defVars PROVE DefInv'
  OBVIOUS
<1>1. CASE UNCHANGED defVars
  <2>1. Rules' = Rules /\ FirstStatus' = FirstStatus
    BY <1>1, RulesKept DEF defVars
  <2> QED  BY <1>1, <2>1 DEF defVars, DefInv, CreatedAlone, FirstVersionsSeen
<1>2. ASSUME NEW r \in DefRequests, NEW d \in DefIds, NEW name \in DefNames \cup {Keep},
             UpdateDefinition(r, d, name)
      PROVE  DefInv'
  <2>1. "update" \in DOMAIN Rules
    BY RulesTyped DEF DefInv, OpsOf
  <2>2. Operate(r, "update", d, name, name # Keep /\ defKind # "experiment")
    BY <1>2 DEF UpdateDefinition
  <2>3. PICK checks \in BOOLEAN : checks = (name # Keep /\ defKind # "experiment")
    OBVIOUS
  <2> QED  BY <2>1, <2>2, <2>3, OperateKeepsInv
<1>3. ASSUME NEW r \in DefRequests, NEW d \in DefIds, NEW op \in DOMAIN Rules, CommandDefinition(r, op, d)
      PROVE  DefInv'
  BY <1>3, OperateKeepsInv DEF CommandDefinition
<1>4. ASSUME NEW d \in DefIds, CreateRunOf(d) PROVE DefInv'
  <2>1. UNCHANGED <<defKind, defRow, defUsed, defReq>>
    BY <1>4 DEF CreateRunOf
  <2>2. Rules' = Rules /\ FirstStatus' = FirstStatus
    BY <2>1, RulesKept
  <2> QED  BY <2>1, <2>2 DEF DefInv, CreatedAlone, FirstVersionsSeen
<1> QED  BY <1>1, <1>2, <1>3, <1>4, CreateKeepsInv, SaversKeepInv, CommitKeepsInv DEF DefNext

LEMMA DefAlways == DefSpec => []DefInv
BY DefInitInv, DefStepInv, PTL DEF DefSpec

(* For any number of definitions, names and requests of the three kinds:   *)
(* the table holds rows with a status of their kind's life cycle and names *)
(* in the project, and none of an identifier that was not given out.       *)
THEOREM DefinitionsTyped == DefSpec => []DefinitionsTypeOK
BY DefAlways, DefInvTyped, PTL

(* Only a commit writes the table.                                         *)
LEMMA OnlyCommitsWrite ==
  ASSUME DefNext, defRow' # defRow
  PROVE  \E r \in DefRequests : Commit(r)
BY DEF DefNext, CreateDefinition, DuplicateDefinition, UpdateDefinition, CommandDefinition,
       Operate, CheckName, SelectRow, RespondFirst, FlushRow, CreateRunOf

(* However requests overlap, and for any number of them: a definition is   *)
(* moved as its entity allows, unless the request that writes it had       *)
(* loaded another row than the one it overwrites.                          *)
THEOREM StrayMovesAreStaleTheorem == DefSpec => StrayMovesAreStale
<1>1. ASSUME DefInv, DefNext, NEW d \in DefIds, defRow'[d] # defRow[d]
      PROVE  \E r \in DefRequests :
               LET q == defReq[r] IN
               /\ q.at \in {"flush", "flushed"} /\ q.id = d /\ defReq'[r].at = "done"
               /\ q.seen # defRow[d] \/ MayTurn(q.op, defRow[d], defRow'[d])
  <2>1. PICK r \in DefRequests : Commit(r)
    BY <1>1, OnlyCommitsWrite
  <2>2. PICK q : q = defReq[r]
    OBVIOUS
  <2>3. /\ q.at \in Flushing /\ \E answer : Set(r, Finished(q.op, q.id, answer))
        /\ q.op # "create" => Succeeds(q)
        /\ defRow' = [defRow EXCEPT ![q.id] = RowAfter(q)]
    BY <1>1, <2>1, <2>2, CommitIs
  <2>4. q.id = d /\ defRow'[d] = RowAfter(q)
    BY <1>1, <2>3 DEF DefInv
  <2>5. defReq'[r].at = "done"
    BY <1>1, <2>3 DEF Set, Finished, DefInv
  <2>6. q.seen = defRow[d] => MayTurn(q.op, defRow[d], defRow'[d])
    BY <1>1, <2>2, <2>3, <2>4, RowAfterCommit
  <2> QED  BY <2>2, <2>3, <2>4, <2>5, <2>6 DEF Flushing
<1>2. DefInv /\ [DefNext]_defVars =>
        [\A d \in DefIds : defRow'[d] # defRow[d] =>
           \E r \in DefRequests :
             LET q == defReq[r] IN
             /\ q.at \in {"flush", "flushed"} /\ q.id = d /\ defReq'[r].at = "done"
             /\ q.seen # defRow[d] \/ MayTurn(q.op, defRow[d], defRow'[d])]_defVars
  BY <1>1
<1> QED  BY <1>2, DefAlways, PTL DEF DefSpec, StrayMovesAreStale

-----------------------------------------------------------------------------
(* All of them together: MCPlatform. *)

\* Every component keeps its own invariant, whichever of them moves.
PlatformInv ==
  /\ part \in Parts
  /\ AggregateTypeOK /\ DefInv /\ StartupInv /\ IdInv /\ TenantInv /\ CampInv /\ GateInv

LEMMA AggregateStep == AggregateTypeOK /\ [AggregateNext]_aggregateVars => AggregateTypeOK'
BY StepKeeps, CheckpointTyped DEF aggregateVars, AggregateTypeOK

LEMMA PlatformInitInv == PlatformInit => PlatformInv
BY InitTyped, DefInitInv, StartupInitInv, IdInitInv, TenantInitInv, CampInitInv, GateInitInv
   DEF PlatformInit, PlatformInv

LEMMA RegistryKeepsStartup ==
  ASSUME StartupInv, RegNext, UNCHANGED <<appState, joined, busState>>
  PROVE  StartupInv'
<1>1. RegInv' /\ RegTypeOK'
  BY RegStepInv DEF StartupInv, RegInv
<1> QED  BY <1>1 DEF appState, busState, StartupInv, StartupTypeOK, BusFunctions,
                    ListsGrow, ConsumersRun, SubscribedTypes

LEMMA PlatformStepInv == PlatformInv /\ [PlatformNext]_platformVars => PlatformInv'
<1> SUFFICES ASSUME PlatformInv, [PlatformNext]_platformVars PROVE PlatformInv'
  OBVIOUS
<1>1. part' = part
  BY DEF PlatformNext, platformVars, AggregatePart, DefinitionsPart, RegistryPart, StartupPart,
         IdentityPart, TenantPart, CampaignPart, GatePart, RuntimePart
<1>2. [AggregateNext]_aggregateVars /\ [DefNext]_defVars
  BY DEF PlatformNext, platformVars, AggregatePart, DefinitionsPart, RegistryPart, StartupPart,
         IdentityPart, TenantPart, CampaignPart, GatePart, RuntimePart
<1>3. [IdNext]_idVars /\ [TenantNext]_tenVars
  BY DEF PlatformNext, platformVars, AggregatePart, DefinitionsPart, RegistryPart, StartupPart,
         IdentityPart, TenantPart, CampaignPart, GatePart, RuntimePart
<1>4. [CampNext]_campVars /\ [GateNext]_gateVars
  BY DEF PlatformNext, platformVars, AggregatePart, DefinitionsPart, RegistryPart, StartupPart,
         IdentityPart, TenantPart, CampaignPart, GatePart, RuntimePart
<1>5. [StartupNext]_startupVars \/ (RegNext /\ UNCHANGED <<appState, joined, busState>>)
  BY DEF PlatformNext, platformVars, AggregatePart, DefinitionsPart, RegistryPart, StartupPart,
         IdentityPart, TenantPart, CampaignPart, GatePart, RuntimePart
<1>6. AggregateTypeOK' /\ DefInv'
  BY <1>2, AggregateStep, DefStepInv DEF PlatformInv
<1>7. IdInv' /\ TenantInv'
  BY <1>3, IdStepInv, TenantStepInv DEF PlatformInv
<1>8. CampInv' /\ GateInv'
  BY <1>4, CampStepInv, GateStepInv DEF PlatformInv
<1>9. StartupInv'
  BY <1>5, StartupStepInv, RegistryKeepsStartup DEF PlatformInv
<1> QED  BY <1>1, <1>6, <1>7, <1>8, <1>9 DEF PlatformInv

(* Every component's variables keep their types in the composition that is *)
(* model-checked, for all values of its constants.                         *)
THEOREM PlatformTyped == PlatformSpec => []PlatformTypeOK
<1>1. PlatformInv => PlatformTypeOK
  <2>1. PlatformInv => IdTypeOK /\ TenantTypeOK /\ GateTypeOK
    BY DEF PlatformInv, IdInv, TenantInv, GateInv
  <2> QED  BY <2>1, DefInvTyped, CampInvTyped DEF PlatformInv, StartupInv, PlatformTypeOK
<1> QED  BY <1>1, PlatformInitInv, PlatformStepInv, PTL DEF PlatformSpec
=============================================================================
