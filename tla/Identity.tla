------------------------------ MODULE Identity ------------------------------
(***************************************************************************)
(* One account: registration, login, refresh-token rotation, logout, email *)
(* verification and password reset.  A request reads what it needs in its  *)
(* own database transaction and writes at the commit that ends it, with no *)
(* lock in between; the database (READ COMMITTED) keeps only the unique    *)
(* email and the primary keys.                                             *)
(***************************************************************************)
EXTENDS Integers, FiniteSets

CONSTANTS
  IdRequests,    \* requests in progress at a time
  MaxTokens,     \* bound: refresh tokens ever issued
  MaxResets      \* bound: password-reset tokens ever issued

ASSUME IdentityAssumption == MaxTokens \in Nat /\ MaxResets \in Nat

VARIABLES
  idStatus,     \* of the account: absent, pending_verification or active
  idVerify,     \* its verification token: none, open or used
  idToken,      \* refresh tokens: unused id, valid or revoked
  idLogin,      \* the token a token descends from by refreshes
  idReset,      \* reset tokens: none, open or used
  idReq,        \* the requests and what they have read
  idEnded,      \* history: tokens a completed logout or reset had found
  idRaced       \* history: of each login, the requests that came to revoke a
                \* token which another had revoked since they read it

idVars == <<idStatus, idVerify, idToken, idLogin, idReset, idReq, idEnded, idRaced>>

Tokens == 1..MaxTokens
Resets == 1..MaxResets

ValidTokens == {t \in Tokens : idToken[t] = "valid"}
FreshTokens == {t \in Tokens : idToken[t] = "unused"}

NoRequest == [kind |-> "none", arg |-> 0, seen |-> {}]
Kinds == {"register", "login", "refresh", "logout", "change", "verify", "reset"}

IdInit ==
  /\ idStatus = "absent" /\ idVerify = "none"
  /\ idToken = [t \in Tokens |-> "unused"] /\ idLogin = [t \in Tokens |-> t]
  /\ idReset = [k \in Resets |-> "none"]
  /\ idReq = [r \in IdRequests |-> NoRequest]
  /\ idEnded = {} /\ idRaced = [t \in Tokens |-> 0]

----------------------------------------------------------------------------
(* What a request reads.  One that is refused changes nothing.             *)

Begin(r, kind, arg, seen) ==
  /\ idReq[r] = NoRequest
  /\ idReq' = [idReq EXCEPT ![r] = [kind |-> kind, arg |-> arg, seen |-> seen]]
  /\ UNCHANGED <<idStatus, idVerify, idToken, idLogin, idReset, idEnded, idRaced>>

Register(r) == idStatus = "absent" /\ Begin(r, "register", 0, {})

\* With the right password, verified or not.
Login(r) == idStatus # "absent" /\ Begin(r, "login", 0, {})

\* A refresh needs a valid token of an active account.
Refresh(r, t) ==
  idToken[t] = "valid" /\ idStatus = "active" /\ Begin(r, "refresh", t, {})

\* revoke_by_user_id selects the tokens that are not revoked.
Logout(r) == idStatus # "absent" /\ Begin(r, "logout", 0, ValidTokens)

\* The current password is right.
ChangePassword(r) == idStatus # "absent" /\ Begin(r, "change", 0, {})

VerifyEmail(r) == idVerify = "open" /\ Begin(r, "verify", 0, {})

ResetPassword(r, k) == idReset[k] = "open" /\ Begin(r, "reset", k, ValidTokens)

----------------------------------------------------------------------------
(* What its commit writes.                                                 *)

Finish(r) == idReq' = [idReq EXCEPT ![r] = NoRequest]

\* A token is added for the login or registration itself.
IssueToken ==
  \E t \in FreshTokens :
    /\ \A u \in FreshTokens : t <= u
    /\ idToken' = [idToken EXCEPT ![t] = "valid"]

\* A second account with the email violates its unique key: rolled back.
CommitRegister(r) ==
  /\ idReq[r].kind = "register" /\ Finish(r)
  /\ IF idStatus = "absent"
     THEN idStatus' = "pending_verification" /\ IssueToken
     ELSE UNCHANGED <<idStatus, idToken>>
  /\ UNCHANGED <<idVerify, idLogin, idReset, idEnded, idRaced>>

CommitLogin(r) ==
  /\ idReq[r].kind = "login" /\ Finish(r) /\ IssueToken
  /\ UNCHANGED <<idStatus, idVerify, idLogin, idReset, idEnded, idRaced>>

\* Seeded slip: the token presented stays valid.
Mut_RefreshKeepsToken(r) ==
  LET old == idReq[r].arg IN
  /\ idReq[r].kind = "refresh" /\ Finish(r)
  /\ \E t \in FreshTokens :
       /\ \A u \in FreshTokens : t <= u
       /\ idToken' = [idToken EXCEPT ![t] = "valid"]
       /\ idLogin' = [idLogin EXCEPT ![t] = idLogin[old]]
  /\ UNCHANGED <<idStatus, idVerify, idReset, idEnded, idRaced>>

\* The old token is revoked, whether or not another request has done so since
\* it was read, and its successor added.
CommitRefresh(r) ==
  LET old == idReq[r].arg IN
  /\ idReq[r].kind = "refresh" /\ Finish(r)
  /\ \E t \in FreshTokens :
       /\ \A u \in FreshTokens : t <= u
       /\ idToken' = [idToken EXCEPT ![old] = "revoked", ![t] = "valid"]
       /\ idLogin' = [idLogin EXCEPT ![t] = idLogin[old]]
  /\ idRaced' = [idRaced EXCEPT ![idLogin[old]] =
                   IF idToken[old] = "revoked" THEN @ + 1 ELSE @]
  /\ UNCHANGED <<idStatus, idVerify, idReset, idEnded>>

\* A refresh has replaced a token of the login since it was read.
Missed(seen, login) ==
  \E t \in seen \ idEnded : idLogin[t] = login /\ idToken[t] = "revoked"

\* Seeded slip: only one token is revoked.
Mut_RevokeSeenFirst(seen) ==
  /\ idToken' = [t \in Tokens |->
       IF t \in seen /\ (\A u \in seen : t <= u) THEN "revoked" ELSE idToken[t]]
  /\ idEnded' = idEnded \cup seen
  /\ idRaced' = [l \in Tokens |-> idRaced[l] + IF Missed(seen, l) THEN 1 ELSE 0]

\* The tokens in seen, and no other, are revoked.
RevokeSeen(seen) ==
  /\ idToken' = [t \in Tokens |-> IF t \in seen THEN "revoked" ELSE idToken[t]]
  /\ idEnded' = idEnded \cup seen
  /\ idRaced' = [l \in Tokens |-> idRaced[l] + IF Missed(seen, l) THEN 1 ELSE 0]

CommitLogout(r) ==
  /\ idReq[r].kind = "logout" /\ Finish(r) /\ RevokeSeen(idReq[r].seen)
  /\ UNCHANGED <<idStatus, idVerify, idLogin, idReset>>

\* UserRepository.save adds a second row with the user's primary key: the
\* request fails and is rolled back, revocations included.
CommitChange(r) ==
  /\ idReq[r].kind = "change" /\ Finish(r)
  /\ UNCHANGED <<idStatus, idVerify, idToken, idLogin, idReset, idEnded, idRaced>>

CommitVerify(r) ==
  /\ idReq[r].kind = "verify" /\ Finish(r)
  /\ idVerify' = "used" /\ idStatus' = "active"
  /\ UNCHANGED <<idToken, idLogin, idReset, idEnded, idRaced>>

CommitReset(r) ==
  /\ idReq[r].kind = "reset" /\ Finish(r)
  /\ idReset' = [idReset EXCEPT ![idReq[r].arg] = "used"]
  /\ RevokeSeen(idReq[r].seen)
  /\ UNCHANGED <<idStatus, idVerify, idLogin>>

\* The requests that mint verification and reset tokens only insert.
RequestVerification ==
  /\ idStatus = "pending_verification" /\ idVerify = "none" /\ idVerify' = "open"
  /\ UNCHANGED <<idStatus, idToken, idLogin, idReset, idReq, idEnded, idRaced>>

RequestReset ==
  /\ idStatus # "absent"
  /\ \E k \in Resets : idReset[k] = "none" /\ idReset' = [idReset EXCEPT ![k] = "open"]
  /\ UNCHANGED <<idStatus, idVerify, idToken, idLogin, idReq, idEnded, idRaced>>

\* The request fails or its token has expired: nothing is written.
AbandonRequest(r) ==
  /\ idReq[r] # NoRequest /\ Finish(r)
  /\ UNCHANGED <<idStatus, idVerify, idToken, idLogin, idReset, idEnded, idRaced>>

IdNext ==
  \/ \E r \in IdRequests :
       \/ Register(r) \/ Login(r) \/ Logout(r) \/ ChangePassword(r) \/ VerifyEmail(r)
       \/ (\E t \in Tokens : Refresh(r, t)) \/ (\E k \in Resets : ResetPassword(r, k))
       \/ CommitRegister(r) \/ CommitLogin(r) \/ CommitRefresh(r) \/ CommitLogout(r)
       \/ CommitChange(r) \/ CommitVerify(r) \/ CommitReset(r) \/ AbandonRequest(r)
  \/ RequestVerification \/ RequestReset

IdSpec == IdInit /\ [][IdNext]_idVars

----------------------------------------------------------------------------
(* Properties.                                                             *)

IdTypeOK ==
  /\ idStatus \in {"absent", "pending_verification", "active"}
  /\ idVerify \in {"none", "open", "used"}
  /\ idToken \in [Tokens -> {"unused", "valid", "revoked"}]
  /\ idLogin \in [Tokens -> Tokens]
  /\ idReset \in [Resets -> {"none", "open", "used"}]
  /\ idReq \in [IdRequests ->
       [kind : Kinds \cup {"none"}, arg : Nat, seen : SUBSET Tokens]]
  /\ idEnded \subseteq Tokens /\ idRaced \in [Tokens -> Nat]

\* The valid tokens that descend from the login that issued t.
Sessions(t) == {u \in ValidTokens : idLogin[u] = t}

\* A completed logout or password reset had found a token of the login.
Over(login) == \E t \in idEnded : idLogin[t] = login

(* Rotation keeps one valid refresh token per login, and a logout or       *)
(* password reset that found one leaves none: every further one comes from *)
(* a race between two requests that read the same token, of which the one  *)
(* that committed last found it revoked.  So a login survives "logout and  *)
(* revoke all refresh tokens" only where a refresh was in progress.        *)
OneSessionPerLogin ==
  \A t \in Tokens : idLogin[t] = t =>
    Cardinality(Sessions(t)) <= (IF Over(t) THEN 0 ELSE 1) + idRaced[t]
============================================================================
