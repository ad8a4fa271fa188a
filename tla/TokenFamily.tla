----------------------------- MODULE TokenFamily -----------------------------
(***************************************************************************)
(* Authorization-code exchange and refresh-token rotation of the OAuth2    *)
(* module: requests to the token endpoint run concurrently, each one a     *)
(* sequence of store calls that other requests, logout and user            *)
(* administration interleave with.  A store call is one step: db_memory    *)
(* takes a mutex, db_postgres runs one statement or one transaction that   *)
(* locks the parent row.  (A statement of db_postgres that updates a whole *)
(* family may miss a row that a Rotate inserts while it waits; no request  *)
(* reaches that Rotate, see OwnTokenAccepted.)                             *)
(* Clients, scopes, sender constraints and signatures are                  *)
(* reduced to whether a check passes.                                      *)
(***************************************************************************)
EXTENDS Integers, FiniteSets

CONSTANTS
  Codes, NoCode,      \* authorization codes
  Tokens, NoToken,    \* identities of refresh tokens; a family is named by its first token
  Requests,           \* concurrent requests to the token and revocation endpoints
  Sessions, Sid,      \* login sessions, and the session each code was issued in
  Store,              \* "memory" or "postgres": which RefreshTokenStore is wired
  Tenant,             \* the tenant of the requests
  DefaultTenant,      \* kernel.DefaultTenantID
  NoTenant,           \* the empty TenantID
  CodeTTL, RefreshTTL, AbsoluteTTL,   \* lifetimes, in ticks
  MaxTime             \* bound: the clock stops here

ASSUME TokenAssumption ==
  /\ NoCode \notin Codes /\ NoToken \notin Tokens
  /\ Sid \in [Codes -> Sessions]
  /\ Store \in {"memory", "postgres"}
  /\ Tenant # NoTenant
  /\ CodeTTL \in Nat \ {0} /\ RefreshTTL \in Nat \ {0} /\ AbsoluteTTL \in Nat \ {0}
  /\ RefreshTTL <= AbsoluteTTL
  /\ MaxTime \in Nat

VARIABLES
  now,        \* the clock
  code,       \* per code: state, expires, issued family
  user,       \* status of the resource owner
  epoch,      \* the owner's revocation epoch; 0 when there is no row
  used,       \* tokens ever inserted
  stored,     \* tokens the store still holds
  row,        \* per token: the columns that are written once
  rotated,    \* tokens marked rotated
  revoked,    \* tokens marked revoked
  known,      \* tokens a client received in a response
  req,        \* per request: what it is about to do and what it read
  killed      \* history: families on which RevokeFamily has run

tokenVars == <<used, stored, row, rotated, revoked>>
vars == <<now, code, user, epoch, tokenVars, known, req, killed>>

CodeStates == {"unissued", "issued", "redeemed", "expired"}
UserStates == {"active", "disabled", "deleted"}
Steps == {"idle", "user", "redeem", "expire", "sign", "save", "link", "replayed",
          "owner", "epoch", "rotate", "issue", "revoke", "foreign"}
Code == [state : CodeStates, expires : Nat, family : Tokens \union {NoToken}]
Row == [family : Tokens \union {NoToken}, parent : Tokens \union {NoToken},
        code : Codes \union {NoCode}, issued : Nat, exp : Nat, abs : Nat,
        tenant : {Tenant, DefaultTenant, NoTenant}]
Request == [step : Steps, code : Codes \union {NoCode}, token : Tokens \union {NoToken},
            family : Tokens \union {NoToken}, at : Nat]

NoRow == [family |-> NoToken, parent |-> NoToken, code |-> NoCode,
          issued |-> 0, exp |-> 0, abs |-> 0, tenant |-> NoTenant]
Idle == [step |-> "idle", code |-> NoCode, token |-> NoToken, family |-> NoToken, at |-> 0]

Init ==
  /\ now = 0
  /\ code = [c \in Codes |-> [state |-> "unissued", expires |-> 0, family |-> NoToken]]
  /\ user = "active" /\ epoch = 0
  /\ used = {} /\ stored = {} /\ rotated = {} /\ revoked = {}
  /\ row = [t \in Tokens |-> NoRow]
  /\ known = {} /\ killed = {}
  /\ req = [r \in Requests |-> Idle]

Replay(t) == t \in rotated \union revoked               \* IsRefreshTokenReplay
AbsoluteExpired(t, at) == at >= row[t].abs              \* IsRefreshTokenAbsoluteExpired
Live == {t \in stored : ~ Replay(t)}
FamilyOf(f) == {t \in stored : row[t].family = f}

Go(r, step) == req' = [req EXCEPT ![r].step = step]
Finish(r) == req' = [req EXCEPT ![r] = Idle]

-------------------------------------------------------------------------------
(* The refresh-token store *)

(* The TenantID that FindByHash returns for a record written by Save: db_postgres
   has no such column. *)
SavedTenant == IF Store = "memory" THEN Tenant ELSE NoTenant

(* ... and for a record written by Rotate: RotateRefreshToken copies no TenantID,
   and db_memory then fills in the default tenant. *)
RotatedTenant == IF Store = "memory" THEN DefaultTenant ELSE NoTenant

GenerateInitialRefreshToken(t, c, at) ==
  [family |-> t, parent |-> NoToken, code |-> c, issued |-> at,
   exp |-> at + RefreshTTL, abs |-> at + AbsoluteTTL, tenant |-> SavedTenant]

\* Mutant: a new absolute lifetime.
RotateFromNow(p, at) == at + AbsoluteTTL
RotatedAbsolute(p, at) == row[p].abs

RotateRefreshToken(p, at) ==
  LET abs == RotatedAbsolute(p, at)
  IN  [family |-> row[p].family, parent |-> p, code |-> row[p].code, issued |-> at,
       exp |-> IF at + RefreshTTL > abs THEN abs ELSE at + RefreshTTL,
       abs |-> abs, tenant |-> RotatedTenant]

Insert(t, record) == /\ t \in Tokens \ used
                     /\ used' = used \union {t}
                     /\ stored' = stored \union {t}
                     /\ row' = [row EXCEPT ![t] = record]

\* Mutant: trusts the earlier FindByHash.
RotatableUnlocked(p) == p \in stored
\* Mutant: forgets revoked.
RotatableUnrotated(p) == p \in stored /\ p \notin rotated
(* The parent a Rotate accepts, read under the mutex or the row lock. *)
Rotatable(p) == p \in stored /\ ~ Replay(p)

-------------------------------------------------------------------------------
(* ExchangeCodeForToken *)

(* The authorization endpoint saves a code. *)
SaveCode(c) ==
  /\ code[c].state = "unissued"
  /\ code' = [code EXCEPT ![c] = [state |-> "issued", expires |-> now + CodeTTL, family |-> NoToken]]
  /\ UNCHANGED <<now, user, epoch, tokenVars, known, req, killed>>

(* revokeReplayedFamily with the record the request read: nothing to do when
   that record names no family. *)
AfterReplay(family) == IF family = NoToken THEN "replayed" ELSE "revoke"

(* CodeStore.Find and the check of state and expiry.  A request refused for its
   client, redirect_uri, verifier or resource changes nothing. *)
FindCode(r, c) ==
  /\ req[r] = Idle
  /\ code[c].state # "unissued"
  /\ LET rec == code[c]
         step == IF rec.state # "issued" THEN AfterReplay(rec.family)
                 ELSE IF now >= rec.expires THEN "expire" ELSE "user"
     IN  req' = [req EXCEPT ![r] = [step |-> step, code |-> c, token |-> NoToken,
                                    family |-> rec.family, at |-> now]]
  /\ UNCHANGED <<now, code, user, epoch, tokenVars, known, killed>>

\* Mutant: redeems a redeemed code again.
NotExpired(c) == code[c].state # "expired"
(* The code CAS of Redeem and MarkExpired applies to an issued code only. *)
StillIssued(c) == code[c].state = "issued"

MarkExpired(r) ==
  /\ req[r].step = "expire"
  /\ code' = IF StillIssued(req[r].code)
             THEN [code EXCEPT ![req[r].code].state = "expired"] ELSE code
  /\ Go(r, AfterReplay(req[r].family))
  /\ UNCHANGED <<now, user, epoch, tokenVars, known, killed>>

CheckCodeUser(r) ==
  /\ req[r].step = "user"
  /\ IF user = "active" THEN Go(r, "redeem") ELSE Finish(r)
  /\ UNCHANGED <<now, code, user, epoch, tokenVars, known, killed>>

Redeem(r) ==
  /\ req[r].step = "redeem"
  /\ IF StillIssued(req[r].code)
     THEN code' = [code EXCEPT ![req[r].code].state = "redeemed"] /\ Go(r, "sign")
     ELSE UNCHANGED code /\ Go(r, AfterReplay(req[r].family))
  /\ UNCHANGED <<now, user, epoch, tokenVars, known, killed>>

(* SignAccessToken and SignIDToken; the request ends here when one of them fails
   or when ExchangeScopes grants no refresh token. *)
SignTokens(r) ==
  /\ req[r].step = "sign"
  /\ Go(r, "save") \/ Finish(r)
  /\ UNCHANGED <<now, code, user, epoch, tokenVars, known, killed>>

SaveToken(r) ==
  /\ req[r].step = "save"
  /\ \E t \in Tokens :
       /\ Insert(t, GenerateInitialRefreshToken(t, req[r].code, req[r].at))
       /\ req' = [req EXCEPT ![r] = [@ EXCEPT !.step = "link", !.token = t]]
  /\ UNCHANGED <<now, code, user, epoch, rotated, revoked, known, killed>>

\* Mutant: stores the code instead.
LinkedCode(r) == req[r].code
LinkedFamily(r) == row[req[r].token].family

(* LinkFamily, and the rest of the request: an Upsert of the client session that
   fails keeps the token from the client. *)
LinkFamily(r) ==
  /\ req[r].step = "link"
  /\ code' = [code EXCEPT ![req[r].code].family = LinkedFamily(r)]
  /\ known' \in {known, known \union {req[r].token}}
  /\ Finish(r)
  /\ UNCHANGED <<now, user, epoch, tokenVars, killed>>

-------------------------------------------------------------------------------
(* RefreshTokens and RevokeToken *)

StartOn(r, t, step) ==
  req' = [req EXCEPT ![r] = [step |-> step, code |-> NoCode, token |-> t,
                             family |-> row[t].family, at |-> now]]

(* FindByHash and the checks on the record it returns: tenant, client, replay,
   absolute expiry.  An unknown or expired token changes nothing. *)
FindByHash(r, t, ownClient) ==
  /\ req[r] = Idle
  /\ t \in known \intersect stored
  /\ \/ row[t].tenant # Tenant /\ StartOn(r, t, "foreign")
     \/ row[t].tenant = Tenant /\ (~ ownClient \/ Replay(t)) /\ StartOn(r, t, "revoke")
     \/ /\ row[t].tenant = Tenant /\ ownClient /\ ~ Replay(t)
        /\ ~ AbsoluteExpired(t, now)
        /\ StartOn(r, t, "owner")
  /\ UNCHANGED <<now, code, user, epoch, tokenVars, known, killed>>

CheckOwner(r) ==
  /\ req[r].step = "owner"
  /\ Go(r, IF user = "active" THEN "epoch" ELSE "revoke")
  /\ UNCHANGED <<now, code, user, epoch, tokenVars, known, killed>>

(* UserEpochs, then evaluateRefreshPolicy and IssuanceGuard.Precheck, which may
   refuse the request before anything has changed. *)
CheckEpoch(r) ==
  /\ req[r].step = "epoch"
  /\ IF row[req[r].token].issued < epoch THEN Go(r, "revoke")
     ELSE Go(r, "rotate") \/ Finish(r)
  /\ UNCHANGED <<now, code, user, epoch, tokenVars, known, killed>>

(* Rotate.  A parent deleted meanwhile is an error of the memory store, and the
   loser of a concurrent rotation goes on to revoke the family. *)
Rotate(r) ==
  /\ req[r].step = "rotate"
  /\ LET p == req[r].token
     IN  IF Rotatable(p)
         THEN \E t \in Tokens :
                /\ Insert(t, RotateRefreshToken(p, req[r].at))
                /\ rotated' = rotated \union {p}
                /\ req' = [req EXCEPT ![r] = [@ EXCEPT !.step = "issue", !.token = t]]
         ELSE /\ IF p \in stored \/ Store = "postgres" THEN Go(r, "revoke") ELSE Finish(r)
              /\ UNCHANGED <<used, stored, row, rotated>>
  /\ UNCHANGED <<now, code, user, epoch, revoked, known, killed>>

(* SignAccessToken: when it fails the client never sees the new token. *)
IssueAccess(r) ==
  /\ req[r].step = "issue"
  /\ known' \in {known, known \union {req[r].token}}
  /\ Finish(r)
  /\ UNCHANGED <<now, code, user, epoch, tokenVars, killed>>

RevokeFamily(r) ==
  /\ req[r].step = "revoke"
  /\ revoked' = revoked \union FamilyOf(req[r].family)
  /\ killed' = killed \union {req[r].family}
  /\ Finish(r)
  /\ UNCHANGED <<now, code, user, epoch, used, stored, row, rotated, known>>

(* RevokeToken of a token of the request's own tenant and client; any other token
   changes nothing. *)
RevokeToken(r, t) ==
  /\ req[r] = Idle
  /\ t \in known \intersect stored
  /\ row[t].tenant = Tenant
  /\ StartOn(r, t, "revoke")
  /\ UNCHANGED <<now, code, user, epoch, tokenVars, known, killed>>

(* A refusal that was answered without revoking anything reaches the client. *)
Reply(r) ==
  /\ req[r].step \in {"replayed", "foreign"}
  /\ Finish(r)
  /\ UNCHANGED <<now, code, user, epoch, tokenVars, known, killed>>

-------------------------------------------------------------------------------
(* Logout, user administration and time *)

RevokeBySid(s) ==
  /\ revoked' = revoked \union {t \in stored : Sid[row[t].code] = s}
  /\ revoked' # revoked
  /\ UNCHANGED <<now, code, user, epoch, used, stored, row, rotated, known, req, killed>>

(* The save of SetUserDisabled.  The reaction to the event it emits advances the
   epoch in a later call (AdvanceEpoch), which an error in between may prevent. *)
SetUserDisabled ==
  /\ user \in {"active", "disabled"}
  /\ user' \in {"active", "disabled"} \ {user}
  /\ UNCHANGED <<now, code, epoch, tokenVars, known, req, killed>>

(* AdvanceUserRevocationEpoch after a disabling or a change of credentials, with the
   time that caller read earlier. *)
AdvanceEpoch(at) ==
  /\ epoch < at /\ at <= now
  /\ epoch' = at
  /\ UNCHANGED <<now, code, user, tokenVars, known, req, killed>>

(* DeleteUser saves the tombstone first ... *)
DeleteUser ==
  /\ user # "deleted"
  /\ user' = "deleted"
  /\ UNCHANGED <<now, code, epoch, tokenVars, known, req, killed>>

(* ... and then cascades to the tokens, again on every retry. *)
DeleteAllForSub ==
  /\ user = "deleted" /\ stored # {}
  /\ stored' = {}
  /\ UNCHANGED <<now, code, user, epoch, used, row, rotated, revoked, known, req, killed>>

Tick ==
  /\ now < MaxTime
  /\ now' = now + 1
  /\ UNCHANGED <<code, user, epoch, tokenVars, known, req, killed>>

-------------------------------------------------------------------------------
RequestStep(r) ==
  \/ \E c \in Codes : FindCode(r, c)
  \/ MarkExpired(r) \/ CheckCodeUser(r) \/ Redeem(r) \/ SignTokens(r) \/ SaveToken(r) \/ LinkFamily(r)
  \/ \E t \in Tokens : RevokeToken(r, t)
  \/ \E t \in Tokens, ownClient \in BOOLEAN : FindByHash(r, t, ownClient)
  \/ CheckOwner(r) \/ CheckEpoch(r) \/ Rotate(r) \/ IssueAccess(r) \/ RevokeFamily(r) \/ Reply(r)

Administration ==
  \/ \E c \in Codes : SaveCode(c)
  \/ \E s \in Sessions : RevokeBySid(s)
  \/ SetUserDisabled
  \/ \E at \in 1..MaxTime : AdvanceEpoch(at)
  \/ DeleteUser \/ DeleteAllForSub
  \/ Tick

Next == (\E r \in Requests : RequestStep(r)) \/ Administration

Spec == Init /\ [][Next]_vars

-------------------------------------------------------------------------------
(* Type invariant of the stores and of the requests in flight. *)
TypeOK ==
  /\ now \in 0..MaxTime /\ epoch \in 0..MaxTime
  /\ code \in [Codes -> Code] /\ user \in UserStates
  /\ stored \subseteq used /\ used \subseteq Tokens
  /\ row \in [Tokens -> Row]
  /\ rotated \subseteq used /\ revoked \subseteq used /\ known \subseteq used
  /\ killed \subseteq used
  /\ req \in [Requests -> Request]

(* Concurrent refreshes of one token, retries and replays never leave a family
   with two usable tokens (Rotate, db_memory/refresh_tokens.go:60). *)
OneLivePerFamily ==
  \A t, u \in Live : row[t].family = row[u].family => t = u

(* Concurrent exchanges of one authorization code start at most one family
   (Redeem, authorization_code_store.sql:14). *)
OneFamilyPerCode ==
  \A t, u \in used : row[t].code = row[u].code => row[t].family = row[u].family

(* Once RevokeFamily has run on a family, no token of it is usable again, also
   when a rotation was in flight (RevokeFamily, db_memory/refresh_tokens.go:78). *)
DeadFamilyStaysDead ==
  \A t \in Live : row[t].family \notin killed

(* However often a family rotates, its tokens keep the first token's absolute
   lifetime, expire within it and were issued within it (RotateRefreshToken). *)
AbsoluteLifetime ==
  \A t \in used : /\ row[t].abs = row[row[t].family].abs
                  /\ row[t].exp <= row[t].abs
                  /\ row[t].issued < row[t].abs

(* No step of any request makes an unusable token usable again, and a redeemed
   or expired code stays as it is (token.md and authorization.md state tables). *)
NeverUsableAgain ==
  [][/\ \A t \in used : t \notin Live => t \notin Live'
     /\ \A c \in Codes : code[c].state \in {"redeemed", "expired"} => code'[c].state = code[c].state]_vars

(* The usable token of a family, if it has one. *)
Head == [f \in Tokens |-> IF \E t \in Live : row[t].family = f
                          THEN CHOOSE t \in Live : row[t].family = f ELSE NoToken]
Chain == INSTANCE RotationChain WITH head <- Head

(* The interleaved requests implement the one-step rotation chain. *)
RefinesChain == Chain!Spec

-------------------------------------------------------------------------------
(* What the documentation says *)

Exchanging(c) == \E r \in Requests : req[r].code = c /\ req[r].step \in {"sign", "save", "link"}

(* docs/modules/oauth2/features/authorization.md:162: the exchange that comes second
   revokes every token of the code's family; here once the first one has finished. *)
LoserRevokesFamily ==
  \A r \in Requests : req[r].step = "replayed" /\ ~ Exchanging(req[r].code)
                        => \A t \in Live : row[t].code # req[r].code

(* docs/modules/oauth2/features/token.md:40: a token past its sliding expiry is
   expired, and a rotation of it is refused. *)
ExpiredNeverRotates ==
  \A t \in used : row[t].parent # NoToken => row[t].issued < row[row[t].parent].exp

(* docs/modules/oauth2/features/token.md:124: a usable token that its own client
   presents is rotated; it is never taken for another tenant's token. *)
OwnTokenAccepted ==
  \A r \in Requests : req[r].step # "foreign"
===============================================================================
