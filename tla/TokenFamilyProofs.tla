-------------------------- MODULE TokenFamilyProofs --------------------------
(***************************************************************************)
(* Proofs about TokenFamily, for any sets of codes, tokens, requests and   *)
(* sessions, either store, any tenant and any lifetimes.                   *)
(***************************************************************************)
EXTENDS TokenFamily, TLAPS

\* What a request holds refers to rows that exist, and every row belongs to a family
\* whose first token exists and to a code.
Refers ==
  /\ \A c \in Codes : code[c].family \in used \union {NoToken}
  /\ \A t \in used : /\ row[t].family \in used
                     /\ row[row[t].family].family = row[t].family
                     /\ row[t].code \in Codes
  /\ \A r \in Requests :
       /\ req[r].step \in {"user", "redeem", "expire", "sign", "save", "link", "replayed"}
            => req[r].code \in Codes
       /\ req[r].step \in {"link", "owner", "epoch", "rotate", "issue"} => req[r].token \in used
       /\ req[r].step \in {"revoke", "owner", "epoch", "rotate"} => req[r].family \in used
       /\ req[r].step \in {"user", "redeem", "expire", "sign", "save"}
            => req[r].family \in used \union {NoToken}

TokenInv == TypeOK /\ Refers

\* The initial state satisfies the type invariant.
LEMMA InitToken == Init => TokenInv
BY TokenAssumption DEF Init, TokenInv, TypeOK, Refers, Code, CodeStates, UserStates, Row, NoRow,
   Request, Idle, Steps

\* A request that moves to another step with another token is a request.
LEMMA Retarget ==
  ASSUME NEW q \in Request, NEW s \in Steps, NEW t \in Tokens
  PROVE  [q EXCEPT !.step = s, !.token = t] \in Request
BY DEF Request

\* What a request at a given step must hold.
HoldsFor(step, q) ==
  /\ step \in {"user", "redeem", "expire", "sign", "save", "link", "replayed"} => q.code \in Codes
  /\ step \in {"link", "owner", "epoch", "rotate", "issue"} => q.token \in used
  /\ step \in {"revoke", "owner", "epoch", "rotate"} => q.family \in used
  /\ step \in {"user", "redeem", "expire", "sign", "save"} => q.family \in used \union {NoToken}

\* A request that moves to another step, or ends, and holds what that step needs keeps
\* the type invariant, whatever happens to the state of a code.
LEMMA Moves ==
  ASSUME TokenInv, NEW r \in Requests, NEW step \in Steps, Go(r, step) \/ Finish(r),
         code' \in [Codes -> Code], \A c \in Codes : code'[c].family = code[c].family,
         UNCHANGED <<now, user, epoch, tokenVars, known, killed>>,
         HoldsFor(step, req[r])
  PROVE  TokenInv'
<1>1. req \in [Requests -> Request] /\ req[r] \in Request
  BY DEF TokenInv, TypeOK
<1>2. [req[r] EXCEPT !.step = step] \in Request /\ Idle \in Request
  BY <1>1 DEF Request, Idle, Steps
<1>3. PICK new \in Request : /\ req' = [req EXCEPT ![r] = new]
                             /\ new = [req[r] EXCEPT !.step = step] \/ new = Idle
  BY <1>1, <1>2 DEF Go, Finish
<1>4. HoldsFor(new.step, new)
  <2>1. CASE new = Idle
    BY <2>1 DEF Idle, HoldsFor
  <2>2. CASE new = [req[r] EXCEPT !.step = step]
    <3>1. new.step = step /\ new.code = req[r].code /\ new.token = req[r].token /\ new.family = req[r].family
      BY <1>1, <2>2 DEF Request
    <3>. QED BY <3>1 DEF HoldsFor
  <2>. QED BY <1>3, <2>1, <2>2
<1>5. req' \in [Requests -> Request] /\ \A q \in Requests : req'[q] = IF q = r THEN new ELSE req[q]
  BY <1>1, <1>3
<1>6. \A q \in Requests : HoldsFor(req'[q].step, req'[q])
  BY <1>4, <1>5 DEF TokenInv, Refers, HoldsFor
<1>7. TypeOK'
  BY <1>5 DEF TokenInv, TypeOK, tokenVars
<1>8. Refers'
  BY <1>6 DEF TokenInv, Refers, HoldsFor, tokenVars
<1>. QED BY <1>7, <1>8 DEF TokenInv

\* The steps of a request that only move it on keep the type invariant.
LEMMA MovingToken ==
  ASSUME TokenInv, NEW r \in Requests,
         \/ MarkExpired(r) \/ CheckCodeUser(r) \/ Redeem(r) \/ SignTokens(r)
         \/ CheckOwner(r) \/ CheckEpoch(r) \/ Reply(r)
         \/ Rotate(r) /\ ~ Rotatable(req[r].token)
  PROVE  TokenInv'
<1>1. code \in [Codes -> Code] /\ req[r] \in Request
  BY DEF TokenInv, TypeOK
<1>2. HoldsFor(req[r].step, req[r])
  BY DEF TokenInv, Refers, HoldsFor
<1>3. CASE MarkExpired(r)
  <2>1. req[r].code \in Codes /\ req[r].family \in used \union {NoToken}
    BY <1>2, <1>3 DEF MarkExpired, HoldsFor
  <2>2. code' \in [Codes -> Code] /\ \A c \in Codes : code'[c].family = code[c].family
    <3>1. code' = code \/ code' = [code EXCEPT ![req[r].code].state = "expired"]
      BY <1>3 DEF MarkExpired
    <3>2. CASE code' = [code EXCEPT ![req[r].code].state = "expired"]
      BY <1>1, <2>1, <3>2 DEF Code, CodeStates
    <3>. QED BY <1>1, <3>1, <3>2
  <2>3. PICK step \in Steps : Go(r, step) /\ HoldsFor(step, req[r])
    BY <1>3, <2>1 DEF MarkExpired, AfterReplay, HoldsFor, Steps
  <2>. QED BY <1>3, <2>2, <2>3, Moves DEF MarkExpired
<1>4. CASE Redeem(r)
  <2>1. req[r].code \in Codes /\ req[r].family \in used \union {NoToken}
    BY <1>2, <1>4 DEF Redeem, HoldsFor
  <2>2. code' \in [Codes -> Code] /\ \A c \in Codes : code'[c].family = code[c].family
    <3>1. code' = code \/ code' = [code EXCEPT ![req[r].code].state = "redeemed"]
      BY <1>4 DEF Redeem
    <3>2. CASE code' = [code EXCEPT ![req[r].code].state = "redeemed"]
      BY <1>1, <2>1, <3>2 DEF Code, CodeStates
    <3>. QED BY <1>1, <3>1, <3>2
  <2>3. PICK step \in Steps : Go(r, step) /\ HoldsFor(step, req[r])
    BY <1>4, <2>1 DEF Redeem, AfterReplay, HoldsFor, Steps
  <2>. QED BY <1>4, <2>2, <2>3, Moves DEF Redeem
<1>5. CASE CheckCodeUser(r) \/ SignTokens(r) \/ CheckOwner(r) \/ CheckEpoch(r) \/ Reply(r)
  <2>1. PICK step \in Steps : (Go(r, step) \/ Finish(r)) /\ HoldsFor(step, req[r])
    <3>1. CASE CheckCodeUser(r)
      <4>1. HoldsFor("redeem", req[r]) /\ "redeem" \in Steps
        BY <1>2, <3>1 DEF CheckCodeUser, HoldsFor, Steps
      <4>. QED BY <3>1, <4>1 DEF CheckCodeUser
    <3>2. CASE SignTokens(r)
      <4>1. HoldsFor("save", req[r]) /\ "save" \in Steps
        BY <1>2, <3>2 DEF SignTokens, HoldsFor, Steps
      <4>. QED BY <3>2, <4>1 DEF SignTokens
    <3>3. CASE CheckOwner(r) \/ CheckEpoch(r)
      <4>1. /\ HoldsFor("revoke", req[r]) /\ HoldsFor("epoch", req[r]) /\ HoldsFor("rotate", req[r])
            /\ {"revoke", "epoch", "rotate"} \subseteq Steps
        BY <1>2, <3>3 DEF CheckOwner, CheckEpoch, HoldsFor, Steps
      <4>2. \E step \in {"revoke", "epoch", "rotate"} : Go(r, step) \/ Finish(r)
        BY <3>3 DEF CheckOwner, CheckEpoch
      <4>. QED BY <4>1, <4>2
    <3>4. CASE Reply(r)
      <4>1. HoldsFor("idle", req[r]) /\ "idle" \in Steps
        BY DEF HoldsFor, Steps
      <4>. QED BY <3>4, <4>1 DEF Reply
    <3>. QED BY <1>5, <3>1, <3>2, <3>3, <3>4
  <2>2. UNCHANGED <<now, code, user, epoch, tokenVars, known, killed>>
    BY <1>5 DEF CheckCodeUser, SignTokens, CheckOwner, CheckEpoch, Reply
  <2>. QED BY <1>1, <2>1, <2>2, Moves
<1>6. CASE Rotate(r) /\ ~ Rotatable(req[r].token)
  <2>1. HoldsFor("revoke", req[r]) /\ "revoke" \in Steps
    BY <1>2, <1>6 DEF Rotate, HoldsFor, Steps
  <2>2. Go(r, "revoke") \/ Finish(r)
    BY <1>6 DEF Rotate
  <2>3. UNCHANGED <<now, code, user, epoch, tokenVars, known, killed>>
    BY <1>6 DEF Rotate, tokenVars
  <2>. QED BY <1>1, <2>1, <2>2, <2>3, Moves
<1>. QED BY <1>3, <1>4, <1>5, <1>6

\* The other steps of an exchange keep the type invariant.
LEMMA ExchangeToken ==
  ASSUME TokenInv, NEW r \in Requests,
         (\E c \in Codes : FindCode(r, c)) \/ SaveToken(r) \/ LinkFamily(r)
  PROVE  TokenInv'
<1>0. \A t \in Tokens : [req[r] EXCEPT !.step = "link", !.token = t] \in Request
  <2>1. req[r] \in Request /\ "link" \in Steps
    BY DEF TokenInv, TypeOK, Steps
  <2>. QED BY <2>1, Retarget
<1>00. \A c \in Codes, f \in Tokens :
         LET new == [code EXCEPT ![c].family = f]
         IN  new \in [Codes -> Code] /\ \A d \in Codes : new[d].family = IF d = c THEN f ELSE code[d].family
  BY DEF TokenInv, TypeOK, Code
<1>. USE TokenAssumption DEF TokenInv, TypeOK, Refers, Code, CodeStates, UserStates, Request, Steps, tokenVars,
         Go, Finish, Idle
<1>1. ASSUME NEW c \in Codes, FindCode(r, c) PROVE TokenInv'
  <2>. DEFINE rec == code[c]
              step == IF rec.state # "issued" THEN AfterReplay(rec.family)
                      ELSE IF now >= rec.expires THEN "expire" ELSE "user"
              new == [step |-> step, code |-> c, token |-> NoToken, family |-> rec.family, at |-> now]
  <2>1. /\ req' = [req EXCEPT ![r] = new]
        /\ UNCHANGED <<now, code, user, epoch, tokenVars, known, killed>>
    BY <1>1 DEF FindCode
  <2>2. /\ rec.family \in Tokens \union {NoToken} /\ now \in Nat
        /\ rec.family \in used \union {NoToken}
    BY DEF Code
  <2>3. step \in {"revoke", "replayed", "expire", "user"} /\ (step = "revoke" => rec.family \in used)
    BY <2>2 DEF AfterReplay
  <2>4. new \in Request
    BY <2>2, <2>3 DEF Request, Steps
  <2>. HIDE DEF step
  <2>5. TypeOK'
    BY <2>1, <2>4
  <2>6. Refers'
    BY <2>1, <2>2, <2>3
  <2>. QED BY <2>5, <2>6
<1>2. CASE SaveToken(r)
  <2>1. PICK t \in Tokens :
          /\ Insert(t, GenerateInitialRefreshToken(t, req[r].code, req[r].at))
          /\ req' = [req EXCEPT ![r] = [@ EXCEPT !.step = "link", !.token = t]]
    BY <1>2 DEF SaveToken
  <2>2. req[r].code \in Codes /\ req[r].at \in Nat
    BY <1>2 DEF SaveToken
  <2>3. GenerateInitialRefreshToken(t, req[r].code, req[r].at) \in Row
    BY <2>2 DEF GenerateInitialRefreshToken, Row, SavedTenant
  <2>4. /\ row' \in [Tokens -> Row]
        /\ row'[t] = GenerateInitialRefreshToken(t, req[r].code, req[r].at)
        /\ \A u \in used : row'[u] = row[u]
        /\ t \notin used /\ used' = used \union {t} /\ stored' = stored \union {t}
    BY <2>1, <2>3 DEF Insert
  <2>5. row'[t].family = t /\ row'[t].code = req[r].code
    BY <2>4 DEF GenerateInitialRefreshToken
  <2>6. req' \in [Requests -> Request]
    BY <1>0, <2>1
  <2>7. TypeOK'
    BY <1>2, <2>4, <2>6 DEF SaveToken
  <2>8. \A u \in used' : /\ row'[u].family \in used'
                         /\ row'[row'[u].family].family = row'[u].family
                         /\ row'[u].code \in Codes
    BY <2>2, <2>4, <2>5
  <2>9. /\ req'[r].step = "link" /\ req'[r].token = t /\ req'[r].code = req[r].code
        /\ \A q \in Requests \ {r} : req'[q] = req[q]
    BY <2>1 DEF Request
  <2>10. Refers'
    BY <1>2, <2>2, <2>4, <2>8, <2>9 DEF SaveToken
  <2>. QED BY <2>7, <2>10
<1>3. CASE LinkFamily(r)
  <2>1. /\ row[req[r].token].family \in used
        /\ req[r].token \in used /\ req[r].code \in Codes
    BY <1>3 DEF LinkFamily
  <2>2. /\ code' = [code EXCEPT ![req[r].code].family = row[req[r].token].family]
        /\ code' \in [Codes -> Code]
        /\ \A c \in Codes : code'[c].family \in used \union {NoToken}
    <3>1. code' = [code EXCEPT ![req[r].code].family = row[req[r].token].family]
      BY <1>3 DEF LinkFamily, LinkedFamily
    <3>2. /\ \A c \in Codes : code[c].family \in used \union {NoToken}
          /\ row[req[r].token].family \in Tokens
      BY <2>1
    <3>. HIDE DEF TokenInv, TypeOK, Refers, Code
    <3>. QED BY <1>00, <2>1, <3>1, <3>2
  <2>3. req' = [req EXCEPT ![r] = Idle] /\ req' \in [Requests -> Request]
    BY <1>3 DEF LinkFamily, Finish, Request, Idle, Steps
  <2>4. TypeOK'
    BY <1>3, <2>1, <2>2, <2>3 DEF LinkFamily
  <2>5. Refers'
    BY <1>3, <2>2, <2>3 DEF LinkFamily, Idle
  <2>. QED BY <2>4, <2>5
<1>. QED BY <1>1, <1>2, <1>3

\* The other steps of refresh and revocation keep the type invariant.
LEMMA RefreshToken ==
  ASSUME TokenInv, NEW r \in Requests,
         \/ \E t \in Tokens : RevokeToken(r, t)
         \/ \E t \in Tokens, ownClient \in BOOLEAN : FindByHash(r, t, ownClient)
         \/ Rotate(r) \/ IssueAccess(r) \/ RevokeFamily(r)
  PROVE  TokenInv'
<1>0. \A t \in Tokens : [req[r] EXCEPT !.step = "issue", !.token = t] \in Request
  <2>1. req[r] \in Request /\ "issue" \in Steps
    BY DEF TokenInv, TypeOK, Steps
  <2>. QED BY <2>1, Retarget
<1>. USE TokenAssumption DEF TokenInv, TypeOK, Refers, Code, CodeStates, UserStates, Request, Steps, tokenVars,
         Go, Finish, Idle
<1>1. ASSUME NEW t \in Tokens, RevokeToken(r, t) PROVE TokenInv'
  BY <1>1 DEF RevokeToken, StartOn, Row
<1>2. ASSUME NEW t \in Tokens, NEW ownClient \in BOOLEAN, FindByHash(r, t, ownClient) PROVE TokenInv'
  <2>1. t \in used /\ row[t].family \in used /\ now \in Nat
    BY <1>2 DEF FindByHash
  <2>2. PICK step \in {"foreign", "revoke", "owner"} : StartOn(r, t, step)
    BY <1>2 DEF FindByHash
  <2>. DEFINE new == [step |-> step, code |-> NoCode, token |-> t, family |-> row[t].family, at |-> now]
  <2>3. new \in Request
    BY <2>1 DEF Request, Steps
  <2>4. req' = [req EXCEPT ![r] = new]
    BY <2>2 DEF StartOn
  <2>5. TypeOK'
    BY <1>2, <2>3, <2>4 DEF FindByHash
  <2>6. Refers'
    BY <1>2, <2>1, <2>4 DEF FindByHash
  <2>. QED BY <2>5, <2>6
<1>3. CASE Rotate(r)
  <2>. DEFINE p == req[r].token
  <2>1. CASE Rotatable(p)
    <3>1. PICK t \in Tokens :
            /\ Insert(t, RotateRefreshToken(p, req[r].at))
            /\ rotated' = rotated \union {p}
            /\ req' = [req EXCEPT ![r] = [@ EXCEPT !.step = "issue", !.token = t]]
      BY <1>3, <2>1 DEF Rotate
    <3>2. p \in used /\ row[p] \in Row /\ req[r].at \in Nat /\ row[p].code \in Codes
      BY <1>3 DEF Rotate
    <3>3. RotateRefreshToken(p, req[r].at) \in Row
      BY <3>2 DEF RotateRefreshToken, RotatedAbsolute, Row, RotatedTenant
    <3>4. /\ row' \in [Tokens -> Row]
          /\ row'[t] = RotateRefreshToken(p, req[r].at)
          /\ \A u \in used : row'[u] = row[u]
          /\ t \notin used /\ used' = used \union {t} /\ stored' = stored \union {t}
      BY <3>1, <3>3 DEF Insert
    <3>5. row'[t].family = row[p].family /\ row'[t].code = row[p].code
      BY <3>4 DEF RotateRefreshToken
    <3>6. req' \in [Requests -> Request]
      BY <1>0, <3>1
    <3>7. TypeOK'
      BY <1>3, <3>1, <3>2, <3>4, <3>6 DEF Rotate
    <3>8. \A u \in used' : /\ row'[u].family \in used'
                           /\ row'[row'[u].family].family = row'[u].family
                           /\ row'[u].code \in Codes
      BY <3>2, <3>4, <3>5
    <3>9. /\ req'[r].step = "issue" /\ req'[r].token = t
          /\ \A q \in Requests \ {r} : req'[q] = req[q]
      BY <3>1 DEF Request
    <3>10. Refers'
      BY <1>3, <3>4, <3>8, <3>9 DEF Rotate
    <3>. QED BY <3>7, <3>10
  <2>2. CASE ~ Rotatable(p)
    <3>. HIDE DEF TokenInv
    <3>. QED BY <1>3, <2>2, MovingToken
  <2>. QED BY <2>1, <2>2
<1>4. CASE IssueAccess(r)
  BY <1>4 DEF IssueAccess
<1>5. CASE RevokeFamily(r)
  BY <1>5 DEF RevokeFamily, FamilyOf
<1>. QED BY <1>1, <1>2, <1>3, <1>4, <1>5

\* Logout, administration and time keep the type invariant.
LEMMA AdministrationToken ==
  ASSUME TokenInv, Administration
  PROVE  TokenInv'
<1>. USE TokenAssumption DEF TokenInv, TypeOK, Refers, Code, CodeStates, UserStates, tokenVars
<1>1. ASSUME NEW c \in Codes, SaveCode(c) PROVE TokenInv'
  BY <1>1 DEF SaveCode
<1>2. ASSUME NEW s \in Sessions, RevokeBySid(s) PROVE TokenInv'
  BY <1>2 DEF RevokeBySid
<1>3. CASE SetUserDisabled
  BY <1>3 DEF SetUserDisabled
<1>4. ASSUME NEW at \in 1..MaxTime, AdvanceEpoch(at) PROVE TokenInv'
  BY <1>4 DEF AdvanceEpoch
<1>5. CASE DeleteUser
  BY <1>5 DEF DeleteUser
<1>6. CASE DeleteAllForSub
  BY <1>6 DEF DeleteAllForSub
<1>7. CASE Tick
  BY <1>7 DEF Tick
<1>. QED BY <1>1, <1>2, <1>3, <1>4, <1>5, <1>6, <1>7 DEF Administration

\* The type invariant is inductive.
LEMMA NextToken == TokenInv /\ [Next]_vars => TokenInv'
<1>. SUFFICES ASSUME TokenInv, [Next]_vars PROVE TokenInv'
  OBVIOUS
<1>1. ASSUME NEW r \in Requests, RequestStep(r) PROVE TokenInv'
  BY <1>1, MovingToken, ExchangeToken, RefreshToken DEF RequestStep
<1>2. CASE UNCHANGED vars
  BY <1>2 DEF vars, tokenVars, TokenInv, TypeOK, Refers
<1>. QED BY <1>1, <1>2, AdministrationToken DEF Next

\* The stores and the requests keep their types, for every instance (TypeOK).
THEOREM TokenTypeCorrect == Spec => []TypeOK
<1>1. TokenInv => TypeOK
  BY DEF TokenInv
<1>. QED BY InitToken, NextToken, <1>1, PTL DEF Spec

-------------------------------------------------------------------------------
(* Usable tokens *)

\* Only five operations touch the refresh-token store.
LEMMA TokenSteps ==
  ASSUME [Next]_vars
  PROVE  \/ \E r \in Requests : SaveToken(r) \/ Rotate(r) \/ RevokeFamily(r)
         \/ \E s \in Sessions : RevokeBySid(s)
         \/ DeleteAllForSub
         \/ UNCHANGED <<tokenVars, killed>>
BY DEF Next, RequestStep, Administration, vars, FindCode, MarkExpired, CheckCodeUser, Redeem, SignTokens,
   LinkFamily, RevokeToken, FindByHash, CheckOwner, CheckEpoch, IssueAccess, Reply, SaveCode,
   SetUserDisabled, AdvanceEpoch, DeleteUser, Tick

\* What a Save changes: one usable token, the first of a family of its own.
LEMMA SaveEffect ==
  ASSUME TokenInv, NEW r \in Requests, SaveToken(r)
  PROVE  \E t \in Tokens \ used :
           /\ used' = used \union {t} /\ stored' = stored \union {t}
           /\ row' = [row EXCEPT ![t] = GenerateInitialRefreshToken(t, req[r].code, req[r].at)]
           /\ row'[t].family = t /\ row'[t].code = req[r].code
           /\ row'[t].abs = req[r].at + AbsoluteTTL
           /\ row'[t].exp = req[r].at + RefreshTTL /\ row'[t].issued = req[r].at
           /\ Live' = Live \union {t}
           /\ \A u \in used : row'[u] = row[u]
           /\ UNCHANGED <<rotated, revoked, killed>>
<1>1. PICK t \in Tokens :
        /\ Insert(t, GenerateInitialRefreshToken(t, req[r].code, req[r].at))
        /\ UNCHANGED <<rotated, revoked, killed>>
  BY DEF SaveToken
<1>2. row \in [Tokens -> Row] /\ stored \subseteq used /\ rotated \subseteq used /\ revoked \subseteq used
  BY DEF TokenInv, TypeOK
<1>3. /\ t \in Tokens \ used /\ used' = used \union {t} /\ stored' = stored \union {t}
      /\ row' = [row EXCEPT ![t] = GenerateInitialRefreshToken(t, req[r].code, req[r].at)]
  BY <1>1 DEF Insert
<1>4. row'[t] = GenerateInitialRefreshToken(t, req[r].code, req[r].at)
  BY <1>2, <1>3
<1>5. /\ row'[t].family = t /\ row'[t].code = req[r].code
      /\ row'[t].abs = req[r].at + AbsoluteTTL
      /\ row'[t].exp = req[r].at + RefreshTTL /\ row'[t].issued = req[r].at
  BY <1>4 DEF GenerateInitialRefreshToken
<1>6. \A u \in used : row'[u] = row[u]
  BY <1>2, <1>3
<1>7. Live' = Live \union {t}
  BY <1>1, <1>2, <1>3 DEF Live, Replay
<1>. QED BY <1>1, <1>3, <1>5, <1>6, <1>7

\* What a Rotate changes: nothing, or the usable token it takes is replaced by another
\* of the same family.
LEMMA RotateEffect ==
  ASSUME TokenInv, NEW r \in Requests, Rotate(r)
  PROVE  \/ UNCHANGED <<tokenVars, killed>>
         \/ \E t \in Tokens \ used, p \in Live :
              /\ p = req[r].token
              /\ used' = used \union {t} /\ stored' = stored \union {t}
              /\ row' = [row EXCEPT ![t] = RotateRefreshToken(p, req[r].at)]
              /\ row'[t].family = row[p].family /\ row'[t].code = row[p].code
              /\ row'[t].abs = row[p].abs /\ row'[t].issued = req[r].at
              /\ row'[t].exp = IF req[r].at + RefreshTTL > row[p].abs THEN row[p].abs
                               ELSE req[r].at + RefreshTTL
              /\ Live' = (Live \ {p}) \union {t}
              /\ \A u \in used : row'[u] = row[u]
              /\ rotated' = rotated \union {p} /\ UNCHANGED <<revoked, killed>>
<1>. DEFINE p == req[r].token
<1>1. CASE ~ Rotatable(p)
  BY <1>1 DEF Rotate, tokenVars
<1>2. CASE Rotatable(p)
  <2>1. PICK t \in Tokens :
          /\ Insert(t, RotateRefreshToken(p, req[r].at))
          /\ rotated' = rotated \union {p}
          /\ UNCHANGED <<revoked, killed>>
    BY <1>2 DEF Rotate
  <2>2. row \in [Tokens -> Row] /\ stored \subseteq used /\ rotated \subseteq used /\ revoked \subseteq used
    BY DEF TokenInv, TypeOK
  <2>3. /\ t \in Tokens \ used /\ used' = used \union {t} /\ stored' = stored \union {t}
        /\ row' = [row EXCEPT ![t] = RotateRefreshToken(p, req[r].at)]
    BY <2>1 DEF Insert
  <2>4. row'[t] = RotateRefreshToken(p, req[r].at)
    BY <2>2, <2>3
  <2>5. /\ row'[t].family = row[p].family /\ row'[t].code = row[p].code
        /\ row'[t].abs = row[p].abs /\ row'[t].issued = req[r].at
        /\ row'[t].exp = IF req[r].at + RefreshTTL > row[p].abs THEN row[p].abs
                         ELSE req[r].at + RefreshTTL
    BY <2>4 DEF RotateRefreshToken, RotatedAbsolute
  <2>6. \A u \in used : row'[u] = row[u]
    BY <2>2, <2>3
  <2>7. p \in Live /\ Live' = (Live \ {p}) \union {t}
    BY <1>2, <2>1, <2>2, <2>3 DEF Live, Replay, Rotatable
  <2>. QED BY <2>1, <2>3, <2>5, <2>6, <2>7
<1>. QED BY <1>1, <1>2

\* Revocations and deletions only take usable tokens away.
LEMMA EndEffect ==
  ASSUME TokenInv,
         \/ \E r \in Requests : RevokeFamily(r)
         \/ \E s \in Sessions : RevokeBySid(s)
         \/ DeleteAllForSub
  PROVE  /\ Live' \subseteq Live /\ UNCHANGED <<used, row, rotated>>
         /\ stored' \subseteq stored /\ revoked \subseteq revoked'
BY DEF RevokeFamily, RevokeBySid, DeleteAllForSub, Live, Replay, FamilyOf

\* Types, one usable token in a family and none in a family that was revoked.
LiveInv == TokenInv /\ OneLivePerFamily /\ DeadFamilyStaysDead

\* The invariant of the usable tokens is inductive.
LEMMA NextLive == LiveInv /\ [Next]_vars => LiveInv'
<1>. SUFFICES ASSUME LiveInv, [Next]_vars PROVE LiveInv'
  OBVIOUS
<1>1. TokenInv /\ TokenInv'
  BY NextToken DEF LiveInv
<1>2. Live \subseteq used /\ killed \subseteq used /\ \A t \in used : row[t].family \in used
  BY <1>1 DEF TokenInv, TypeOK, Refers, Live
<1>3. ASSUME NEW r \in Requests, SaveToken(r) PROVE (OneLivePerFamily /\ DeadFamilyStaysDead)'
  BY <1>1, <1>2, <1>3, SaveEffect DEF LiveInv, OneLivePerFamily, DeadFamilyStaysDead
<1>4. ASSUME NEW r \in Requests, Rotate(r) PROVE (OneLivePerFamily /\ DeadFamilyStaysDead)'
  <2>1. CASE UNCHANGED <<tokenVars, killed>>
    BY <2>1 DEF LiveInv, OneLivePerFamily, DeadFamilyStaysDead, tokenVars, Live, Replay
  <2>2. CASE ~ UNCHANGED <<tokenVars, killed>>
    BY <1>1, <1>2, <1>4, <2>2, RotateEffect DEF LiveInv, OneLivePerFamily, DeadFamilyStaysDead
  <2>. QED BY <2>1, <2>2
<1>5. ASSUME NEW r \in Requests, RevokeFamily(r) PROVE (OneLivePerFamily /\ DeadFamilyStaysDead)'
  <2>1. /\ Live' \subseteq Live /\ UNCHANGED row
        /\ killed' = killed \union {req[r].family}
        /\ \A t \in Live' : row[t].family # req[r].family
    BY <1>5 DEF RevokeFamily, Live, Replay, FamilyOf
  <2>. QED BY <2>1 DEF LiveInv, OneLivePerFamily, DeadFamilyStaysDead
<1>6. CASE DeleteAllForSub \/ \E s \in Sessions : RevokeBySid(s)
  <2>1. Live' \subseteq Live /\ UNCHANGED <<row, killed>>
    BY <1>1, <1>6, EndEffect DEF DeleteAllForSub, RevokeBySid
  <2>. QED BY <1>1, <2>1 DEF LiveInv, OneLivePerFamily, DeadFamilyStaysDead
<1>7. CASE UNCHANGED <<tokenVars, killed>>
  BY <1>1, <1>7 DEF LiveInv, OneLivePerFamily, DeadFamilyStaysDead, tokenVars, Live, Replay
<1>. QED BY <1>1, <1>3, <1>4, <1>5, <1>6, <1>7, TokenSteps DEF LiveInv

\* The initial state has no tokens at all.
LEMMA InitLive == Init => LiveInv
BY InitToken DEF Init, LiveInv, OneLivePerFamily, DeadFamilyStaysDead, Live

\* A family never has two usable tokens (OneLivePerFamily).
THEOREM OneUsableToken == Spec => []OneLivePerFamily
<1>1. LiveInv => OneLivePerFamily
  BY DEF LiveInv
<1>. QED BY InitLive, NextLive, <1>1, PTL DEF Spec

\* A family stays dead once RevokeFamily has run on it (DeadFamilyStaysDead).
THEOREM RevocationIsFinal == Spec => []DeadFamilyStaysDead
<1>1. LiveInv => DeadFamilyStaysDead
  BY DEF LiveInv
<1>. QED BY InitLive, NextLive, <1>1, PTL DEF Spec

\* No step makes an unusable token usable, or moves a redeemed or expired code
\* (NeverUsableAgain).
THEOREM UsableOnlyOnce == Spec => NeverUsableAgain
<1>1. TokenInv /\ [Next]_vars =>
        [/\ \A t \in used : t \notin Live => t \notin Live'
         /\ \A c \in Codes : code[c].state \in {"redeemed", "expired"} => code'[c].state = code[c].state]_vars
  <2>. SUFFICES ASSUME TokenInv, [Next]_vars
       PROVE  /\ \A t \in used : t \notin Live => t \notin Live'
              /\ \A c \in Codes : code[c].state \in {"redeemed", "expired"} => code'[c].state = code[c].state
    OBVIOUS
  <2>1. \A t \in used : t \notin Live => t \notin Live'
    <3>1. ASSUME NEW r \in Requests, SaveToken(r) PROVE \A t \in used : t \notin Live => t \notin Live'
      BY <3>1, SaveEffect
    <3>2. ASSUME NEW r \in Requests, Rotate(r) PROVE \A t \in used : t \notin Live => t \notin Live'
      BY <3>2, RotateEffect DEF tokenVars, Live, Replay
    <3>3. CASE UNCHANGED <<tokenVars, killed>>
      BY <3>3 DEF tokenVars, Live, Replay
    <3>. QED BY <3>1, <3>2, <3>3, TokenSteps, EndEffect
  <2>2. ASSUME NEW c \in Codes, code[c].state \in {"redeemed", "expired"}
        PROVE  code'[c].state = code[c].state
    <3>0. code \in [Codes -> Code]
      BY DEF TokenInv, TypeOK
    <3>1. ASSUME NEW r \in Requests, MarkExpired(r) \/ Redeem(r) \/ LinkFamily(r)
          PROVE  code'[c].state = code[c].state
      BY <2>2, <3>0, <3>1 DEF MarkExpired, Redeem, LinkFamily, StillIssued, Code
    <3>2. ASSUME NEW d \in Codes, SaveCode(d) PROVE code'[c].state = code[c].state
      BY <2>2, <3>0, <3>2 DEF SaveCode
    <3>3. \/ \E r \in Requests : MarkExpired(r) \/ Redeem(r) \/ LinkFamily(r)
          \/ \E d \in Codes : SaveCode(d)
          \/ UNCHANGED code
      BY DEF Next, RequestStep, Administration, vars, FindCode, CheckCodeUser, SignTokens, SaveToken,
         RevokeToken, FindByHash, CheckOwner, CheckEpoch, Rotate, IssueAccess, RevokeFamily, Reply,
         RevokeBySid, SetUserDisabled, AdvanceEpoch, DeleteUser, DeleteAllForSub, Tick
    <3>. QED BY <3>1, <3>2, <3>3
  <2>. QED BY <2>1, <2>2
<1>. QED BY InitToken, NextToken, <1>1, PTL DEF Spec, NeverUsableAgain

-------------------------------------------------------------------------------
(* The rotation chain *)

\* The head of a family is its only usable token.
HeadFacts ==
  /\ \A t \in Live : Head[row[t].family] = t
  /\ \A f \in Tokens : (\A t \in Live : row[t].family # f) => Head[f] = NoToken

\* Head is determined by the usable tokens, before and after a step.
LEMMA HeadIs == ASSUME LiveInv, LiveInv' PROVE HeadFacts /\ HeadFacts'
<1>1. HeadFacts
  <2>1. \A t \in Live : row[t].family \in Tokens
    BY DEF LiveInv, TokenInv, TypeOK, Refers, Live
  <2>. QED BY <2>1 DEF HeadFacts, Head, LiveInv, OneLivePerFamily
<1>2. HeadFacts'
  <2>1. \A t \in Live' : row'[t].family \in Tokens
    BY DEF LiveInv, TokenInv, TypeOK, Refers, Live
  <2>. QED BY <2>1 DEF HeadFacts, Head, LiveInv, OneLivePerFamily
<1>. QED BY <1>1, <1>2

\* The requests of the token endpoint implement the rotation chain (RefinesChain).
THEOREM RequestsImplementChain == Spec => RefinesChain
<1>1. Init => Chain!Init
  BY DEF Init, Chain!Init, Head, Live
<1>2. LiveInv /\ LiveInv' /\ [Next]_vars => [Chain!Next]_(Chain!chainVars)
  <2>. SUFFICES ASSUME LiveInv, LiveInv', [Next]_vars PROVE [Chain!Next]_(Chain!chainVars)
    OBVIOUS
  <2>1. HeadFacts /\ HeadFacts' /\ TokenInv /\ TokenInv'
    BY HeadIs DEF LiveInv
  <2>2. /\ Live \subseteq used /\ used \subseteq Tokens
        /\ \A t \in used : row[t].family \in used
        /\ Live' \subseteq used' /\ used' \subseteq Tokens
        /\ \A t \in used' : row'[t].family \in used'
    BY <2>1 DEF TokenInv, TypeOK, Refers, Live
  <2>3. /\ Head = [f \in Tokens |-> Head[f]] /\ Head' = [f \in Tokens |-> Head'[f]]
    BY DEF Head
  <2>4. ASSUME NEW r \in Requests, SaveToken(r) PROVE [Chain!Next]_(Chain!chainVars)
    <3>1. PICK t \in Tokens \ used :
            /\ used' = used \union {t} /\ row'[t].family = t
            /\ Live' = Live \union {t}
            /\ \A u \in used : row'[u] = row[u]
      BY <2>1, <2>4, SaveEffect
    <3>2. \A f \in Tokens : Head'[f] = IF f = t THEN t ELSE Head[f]
      BY <2>1, <2>2, <3>1 DEF HeadFacts
    <3>3. Head' = [Head EXCEPT ![t] = t]
      BY <2>3, <3>2
    <3>. QED BY <3>1, <3>3 DEF Chain!Next, Chain!Start
  <2>5. ASSUME NEW r \in Requests, Rotate(r), ~ UNCHANGED <<tokenVars, killed>>
        PROVE  [Chain!Next]_(Chain!chainVars)
    <3>1. PICK t \in Tokens \ used, p \in Live :
            /\ used' = used \union {t} /\ row'[t].family = row[p].family
            /\ Live' = (Live \ {p}) \union {t}
            /\ \A u \in used : row'[u] = row[u]
      BY <2>1, <2>5, RotateEffect
    <3>. DEFINE f == row[p].family
    <3>2. f \in Tokens /\ Head[f] = p /\ p # NoToken
      BY <2>1, <2>2, TokenAssumption DEF HeadFacts
    <3>3. \A g \in Tokens : Head'[g] = IF g = f THEN t ELSE Head[g]
      BY <2>1, <2>2, <3>1, <3>2 DEF HeadFacts, LiveInv, OneLivePerFamily
    <3>4. Head' = [Head EXCEPT ![f] = t]
      BY <2>3, <3>3
    <3>. QED BY <3>1, <3>2, <3>4 DEF Chain!Next, Chain!Advance
  <2>6. ASSUME \/ \E r \in Requests : RevokeFamily(r)
               \/ \E s \in Sessions : RevokeBySid(s)
               \/ DeleteAllForSub
        PROVE  [Chain!Next]_(Chain!chainVars)
    <3>1. Live' \subseteq Live /\ UNCHANGED <<used, row>>
      BY <2>1, <2>6, EndEffect
    <3>. DEFINE F == {f \in Tokens : Head'[f] = NoToken}
    <3>2. \A f \in Tokens : Head'[f] = IF f \in F THEN NoToken ELSE Head[f]
      BY <2>1, <2>2, <3>1 DEF HeadFacts
    <3>3. Head' = [f \in Tokens |-> IF f \in F THEN NoToken ELSE Head[f]]
      BY <2>3, <3>2
    <3>. QED BY <3>1, <3>3 DEF Chain!Next, Chain!End
  <2>7. CASE UNCHANGED <<tokenVars, killed>>
    BY <2>7 DEF Chain!chainVars, tokenVars, Head, Live, Replay
  <2>. QED BY <2>4, <2>5, <2>6, <2>7, TokenSteps
<1>. QED BY InitLive, NextLive, <1>1, <1>2, PTL DEF Spec, RefinesChain, Chain!Spec

-------------------------------------------------------------------------------
(* One family per code *)

Winner(r) == req[r].step \in {"sign", "save"}

\* A code is redeemed before its family starts, the request that redeemed it is the
\* only one that may start a family, and it has not started one yet.
CodeInv ==
  /\ TokenInv
  /\ OneFamilyPerCode
  /\ \A t \in used : code[row[t].code].state = "redeemed"
  /\ \A r \in Requests : Winner(r) => /\ code[req[r].code].state = "redeemed"
                                      /\ \A t \in used : row[t].code # req[r].code
  /\ \A r, q \in Requests : Winner(r) /\ Winner(q) /\ req[r].code = req[q].code => r = q

\* The steps of a request that neither win a code nor insert a token.
PlainStep(r) ==
  \/ \E c \in Codes : FindCode(r, c)
  \/ MarkExpired(r) \/ CheckCodeUser(r) \/ (Redeem(r) /\ ~ StillIssued(req[r].code))
  \/ SignTokens(r) \/ LinkFamily(r)
  \/ \E t \in Tokens : RevokeToken(r, t)
  \/ \E t \in Tokens, ownClient \in BOOLEAN : FindByHash(r, t, ownClient)
  \/ CheckOwner(r) \/ CheckEpoch(r) \/ IssueAccess(r) \/ RevokeFamily(r) \/ Reply(r)

\* The initial state has neither tokens nor winners.
LEMMA InitCode == Init => CodeInv
BY InitToken DEF Init, CodeInv, OneFamilyPerCode, Winner, Idle

\* A request that is not about to win a code and moves only itself keeps CodeInv.
LEMMA OtherCode ==
  ASSUME CodeInv, TokenInv', UNCHANGED <<used, row>>,
         \A c \in Codes : code[c].state = "redeemed" => code'[c].state = "redeemed",
         \A r \in Requests : Winner(r)' => Winner(r) /\ req'[r].code = req[r].code
  PROVE  CodeInv'
BY DEF CodeInv, OneFamilyPerCode, TokenInv, Refers, Winner

\* A Rotate moves its own request out of the checks, and touches no code.
LEMMA RotateMoves ==
  ASSUME TokenInv, NEW r \in Requests, Rotate(r)
  PROVE  /\ \A q \in Requests \ {r} : req'[q] = req[q]
         /\ req'[r].step \in {"revoke", "idle", "issue"} /\ UNCHANGED code
<1>0. req \in [Requests -> Request]
  BY DEF TokenInv, TypeOK
<1>1. UNCHANGED code
  BY DEF Rotate
<1>2. PICK t : \/ req' = [req EXCEPT ![r] = [@ EXCEPT !.step = "issue", !.token = t]]
              \/ req' = [req EXCEPT ![r].step = "revoke"]
              \/ req' = [req EXCEPT ![r] = Idle]
  BY DEF Rotate, Go, Finish
<1>3. \A q \in Requests \ {r} : req'[q] = req[q]
  BY <1>0, <1>2
<1>4. CASE req' = [req EXCEPT ![r] = [@ EXCEPT !.step = "issue", !.token = t]]
  BY <1>0, <1>1, <1>3, <1>4 DEF Request
<1>5. CASE req' = [req EXCEPT ![r].step = "revoke"]
  BY <1>0, <1>1, <1>3, <1>5 DEF Request
<1>6. CASE req' = [req EXCEPT ![r] = Idle]
  BY <1>0, <1>1, <1>3, <1>6 DEF Idle
<1>. QED BY <1>2, <1>4, <1>5, <1>6

\* CodeInv is inductive.
LEMMA NextCode == CodeInv /\ [Next]_vars => CodeInv'
<1>. SUFFICES ASSUME CodeInv, [Next]_vars PROVE CodeInv'
  OBVIOUS
<1>1. TokenInv /\ TokenInv'
  BY NextToken DEF CodeInv
<1>2. /\ code \in [Codes -> Code] /\ req \in [Requests -> Request]
      /\ \A r \in Requests : Winner(r) => req[r].code \in Codes
  BY <1>1 DEF TokenInv, TypeOK, Refers, Winner
<1>3. ASSUME NEW r \in Requests, Redeem(r), StillIssued(req[r].code) PROVE CodeInv'
  <2>1. /\ code' = [code EXCEPT ![req[r].code].state = "redeemed"]
        /\ req' = [req EXCEPT ![r].step = "sign"]
        /\ UNCHANGED <<used, row>>
    BY <1>3 DEF Redeem, Go, tokenVars
  <2>2. req[r].code \in Codes /\ code[req[r].code].state = "issued"
    BY <1>1, <1>3 DEF Redeem, StillIssued, TokenInv, Refers
  <2>3. /\ \A c \in Codes : code'[c].state = IF c = req[r].code THEN "redeemed" ELSE code[c].state
        /\ \A q \in Requests : req'[q].code = req[q].code
        /\ \A q \in Requests \ {r} : req'[q] = req[q]
    BY <1>2, <2>1, <2>2 DEF Code, Request
  <2>4. \A q \in Requests : Winner(q) => req[q].code # req[r].code
    BY <2>2 DEF CodeInv
  <2>5. \A t \in used : row[t].code # req[r].code /\ row[t].code \in Codes
    BY <1>1, <2>2 DEF CodeInv, TokenInv, Refers
  <2>6. \A q \in Requests \ {r} : Winner(q)' <=> Winner(q)
    BY <2>3 DEF Winner
  <2>. QED BY <1>1, <1>2, <2>1, <2>2, <2>3, <2>4, <2>5, <2>6 DEF CodeInv, OneFamilyPerCode
<1>4. ASSUME NEW r \in Requests, SaveToken(r) PROVE CodeInv'
  <2>1. PICK t \in Tokens \ used :
          /\ used' = used \union {t}
          /\ row'[t].family = t /\ row'[t].code = req[r].code
          /\ \A u \in used : row'[u] = row[u]
    BY <1>1, <1>4, SaveEffect
  <2>2. /\ \A q \in Requests \ {r} : req'[q] = req[q]
        /\ req'[r].step = "link" /\ UNCHANGED code /\ Winner(r)
    BY <1>2, <1>4 DEF SaveToken, Winner, Request
  <2>3. /\ ~ Winner(r)'
        /\ \A q \in Requests \ {r} : Winner(q)' <=> Winner(q)
    BY <2>2 DEF Winner
  <2>. QED BY <1>1, <1>2, <2>1, <2>2, <2>3 DEF CodeInv, OneFamilyPerCode
<1>5. ASSUME NEW r \in Requests, Rotate(r) PROVE CodeInv'
  <2>1. /\ \A q \in Requests \ {r} : req'[q] = req[q]
        /\ req'[r].step \in {"revoke", "idle", "issue"} /\ UNCHANGED code
    BY <1>1, <1>5, RotateMoves
  <2>2. /\ ~ Winner(r)'
        /\ \A q \in Requests \ {r} : Winner(q)' <=> Winner(q)
    BY <2>1 DEF Winner
  <2>3. CASE UNCHANGED <<tokenVars, killed>>
    BY <1>1, <2>1, <2>2, <2>3, OtherCode DEF tokenVars
  <2>4. CASE ~ UNCHANGED <<tokenVars, killed>>
    <3>1. PICK t \in Tokens \ used, p \in Live :
            /\ used' = used \union {t}
            /\ row'[t].family = row[p].family /\ row'[t].code = row[p].code
            /\ \A u \in used : row'[u] = row[u]
      BY <1>1, <1>5, <2>4, RotateEffect
    <3>2. p \in used
      BY <1>1 DEF TokenInv, TypeOK, Live
    <3>. QED BY <1>1, <1>2, <2>1, <2>2, <3>1, <3>2 DEF CodeInv, OneFamilyPerCode
  <2>. QED BY <2>3, <2>4
<1>6. ASSUME NEW r \in Requests, PlainStep(r) PROVE CodeInv'
  <2>1. UNCHANGED <<used, row>>
    BY <1>6 DEF PlainStep, FindCode, MarkExpired, CheckCodeUser, Redeem, SignTokens, LinkFamily, RevokeToken, FindByHash,
       CheckOwner, CheckEpoch, IssueAccess, RevokeFamily, Reply, tokenVars
  <2>2. \A c \in Codes : code[c].state = "redeemed" => code'[c].state = "redeemed"
    BY <1>2, <1>6 DEF PlainStep, FindCode, MarkExpired, CheckCodeUser, Redeem, SignTokens, LinkFamily, RevokeToken,
       FindByHash, CheckOwner, CheckEpoch, IssueAccess, RevokeFamily, Reply, StillIssued, Code
  <2>3. \A q \in Requests \ {r} : req'[q] = req[q]
    BY <1>2, <1>6 DEF PlainStep, FindCode, MarkExpired, CheckCodeUser, Redeem, SignTokens, LinkFamily, RevokeToken,
       FindByHash, CheckOwner, CheckEpoch, IssueAccess, RevokeFamily, Reply, Go, Finish, StartOn
  <2>4. Winner(r)' => Winner(r) /\ req'[r].code = req[r].code
    <3>1. CASE SignTokens(r)
      BY <1>2, <3>1 DEF SignTokens, Go, Finish, Idle, Winner, Request
    <3>2. CASE \/ MarkExpired(r) \/ CheckCodeUser(r) \/ (Redeem(r) /\ ~ StillIssued(req[r].code))
               \/ CheckOwner(r) \/ CheckEpoch(r)
      BY <1>2, <3>2 DEF MarkExpired, CheckCodeUser, Redeem, CheckOwner, CheckEpoch, AfterReplay, Go, Finish,
         Idle, Winner, Request
    <3>3. CASE LinkFamily(r) \/ IssueAccess(r) \/ RevokeFamily(r) \/ Reply(r)
      BY <1>2, <3>3 DEF LinkFamily, IssueAccess, RevokeFamily, Reply, Finish, Idle, Winner
    <3>4. ASSUME NEW c \in Codes, FindCode(r, c) PROVE ~ Winner(r)'
      BY <1>2, <3>4 DEF FindCode, AfterReplay, Winner
    <3>5. ASSUME NEW t \in Tokens, RevokeToken(r, t) PROVE ~ Winner(r)'
      BY <1>2, <3>5 DEF RevokeToken, StartOn, Winner
    <3>6. ASSUME NEW t \in Tokens, NEW ownClient \in BOOLEAN, FindByHash(r, t, ownClient)
          PROVE  ~ Winner(r)'
      BY <1>2, <3>6 DEF FindByHash, StartOn, Winner
    <3>. QED BY <1>6, <3>1, <3>2, <3>3, <3>4, <3>5, <3>6 DEF PlainStep
  <2>5. \A q \in Requests : Winner(q)' => Winner(q) /\ req'[q].code = req[q].code
    BY <2>3, <2>4 DEF Winner
  <2>. QED BY <1>1, <2>1, <2>2, <2>5, OtherCode
<1>7. ASSUME NEW c \in Codes, SaveCode(c) PROVE CodeInv'
  BY <1>1, <1>2, <1>7, OtherCode DEF SaveCode, Winner, tokenVars
<1>8. CASE Administration /\ ~ \E c \in Codes : SaveCode(c)
  <2>1. UNCHANGED <<used, row, code, req>>
    BY <1>8 DEF Administration, RevokeBySid, SetUserDisabled, AdvanceEpoch, DeleteUser, DeleteAllForSub, Tick,
       tokenVars
  <2>. QED BY <1>1, <2>1, OtherCode DEF Winner
<1>9. CASE UNCHANGED vars
  BY <1>1, <1>9, OtherCode DEF vars, tokenVars, Winner
<1>10. ASSUME NEW r \in Requests, RequestStep(r) PROVE CodeInv'
  <2>1. CASE Redeem(r)
    BY <1>3, <1>6, <2>1 DEF PlainStep
  <2>2. CASE SaveToken(r) \/ Rotate(r)
    BY <1>4, <1>5, <2>2
  <2>3. CASE ~ (Redeem(r) \/ SaveToken(r) \/ Rotate(r))
    <3>1. PlainStep(r)
      BY <1>10, <2>3 DEF RequestStep, PlainStep
    <3>. QED BY <3>1, <1>6
  <2>. QED BY <2>1, <2>2, <2>3
<1>. QED BY <1>7, <1>8, <1>9, <1>10 DEF Next

\* All tokens of a code belong to one family (OneFamilyPerCode).
THEOREM CodeStartsOneFamily == Spec => []OneFamilyPerCode
<1>1. CodeInv => OneFamilyPerCode
  BY DEF CodeInv
<1>. QED BY InitCode, NextCode, <1>1, PTL DEF Spec
-------------------------------------------------------------------------------
(* Lifetimes *)

Checking(r) == req[r].step \in {"owner", "epoch", "rotate"}

\* A request that goes on to rotate began within the absolute lifetime of its token.
InTime == \A r \in Requests : Checking(r) => req[r].at < row[req[r].token].abs

AgeInv == TokenInv /\ AbsoluteLifetime /\ InTime

\* Requests that neither start to check a token nor change the one they check stay in time.
LEMMA KeepsTime ==
  ASSUME TokenInv, InTime, \A u \in used : row'[u] = row[u],
         \A r \in Requests :
           Checking(r)' => \/ Checking(r) /\ req'[r].at = req[r].at /\ req'[r].token = req[r].token
                          \/ req'[r].at < row'[req'[r].token].abs
  PROVE  InTime'
BY DEF InTime, TokenInv, Refers, Checking

\* AgeInv is inductive: a rotation hands on the absolute expiry it found.
LEMMA NextAge == AgeInv /\ [Next]_vars => AgeInv'
<1>. SUFFICES ASSUME AgeInv, [Next]_vars PROVE AgeInv'
  OBVIOUS
<1>1. TokenInv /\ TokenInv' /\ AbsoluteLifetime /\ InTime
  BY NextToken DEF AgeInv
<1>2. /\ req \in [Requests -> Request] /\ row \in [Tokens -> Row] /\ used \subseteq Tokens
      /\ stored \subseteq used
      /\ \A t \in used : row[t].family \in used
  BY <1>1 DEF TokenInv, TypeOK, Refers
<1>3. ASSUME NEW r \in Requests, SaveToken(r) PROVE AgeInv'
  <2>1. PICK t \in Tokens \ used :
          /\ used' = used \union {t} /\ row'[t].family = t
          /\ row'[t].abs = req[r].at + AbsoluteTTL
          /\ row'[t].exp = req[r].at + RefreshTTL /\ row'[t].issued = req[r].at
          /\ \A u \in used : row'[u] = row[u]
    BY <1>1, <1>3, SaveEffect
  <2>2. req[r].at \in Nat
    BY <1>2 DEF Request
  <2>3. /\ row'[t].exp <= row'[t].abs /\ row'[t].issued < row'[t].abs
    BY <2>1, <2>2, TokenAssumption
  <2>4. AbsoluteLifetime'
    BY <1>1, <1>2, <2>1, <2>3 DEF AbsoluteLifetime
  <2>5. req'[r].step = "link" /\ \A q \in Requests \ {r} : req'[q] = req[q]
    BY <1>2, <1>3 DEF SaveToken, Request
  <2>6. \A q \in Requests : Checking(q)' => Checking(q) /\ req'[q].at = req[q].at /\ req'[q].token = req[q].token
    BY <2>5 DEF Checking
  <2>. QED BY <1>1, <2>1, <2>4, <2>6, KeepsTime DEF AgeInv
<1>4. ASSUME NEW r \in Requests, Rotate(r) PROVE AgeInv'
  <2>1. \A q \in Requests : Checking(q)' => Checking(q) /\ req'[q].at = req[q].at /\ req'[q].token = req[q].token
    BY <1>1, <1>4, RotateMoves DEF Checking
  <2>2. CASE UNCHANGED <<tokenVars, killed>>
    BY <1>1, <2>1, <2>2, KeepsTime DEF AgeInv, AbsoluteLifetime, tokenVars
  <2>3. CASE ~ UNCHANGED <<tokenVars, killed>>
    <3>1. PICK t \in Tokens \ used, p \in Live :
            /\ p = req[r].token
            /\ used' = used \union {t} /\ row'[t].family = row[p].family
            /\ row'[t].abs = row[p].abs /\ row'[t].issued = req[r].at
            /\ row'[t].exp = IF req[r].at + RefreshTTL > row[p].abs THEN row[p].abs
                             ELSE req[r].at + RefreshTTL
            /\ \A u \in used : row'[u] = row[u]
      BY <1>1, <1>4, <2>3, RotateEffect
    <3>2. p \in used /\ row[p].abs \in Nat /\ req[r].at \in Nat
      BY <1>2 DEF Live, Row, Request
    <3>3. req[r].at < row[p].abs
      BY <1>1, <1>4, <3>1 DEF InTime, Checking, Rotate
    <3>4. row'[t].exp <= row'[t].abs /\ row'[t].issued < row'[t].abs
      BY <3>1, <3>2, <3>3, TokenAssumption
    <3>5. AbsoluteLifetime'
      BY <1>1, <1>2, <3>1, <3>2, <3>4 DEF AbsoluteLifetime
    <3>. QED BY <1>1, <2>1, <3>1, <3>5, KeepsTime DEF AgeInv
  <2>. QED BY <2>2, <2>3
<1>5. ASSUME NEW r \in Requests, PlainStep(r) \/ Redeem(r) PROVE AgeInv'
  <2>1. UNCHANGED <<used, row>>
    BY <1>5 DEF PlainStep, FindCode, MarkExpired, CheckCodeUser, Redeem, SignTokens, LinkFamily, RevokeToken, FindByHash,
       CheckOwner, CheckEpoch, IssueAccess, RevokeFamily, Reply, tokenVars
  <2>2. \A q \in Requests \ {r} : req'[q] = req[q]
    BY <1>2, <1>5 DEF PlainStep, FindCode, MarkExpired, CheckCodeUser, Redeem, SignTokens, LinkFamily, RevokeToken,
       FindByHash, CheckOwner, CheckEpoch, IssueAccess, RevokeFamily, Reply, Go, Finish, StartOn
  <2>3. Checking(r)' => \/ Checking(r) /\ req'[r].at = req[r].at /\ req'[r].token = req[r].token
                       \/ req'[r].at < row'[req'[r].token].abs
    <3>1. CASE CheckOwner(r) \/ CheckEpoch(r)
      BY <1>2, <3>1 DEF CheckOwner, CheckEpoch, Go, Finish, Idle, Checking, Request
    <3>2. CASE MarkExpired(r) \/ CheckCodeUser(r) \/ Redeem(r) \/ SignTokens(r)
      BY <1>2, <3>2 DEF MarkExpired, CheckCodeUser, Redeem, SignTokens, AfterReplay, Go, Finish, Idle, Checking, Request
    <3>3. CASE LinkFamily(r) \/ IssueAccess(r) \/ RevokeFamily(r) \/ Reply(r)
      BY <1>2, <3>3 DEF LinkFamily, IssueAccess, RevokeFamily, Reply, Finish, Idle, Checking
    <3>4. ASSUME NEW c \in Codes, FindCode(r, c) PROVE ~ Checking(r)'
      BY <1>2, <3>4 DEF FindCode, AfterReplay, Checking
    <3>5. ASSUME NEW t \in Tokens, RevokeToken(r, t) PROVE ~ Checking(r)'
      BY <1>2, <3>5 DEF RevokeToken, StartOn, Checking
    <3>6. ASSUME NEW t \in Tokens, NEW ownClient \in BOOLEAN, FindByHash(r, t, ownClient)
          PROVE  Checking(r)' => req'[r].at < row'[req'[r].token].abs
      <4>1. now \in Nat /\ row[t].abs \in Nat /\ row'[t].abs = row[t].abs
        BY <1>1, <1>2, <2>1 DEF TokenInv, TypeOK, Row
      <4>2. CASE StartOn(r, t, "revoke") \/ StartOn(r, t, "foreign")
        BY <1>2, <4>2 DEF StartOn, Checking
      <4>3. CASE StartOn(r, t, "owner") /\ ~ AbsoluteExpired(t, now)
        <5>1. req'[r].at = now /\ req'[r].token = t
          BY <1>2, <4>3 DEF StartOn
        <5>2. now < row[t].abs
          BY <4>1, <4>3 DEF AbsoluteExpired
        <5>. QED BY <4>1, <5>1, <5>2
      <4>. QED BY <3>6, <4>2, <4>3 DEF FindByHash
    <3>. QED BY <1>5, <3>1, <3>2, <3>3, <3>4, <3>5, <3>6 DEF PlainStep
  <2>4. \A q \in Requests :
          Checking(q)' => \/ Checking(q) /\ req'[q].at = req[q].at /\ req'[q].token = req[q].token
                         \/ req'[q].at < row'[req'[q].token].abs
    BY <2>2, <2>3 DEF Checking
  <2>. QED BY <1>1, <2>1, <2>4, KeepsTime DEF AgeInv, AbsoluteLifetime
<1>6. CASE UNCHANGED <<used, row, req>>
  BY <1>1, <1>6, KeepsTime DEF AgeInv, AbsoluteLifetime, Checking
<1>7. CASE Administration \/ UNCHANGED vars
  BY <1>6, <1>7 DEF Administration, SaveCode, RevokeBySid, SetUserDisabled, AdvanceEpoch, DeleteUser,
     DeleteAllForSub, Tick, tokenVars, vars
<1>8. ASSUME NEW r \in Requests, RequestStep(r) PROVE AgeInv'
  <2>1. PlainStep(r) \/ Redeem(r) \/ SaveToken(r) \/ Rotate(r)
    BY <1>8 DEF RequestStep, PlainStep
  <2>. QED BY <2>1, <1>3, <1>4, <1>5
<1>. QED BY <1>7, <1>8 DEF Next

\* However often a family rotates, its tokens keep the absolute expiry of the first one and
\* were issued before it (AbsoluteLifetime).
THEOREM LifetimeNeverGrows == Spec => []AbsoluteLifetime
<1>1. Init => AgeInv
  BY InitToken DEF Init, AgeInv, AbsoluteLifetime, InTime, Checking, Idle
<1>2. AgeInv => AbsoluteLifetime
  BY DEF AgeInv
<1>. QED BY <1>1, <1>2, NextAge, PTL DEF Spec
===============================================================================
