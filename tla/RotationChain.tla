---------------------------- MODULE RotationChain ----------------------------
(***************************************************************************)
(* What a refresh-token store promises, with every request reduced to the  *)
(* one step at which it takes effect: a family is a chain of tokens with    *)
(* at most one usable token, its head.  A rotation replaces the head by a   *)
(* token never used before, and a family whose head is gone (revoked,      *)
(* deleted) never has a head again.                                        *)
(***************************************************************************)
CONSTANTS Tokens, NoToken

VARIABLES used,     \* every token ever issued
          head      \* the usable token of each family, which is named by its first token

chainVars == <<used, head>>

Init == used = {} /\ head = [f \in Tokens |-> NoToken]

(* GenerateInitialRefreshToken: a new family whose head is its first token *)
Start(t) == /\ t \notin used
            /\ used' = used \union {t}
            /\ head' = [head EXCEPT ![t] = t]

(* RotateRefreshToken: the head hands over to a new token *)
Advance(f, t) == /\ head[f] # NoToken
                 /\ t \notin used
                 /\ used' = used \union {t}
                 /\ head' = [head EXCEPT ![f] = t]

(* RevokeFamily, RevokeBySid, DeleteAllForSub: families lose their heads for good *)
End(F) == /\ head' = [f \in Tokens |-> IF f \in F THEN NoToken ELSE head[f]]
          /\ UNCHANGED used

Next == \/ \E t \in Tokens : Start(t)
        \/ \E f, t \in Tokens : Advance(f, t)
        \/ \E F \in SUBSET Tokens : End(F)

Spec == Init /\ [][Next]_chainVars
===============================================================================
