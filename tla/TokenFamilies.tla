--------------------------- MODULE TokenFamilies ---------------------------
(***************************************************************************)
(* What auth-service promises the holder of an account about its refresh   *)
(* tokens, with requests, Redis keys and SCAN hidden.  A login opens a     *)
(* family that no token belongs to yet; from then on at most one token of  *)
(* it is good.  Only the good token can be exchanged, for one signed no    *)
(* earlier, and it stops being good as the new one becomes so.  A token    *)
(* that is no longer good, exchanged, revoked or expired, is not good      *)
(* again, and a family without a good token has ended.                     *)
(*                                                                         *)
(* A token is its family and the second it was signed in, so an exchange   *)
(* within that second gives the same token back.                           *)
(***************************************************************************)
EXTENDS Naturals

CONSTANT Family      \* family ids

VARIABLES now,       \* seconds
          issued,    \* tokens signed so far
          good       \* the tokens a refresh would accept

tokenVars == <<now, issued, good>>

Init == now = 1 /\ issued = {} /\ good = {}

Issue(t, spent) ==
    /\ issued' = issued \cup {t}
    /\ good' = (good \ spent) \cup {t}
    /\ UNCHANGED now

Open(f) ==
    /\ \A t \in issued : t.family # f
    /\ Issue([family |-> f, iat |-> now], {})

Exchange(old, iat) == Issue([family |-> old.family, iat |-> iat], {old})

\* Logout, the detection of a reuse, or a page of the deletion's scan.
Revoke == good' \subseteq good /\ UNCHANGED <<now, issued>>

\* Tokens may expire as time passes.
Pass == now' = now + 1 /\ good' \subseteq good /\ UNCHANGED issued

Next ==
    \/ \E f \in Family : Open(f)
    \/ \E old \in good : \E iat \in old.iat..now : Exchange(old, iat)
    \/ Revoke
    \/ Pass

Spec == Init /\ [][Next]_tokenVars

=============================================================================
