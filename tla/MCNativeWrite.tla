----------------------------- MODULE MCNativeWrite -----------------------------
(* Instances of NativeWrite for TLC.                                        *)
EXTENDS NativeWrite, TLC

CONSTANTS p1, p2, u1, u2, v1, v2, v3, k1, k2, k3, pf, acct, fill, stmt, b1, b2

Trade(provider, source, body) ==
    [action |-> "transaction.record", portfolio |-> pf, account |-> acct,
     provider |-> provider, source |-> source, statement |-> NoRef, body |-> body]

Decision(body) ==
    [action |-> "decision.create", portfolio |-> pf, account |-> acct,
     provider |-> NoRef, source |-> NoRef, statement |-> NoRef, body |-> body]

FullGrant(expires) ==
    [permissions |-> Actions \cup {"operation.approve"}, scope |-> {pf},
     expires |-> expires]

(* v3 carries the key of v1 and the fill of v1 and v2 with other contents:  *)
(* it collides with v1 on the key and with v2 on the execution.             *)
ReusedKey == v1 :> k1 @@ v2 :> k2 @@ v3 :> k1
SameFill  == v1 :> Trade(fill, NoRef, b1) @@ v2 :> Trade(fill, NoRef, b1)
             @@ v3 :> Trade(fill, NoRef, b2)

TwoKeys  == v1 :> k1 @@ v2 :> k2
TwoFills == v1 :> Trade(fill, NoRef, b1) @@ v2 :> Decision(b1)

OneGrant  == u1 :> FullGrant(9)
TwoGrants == u1 :> FullGrant(9) @@ u2 :> FullGrant(2)

Symmetry == Permutations({p1, p2})
================================================================================
