----------------------------- MODULE MCWriteFronts -----------------------------
(* Two clients with a user each; the second may write portfolios only.      *)
EXTENDS WriteFronts

CONSTANTS c1, c2, u1, u2, kn, pf

SomeKinds == [r \in {kn, pf} |-> IF r = kn THEN "knowledge" ELSE "portfolio"]

SomeGrants ==
    [c \in {c1, c2} |->
        IF c = c1
        THEN [user |-> u1, kinds |-> {"knowledge", "portfolio"}, scope |-> {pf}, expires |-> 3]
        ELSE [user |-> u2, kinds |-> {"portfolio"}, scope |-> {pf}, expires |-> 1]]

Symmetry == Permutations(Tickets) \union Permutations(Cookies)
================================================================================
