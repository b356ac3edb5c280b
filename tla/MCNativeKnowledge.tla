--------------------------- MODULE MCNativeKnowledge ---------------------------
(* Instances of NativeKnowledge for TLC.                                    *)
EXTENDS NativeKnowledge, TLC

CONSTANTS p1, p2, r1, r2, r3, r4, g1, g2, g3, c1, c2, e1, e2

(* r2 is another request under the generation id of r1.                     *)
SharedId == r1 :> g1 @@ r2 :> g1 @@ r3 :> g2 @@ r4 :> g3

(* r3 replaces the claim of r1 and cites other evidence for it; r4 cites    *)
(* evidence that only r3 carries: it is refused, always.                    *)
Evidence == r1 :> {e1} @@ r2 :> {e1} @@ r3 :> {e2} @@ r4 :> {e1}
Citing   == r1 :> {<<c1, e1>>} @@ r2 :> {<<c1, e1>>} @@ r3 :> {<<c1, e2>>}
            @@ r4 :> {<<c1, e2>>, <<c2, e1>>}
================================================================================
