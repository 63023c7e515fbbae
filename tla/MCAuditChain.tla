----------------------------- MODULE MCAuditChain -----------------------------
(***************************************************************************)
(* Three writers of one merchant and one of another: two of the three in a *)
(* process and one in the other, or all of them in one.                    *)
(***************************************************************************)
EXTENDS AuditChain, TLC

CONSTANTS w1, w2, w3, w4, m1, m2, p1, p2

MCMerchantOf == [w \in Writer |-> IF w = w4 THEN m2 ELSE m1]

MCPlacements ==
  {[w \in Writer |-> IF w \in {w1, w2} THEN p1 ELSE p2],
   [w \in Writer |-> p1]}
=============================================================================
