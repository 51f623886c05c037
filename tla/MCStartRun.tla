----------------------------- MODULE MCStartRun -----------------------------
(***************************************************************************)
(* StartRun with more runs in one market than its quota allows.            *)
(***************************************************************************)
EXTENDS StartRun, TLC

CONSTANTS h1, h2, r1, r2, r3, k1

MarketOf == [r \in {r1, r2, r3} |-> IF r = r3 THEN "m2" ELSE "m1"]

HandlerSymmetry == Permutations({h1, h2})
=============================================================================
