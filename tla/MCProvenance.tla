---------------------------- MODULE MCProvenance ----------------------------
(***************************************************************************)
(* Two runs of a market whose example data lack what Google may have, and  *)
(* one of a market that Google Ads does not know.                          *)
(***************************************************************************)
EXTENDS Provenance, TLC

CONSTANTS r1, r2, r3

MarketOf == [r \in {r1, r2, r3} |-> IF r = r3 THEN "unmapped" ELSE "mapped"]

FilesOf ==
  [mapped |-> [demand |-> "raised", competition |-> "ok", advertising |-> "error",
               density |-> "ok", customer_value |-> "ok", trends |-> "ok"],
   unmapped |-> [demand |-> "ok", competition |-> "ok", advertising |-> "absent",
                 density |-> "ok", customer_value |-> "empty", trends |-> "absent"]]

RunSymmetry == Permutations({r1, r2})
=============================================================================
