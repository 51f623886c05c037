----------------------------- MODULE MCResolver -----------------------------
(***************************************************************************)
(* Resolver with the taxonomy of db/seed.sql, but for a second Richmond,   *)
(* which a deployment may seed.  Of the three texts                        *)
(*   vague   is accepted until the second Richmond makes it ambiguous;     *)
(*   flips   is accepted for either Richmond, as soon as it is known;      *)
(*   plumber is clear about the location, not about the service.           *)
(***************************************************************************)
EXTENDS Resolver, TLC

CONSTANTS h1, h2, vague, flips, plumber, plumbing, electrical, brisbane, vic, nsw

Texts == {vague, flips, plumber}
Seeded == {<<plumbing, brisbane>>}

ServiceRatios ==
  [i \in Texts |-> [s \in {plumbing, electrical} |->
     IF s = plumbing THEN (IF i = plumber THEN 670 ELSE 1000)
     ELSE IF i = plumber THEN 600 ELSE 380]]

LocationRatios ==
  [i \in Texts |-> [l \in {brisbane, vic, nsw} |->
     IF l = brisbane THEN (IF i = plumber THEN 1000 ELSE 350)
     ELSE IF i = plumber THEN 400
     ELSE IF l = vic THEN 800 ELSE IF i = vague THEN 760 ELSE 960]]

HandlerSymmetry == Permutations({h1, h2})
=============================================================================
