----------------------------- MODULE MCRunQueue -----------------------------
(***************************************************************************)
(* RunQueue on small instances: the ids of the runs, their markets, and    *)
(* the part of the largest instance that is followed.                      *)
(***************************************************************************)
EXTENDS RunQueue, TLC

CONSTANTS w1, w2, w3, c1

OneRun == {1}
TwoRuns == {1, 2}
ThreeRuns == {1, 2, 3}

OneMarket == [r \in Runs |-> "m1"]
TwoMarkets == [r \in Runs |-> IF r = 2 THEN "m2" ELSE "m1"]
WorkerSymmetry == Permutations({w2, w3})

-----------------------------------------------------------------------------
(* Bounds on three runs, the first and the third of one market, and three  *)
(* workers: everything that two workers can do with two runs of a market,  *)
(* and every circle of transactions that wait for each other, which takes  *)
(* a worker that died, all three runs and all three workers.               *)

Unclaimed == {w \in Workers : wpc[w] = "idle" /\ \A r \in Runs : claimedBy[r] # w}

\* Runs 1 and 3 compete for their market, and w2 and w3 for them.
Duel == crashes = 0 /\ post[2] = "new" /\ w1 \in Unclaimed

\* The way there: w1 claims run 2 and dies, comes back, and claims run 3.
Ahead ==
  /\ crashes <= 1 /\ post[1] = "new" /\ (post[3] # "new" => post[2] = "accepted")
  /\ \A c \in Cancellers : cancelling[c] = NoRun
  /\ \A r \in Runs : claimedAt[r] # "lapsed" /\ lock[r] = NoWorker
  /\ {w2, w3} \subseteq Unclaimed

\* From there run 1 is posted, no run is claimed again, and only run 3 is
\* cancelled: leases lapse, and the workers reap and execute in any order.
Circles ==
  /\ crashes > 0 /\ attempt[1] <= 1 /\ attempt[2] = 1 /\ attempt[3] = 1
  /\ lock[1] = NoWorker \/ wpc[lock[1]] = "reaping"
  /\ \A c \in Cancellers : cancelling[c] \in {NoRun, 3}

Followed == Duel \/ Ahead \/ Circles
=============================================================================
