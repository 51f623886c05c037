---------------------------- MODULE RunLifecycle ----------------------------
(***************************************************************************)
(* What a reader of the database may see of a research run: the committed  *)
(* value of research_runs.status, one entry per run id, and nothing of the *)
(* workers, locks and transactions that move it.  RunQueue implements it.  *)
(*                                                                         *)
(* The column's type also has 'scoring' and 'analyzing' (enums.py:8-16).   *)
(* No step leads there: execute_run writes them inside the one transaction *)
(* that ends in a terminal status, so they are never committed.            *)
(***************************************************************************)
EXTENDS Naturals

CONSTANTS Runs,      \* ids of research_runs, each used by one POST /runs
          Market     \* the market_id of each run

VARIABLE status

Queued == {"queued"}
InFlight == {"collecting", "scoring", "analyzing"}
Terminal == {"complete", "partial", "failed", "cancelled"}
Active == Queued \cup InFlight
Statuses == {"none"} \cup Active \cup Terminal   \* "none": no such row yet

Rivals(r) == {q \in Runs \ {r} : Market[q] = Market[r]}
Visible == {"none", "queued", "collecting"} \cup Terminal

Init == status = [r \in Runs |-> "none"]

\* A run is accepted when its market has no active run.
Submit(r) ==
  /\ status[r] = "none"
  /\ \A q \in Rivals(r) : status[q] \notin Active
  /\ status' = [status EXCEPT ![r] = "queued"]

\* A worker's poll: it returns the stranded runs S to the queue and takes r.
Dispatch(S, r) ==
  /\ \A q \in S : status[q] = "collecting"
  /\ status[r] = "queued" \/ r \in S
  /\ status' = [q \in Runs |-> IF q = r THEN "collecting"
                               ELSE IF q \in S THEN "queued"
                               ELSE status[q]]

\* A run gets an outcome; a run that has one may be given another.
Settle(r, outcome) ==
  /\ status[r] # "none"
  /\ status' = [status EXCEPT ![r] = outcome]

Next ==
  \/ \E r \in Runs : Submit(r)
  \/ \E S \in SUBSET Runs, r \in Runs : Dispatch(S, r)
  \/ \E r \in Runs, outcome \in Terminal : Settle(r, outcome)

Spec == Init /\ [][Next]_status
=============================================================================
