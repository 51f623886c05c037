----------------------------- MODULE RunOutcome -----------------------------
(***************************************************************************)
(* What an execution of a run is to its readers: one step, which publishes *)
(* a whole result or nothing.  ExecuteRun, with its stages, its open       *)
(* transaction, its crashes and its re-executions, implements it.          *)
(***************************************************************************)
EXTENDS Naturals

CONSTANTS Signals,    \* the signals of a run
          Execs       \* numbers of executions; 0: none wrote it yet

VARIABLES status,     \* research_runs.status
          signals,    \* the signals rows, by signal
          score,      \* the execution that wrote the scores row
          report      \* the reports row

vars == <<status, signals, score, report>>

Rows(e, scored) == [s \in Signals |-> [exec |-> e, scored |-> s \in scored]]

Init ==
  /\ status = "collecting"
  /\ signals = Rows(0, {})
  /\ score = 0
  /\ report = [exec |-> 0, missing |-> {}, sources |-> {}]

\* Each execution is younger than whatever the tables hold.
Fresh(e) == \A s \in Signals : signals[s].exec < e

\* Enough evidence: signals, score and report of one execution, at once.  What
\* has no score is declared missing, what has one names its source.
Publish(e, scored) ==
  /\ Fresh(e)
  /\ signals' = Rows(e, scored)
  /\ score' = e
  /\ \E sources \in SUBSET Signals :
       /\ scored \subseteq sources
       /\ report' = [exec |-> e, missing |-> Signals \ scored, sources |-> sources]
  /\ status' = IF scored = Signals THEN "complete" ELSE "partial"

\* Too little evidence: the signals are replaced, an older result stays.
Decline(e, scored) ==
  /\ Fresh(e)
  /\ signals' = Rows(e, scored)
  /\ status' = "failed"
  /\ UNCHANGED <<score, report>>

\* An execution that raised, and a cancel, change nothing but the status.
Abandon ==
  /\ status' \in {"failed", "cancelled"}
  /\ UNCHANGED <<signals, score, report>>

Next ==
  \/ \E e \in Execs, scored \in SUBSET Signals : Publish(e, scored) \/ Decline(e, scored)
  \/ Abandon

Spec == Init /\ [][Next]_vars
=============================================================================
