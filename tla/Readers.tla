------------------------------ MODULE Readers ------------------------------
(***************************************************************************)
(* Clients that follow one run while it is executed: get_run, get_report   *)
(* and list_runs of engine/api/routes/runs.py, and the pages of            *)
(* engine/app/routes.py that call them.                                    *)
(*                                                                         *)
(* A handler's transaction is READ COMMITTED too: each of its SELECTs sees *)
(* what is committed when it starts, so an execution, a cancel or a        *)
(* failure may commit between the run's row and what belongs to it.        *)
(***************************************************************************)
EXTENDS ExecuteRun

CONSTANT Clients

VARIABLES
  at,       \* the SELECT a client's handler is about to make, if any
  row,      \* the status its first SELECT found, while it is under way
  page      \* what a client is shown: a status, the stages shown as unfinished,
            \* the execution whose score or report is shown, 0 for none

readerVars == <<at, row, page>>

NoStatus == "none"

ReadersInit ==
  /\ Init
  /\ at = [c \in Clients |-> "browsing"]
  /\ row = [c \in Clients |-> NoStatus]
  /\ page = [c \in Clients |-> [status |-> NoStatus, unfinished |-> {}, exec |-> 0]]

\* Not counted as progress; a stage without a row is shown as pending.
Unfinished(t) == {s \in Stages : t.stages[s] \notin {"ok", "failed", "skipped"}}

\* _load_run_or_404, the first SELECT of get_run and of get_report.
LoadRun(c, then) ==
  /\ at[c] = "browsing"
  /\ row' = [row EXCEPT ![c] = db.status]
  /\ at' = [at EXCEPT ![c] = then]
  /\ UNCHANGED page

\* A handler answers, and its locals are gone.
Answer(c, shown) ==
  /\ page' = [page EXCEPT ![c] = shown]
  /\ at' = [at EXCEPT ![c] = "browsing"]
  /\ row' = [row EXCEPT ![c] = NoStatus]

GetRun(c) == LoadRun(c, "stages")

\* The second SELECT of get_run.
ReadStages(c) ==
  /\ at[c] = "stages"
  /\ Answer(c, [status |-> row[c], unfinished |-> Unfinished(db), exec |-> 0])

\* The list of runs is one SELECT, and market_history's the same for one market.
ListRuns(c) ==
  /\ at[c] = "browsing"
  /\ Answer(c, [status |-> db.status, unfinished |-> {}, exec |-> db.score])

GetReport(c) == LoadRun(c, "report")

\* The second SELECT of get_report; without a row, report_not_ready and the status.
ReadReport(c) ==
  /\ at[c] = "report"
  /\ Answer(c, [status |-> row[c], unfinished |-> {}, exec |-> db.report.exec])

Read(c) == GetRun(c) \/ ReadStages(c) \/ ListRuns(c) \/ GetReport(c) \/ ReadReport(c)

ReadersNext ==
  \/ Next /\ UNCHANGED readerVars
  \/ \E c \in Clients : Read(c) /\ UNCHANGED vars

ReadersSpec == ReadersInit /\ [][ReadersNext]_<<vars, readerVars>>

-----------------------------------------------------------------------------
\* A page with a status of success, at which a client stops polling, shows every
\* stage finished, although its two SELECTs may be from either side of a commit,
\* and although the run may be executed again in between.
FinalPageIsSettled ==
  \A c \in Clients : page[c].status \in Success => page[c].unfinished = {}

Reported(c) == at[c] = "report" /\ at'[c] # "report"

\* A client whose request found a success gets a report, though the run may have
\* been cancelled or failed before the second SELECT; and the report served is
\* never older than the score or the report the client was shown before.
ReportKeepsUp ==
  [][\A c \in Clients : Reported(c) =>
       LET served == page'[c].exec
       IN /\ row[c] \in Success => served # 0
          /\ served # 0 => served >= page[c].exec]_readerVars

-----------------------------------------------------------------------------
(* What the documents say and the code does not do.                        *)

\* 05-api-contract.md:164-194 and 08-frontend-integration.md:138-141: the timeline a
\* client polls shows the stages one by one, those done and the one running.
\* Whoever polls is shown as unfinished what the execution has yet to finish.
TimelineFollowsExecution ==
  [][\A c \in Clients :
       at[c] = "stages" /\ at'[c] # "stages" => page'[c].unfinished = Unfinished(tx)]_readerVars

\* 04-signals-and-scoring.md:70-71: a run with too little evidence is failed and has
\* no scores row.  05-api-contract.md:240-241: a report is available while the run
\* is complete or partial, and refused otherwise.
DeclinedShowsNoResult ==
  [][\A c \in Clients :
       Reported(c) /\ row[c] \notin Success /\ db.error = "insufficient_evidence" =>
         db.score = 0 /\ page'[c].exec = 0]_readerVars
=============================================================================
