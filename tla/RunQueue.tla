------------------------------ MODULE RunQueue ------------------------------
(***************************************************************************)
(* Postgres as the queue of research runs: engine/pipeline/queue.py, the   *)
(* loop and the transaction boundaries of engine/pipeline/worker.py, the   *)
(* enqueue of POST /runs and the cancel endpoint of api/routes/runs.py.    *)
(*                                                                         *)
(* The state is what is committed, plus what each open transaction holds:  *)
(*   - READ COMMITTED: a statement sees the rows committed when it starts; *)
(*     an UPDATE that finds its row locked waits, then tests its WHERE     *)
(*     again on the row as it then is;                                     *)
(*   - execute_run is one transaction.  It locks the run's row at its      *)
(*     first stages.start and keeps it until it commits or rolls back, so  *)
(*     the statuses it sets on the way are visible to nobody else;         *)
(*   - the unique index research_runs_one_active_idx is checked when a     *)
(*     statement makes a row active, and waits for a transaction that has  *)
(*     a conflicting row in doubt.                                         *)
(* A transaction that writes one row and commits at once is one step.      *)
(***************************************************************************)
EXTENDS Naturals, FiniteSets

CONSTANTS
  Workers,       \* worker processes
  Cancellers,    \* threads of the API that serve POST /runs/{id}/cancel
  Runs,          \* ids of research_runs rows, in the order a scan meets them
  Market,        \* market_id of each run
  NoWorker, NoRun,
  MaxCrashes     \* bound: how often a worker process or its connection dies

ASSUME WorkersAssumption == IsFiniteSet(Workers) /\ NoWorker \notin Workers
ASSUME RunsAssumption == Runs \subseteq Nat /\ IsFiniteSet(Runs) /\ NoRun \notin Runs
ASSUME CrashesAssumption == MaxCrashes \in Nat

VARIABLES
  \* columns of research_runs, as committed
  status, requestedAt, claimedBy, claimedAt, attempt, errorCode,
  \* rows of the other tables, as committed: batches of evidence rows written
  \* for a run, whether it has a reports row, and its rows of events_outbox
  evidence, report, completedEvents, failedEvents,
  \* the transaction, named by its worker, that holds the lock on a run's row
  lock,
  \* a worker: where it is in run_forever, the run in its hand, and the rows
  \* its reap_stuck has still to visit
  wpc, wrun, cand,
  \* the handlers of the API, and the clock that orders POST /runs requests
  post, cancelling, clock,
  crashes

rowVars == <<status, requestedAt, claimedBy, claimedAt, attempt, errorCode>>
outVars == <<evidence, report, completedEvents, failedEvents>>
workerVars == <<wpc, wrun, cand>>
apiVars == <<post, cancelling, clock>>
vars == <<rowVars, outVars, lock, workerVars, apiVars, crashes>>

InFlight == {"collecting", "scoring", "analyzing"}
Terminal == {"complete", "partial", "failed", "cancelled"}
Active == {"queued"} \cup InFlight
Statuses == {"none"} \cup Active \cup Terminal   \* "none": not inserted yet

\* The phases in which execute_run's transaction is open and holds its row.
Executing == {"collecting", "scoring", "analyzing"}
Phases == {"idle", "reaping", "claimed", "failing"} \cup Executing

TypeOK ==
  /\ status \in [Runs -> Statuses]
  /\ requestedAt \in [Runs -> Nat]
  /\ claimedBy \in [Runs -> Workers \cup {NoWorker}]
  /\ claimedAt \in [Runs -> {"null", "live", "lapsed"}]
  /\ attempt \in [Runs -> Nat]
  /\ errorCode \in [Runs -> {"null", "insufficient_evidence", "worker_error"}]
  /\ evidence \in [Runs -> Nat]
  /\ report \in [Runs -> BOOLEAN]
  /\ completedEvents \in [Runs -> Nat]
  /\ failedEvents \in [Runs -> Nat]
  /\ lock \in [Runs -> Workers \cup {NoWorker}]
  /\ wpc \in [Workers -> Phases]
  /\ wrun \in [Workers -> Runs \cup {NoRun}]
  /\ cand \in [Workers -> SUBSET Runs]
  /\ post \in [Runs -> {"new", "checked", "accepted", "conflict", "error"}]
  /\ cancelling \in [Cancellers -> Runs \cup {NoRun}]
  /\ clock \in Nat
  /\ crashes \in Nat

Init ==
  /\ status = [r \in Runs |-> "none"]
  /\ requestedAt = [r \in Runs |-> 0]
  /\ claimedBy = [r \in Runs |-> NoWorker]
  /\ claimedAt = [r \in Runs |-> "null"]
  /\ attempt = [r \in Runs |-> 0]
  /\ errorCode = [r \in Runs |-> "null"]
  /\ evidence = [r \in Runs |-> 0]
  /\ report = [r \in Runs |-> FALSE]
  /\ completedEvents = [r \in Runs |-> 0]
  /\ failedEvents = [r \in Runs |-> 0]
  /\ lock = [r \in Runs |-> NoWorker]
  /\ wpc = [w \in Workers |-> "idle"]
  /\ wrun = [w \in Workers |-> NoRun]
  /\ cand = [w \in Workers |-> {}]
  /\ post = [r \in Runs |-> "new"]
  /\ cancelling = [c \in Cancellers |-> NoRun]
  /\ clock = 0
  /\ crashes = 0

-----------------------------------------------------------------------------
(* The unique index on (market_id) WHERE status is active.                 *)

Rivals(r) == {q \in Runs \ {r} : Market[q] = Market[r]}

\* The transaction holding r's row has written an active status into it.
Dirty(r) == \E w \in Workers : lock[r] = w /\ wpc[w] \in {"scoring", "analyzing"}

\* Another row of r's market is, or may become, active by an open transaction:
\* a statement that makes r active waits for that transaction.
InDoubt(r) ==
  \E q \in Rivals(r) : lock[q] # NoWorker /\ (status[q] \in Active \/ Dirty(q))

\* Variant: the index's predicate names 'queued' only.
DuplicateQueued(r) == \E q \in Rivals(r) : status[q] = "queued"

Duplicate(r) == \E q \in Rivals(r) : status[q] \in Active

(* set_status on the committed row, outside or at the end of a transaction *)
SetStatus(r, s, code) ==
  /\ status' = [status EXCEPT ![r] = s]
  /\ errorCode' = [errorCode EXCEPT ![r] = code]
  /\ UNCHANGED <<requestedAt, claimedBy, claimedAt, attempt>>

-----------------------------------------------------------------------------
(* POST /runs: enqueue looks for an active run of the market, then inserts *)

\* requested_at is the time the request's transaction began.
PostCheck(r) ==
  /\ post[r] = "new"
  /\ clock' = clock + 1
  /\ requestedAt' = [requestedAt EXCEPT ![r] = clock]
  /\ post' = [post EXCEPT ![r] = IF Duplicate(r) THEN "conflict" ELSE "checked"]
  /\ UNCHANGED <<status, claimedBy, claimedAt, attempt, errorCode, outVars, lock,
                 workerVars, cancelling, crashes>>

\* Variant: no unique index, the SELECT of enqueue is the only check.
PostInsertUnchecked(r) ==
  /\ post[r] = "checked"
  /\ status' = [status EXCEPT ![r] = "queued"]
  /\ post' = [post EXCEPT ![r] = "accepted"]
  /\ UNCHANGED <<requestedAt, claimedBy, claimedAt, attempt, errorCode, outVars,
                 lock, workerVars, cancelling, clock, crashes>>

\* The INSERT either succeeds or runs into the unique index (an HTTP 500).
PostInsert(r) ==
  /\ post[r] = "checked"
  /\ ~InDoubt(r)
  /\ \/ /\ ~Duplicate(r)
        /\ status' = [status EXCEPT ![r] = "queued"]
        /\ post' = [post EXCEPT ![r] = "accepted"]
     \/ /\ Duplicate(r)
        /\ post' = [post EXCEPT ![r] = "error"]
        /\ UNCHANGED status
  /\ UNCHANGED <<requestedAt, claimedBy, claimedAt, attempt, errorCode, outVars,
                 lock, workerVars, cancelling, clock, crashes>>

-----------------------------------------------------------------------------
(* POST /runs/{id}/cancel: reads the status, then writes without a guard.  *)

\* Variant: cancel does not look at the status.
CancelReadAny(c, r) ==
  /\ cancelling[c] = NoRun
  /\ status[r] # "none"
  /\ cancelling' = [cancelling EXCEPT ![c] = r]
  /\ UNCHANGED <<rowVars, outVars, lock, workerVars, post, clock, crashes>>

CancelRead(c, r) ==
  /\ cancelling[c] = NoRun
  /\ status[r] \in Active
  /\ cancelling' = [cancelling EXCEPT ![c] = r]
  /\ UNCHANGED <<rowVars, outVars, lock, workerVars, post, clock, crashes>>

CancelWrite(c) ==
  \E r \in Runs :
    /\ cancelling[c] = r
    /\ lock[r] = NoWorker
    /\ SetStatus(r, "cancelled", "null")
    /\ cancelling' = [cancelling EXCEPT ![c] = NoRun]
    /\ UNCHANGED <<outVars, lock, workerVars, post, clock, crashes>>

-----------------------------------------------------------------------------
(* First transaction of the worker's loop: reap_stuck, claim_next, commit. *)

Stuck(r) == status[r] \in InFlight /\ claimedAt[r] = "lapsed"

\* claimed_at falls behind now() - run_lease_seconds.
LeaseLapse(r) ==
  /\ status[r] \in InFlight
  /\ claimedAt[r] = "live"
  /\ claimedAt' = [claimedAt EXCEPT ![r] = "lapsed"]
  /\ UNCHANGED <<status, requestedAt, claimedBy, attempt, errorCode, outVars, lock,
                 workerVars, apiVars, crashes>>

\* Variant: no reaper.
ReapNothing(w) ==
  /\ wpc[w] = "idle"
  /\ wpc' = [wpc EXCEPT ![w] = "reaping"]
  /\ UNCHANGED <<rowVars, outVars, lock, wrun, cand, apiVars, crashes>>

\* The rows the UPDATE of reap_stuck finds when it starts.
ReapBegin(w) ==
  /\ wpc[w] = "idle"
  /\ wpc' = [wpc EXCEPT ![w] = "reaping"]
  /\ cand' = [cand EXCEPT ![w] = {r \in Runs : Stuck(r)}]
  /\ UNCHANGED <<rowVars, outVars, lock, wrun, apiVars, crashes>>

\* Variant: two reapers may visit the same rows in different orders.
ReapRowUnordered(w) ==
  \E r \in cand[w] :
    /\ wpc[w] = "reaping"
    /\ lock[r] = NoWorker
    /\ lock' = [lock EXCEPT ![r] = IF Stuck(r) THEN w ELSE NoWorker]
    /\ cand' = [cand EXCEPT ![w] = @ \ {r}]
    /\ UNCHANGED <<rowVars, outVars, wpc, wrun, apiVars, crashes>>

\* It visits them in order, waits for a locked one, tests it again, and keeps
\* the lock of a row it returns to the queue until the transaction commits.
ReapRow(w) ==
  \E r \in cand[w] :
    /\ wpc[w] = "reaping"
    /\ \A q \in cand[w] : r <= q
    /\ lock[r] = NoWorker
    /\ lock' = [lock EXCEPT ![r] = IF Stuck(r) THEN w ELSE NoWorker]
    /\ cand' = [cand EXCEPT ![w] = @ \ {r}]
    /\ UNCHANGED <<rowVars, outVars, wpc, wrun, apiVars, crashes>>

Reaped(w) == {r \in Runs : lock[r] = w}

\* The queued rows w can lock: its own, and those SKIP LOCKED does not skip.
Claimable(w) == {r \in Runs : status[r] = "queued" /\ lock[r] = NoWorker} \cup Reaped(w)

\* The commit of a poll that claims r: claimed_at, and the attempt counter, are
\* written by that UPDATE.
ClaimRow(w, r, stamp, n) ==
  /\ wpc[w] = "reaping" /\ cand[w] = {}
  /\ \A q \in Claimable(w) : requestedAt[r] <= requestedAt[q]
  /\ status' = [q \in Runs |-> IF q = r THEN "collecting"
                               ELSE IF q \in Reaped(w) THEN "queued" ELSE status[q]]
  /\ claimedAt' = [q \in Runs |-> IF q = r THEN stamp
                                  ELSE IF q \in Reaped(w) THEN "null" ELSE claimedAt[q]]
  /\ claimedBy' = [q \in Runs |-> IF q = r THEN w
                                  ELSE IF q \in Reaped(w) THEN NoWorker ELSE claimedBy[q]]
  /\ attempt' = [attempt EXCEPT ![r] = n]
  /\ lock' = [q \in Runs |-> IF lock[q] = w THEN NoWorker ELSE lock[q]]
  /\ wpc' = [wpc EXCEPT ![w] = "claimed"]
  /\ wrun' = [wrun EXCEPT ![w] = r]
  /\ UNCHANGED <<requestedAt, errorCode, outVars, cand, apiVars, crashes>>

\* Variants: the claim does not stamp claimed_at; it does not count itself.
ClaimUnstamped(w) == \E r \in Claimable(w) : ClaimRow(w, r, "null", attempt[r] + 1)
ClaimUncounted(w) == \E r \in Claimable(w) : ClaimRow(w, r, "live", attempt[r])

Claim(w) == \E r \in Claimable(w) : ClaimRow(w, r, "live", attempt[r] + 1)

ClaimNothing(w) ==
  /\ wpc[w] = "reaping" /\ cand[w] = {}
  /\ Claimable(w) = {}
  /\ wpc' = [wpc EXCEPT ![w] = "idle"]
  /\ UNCHANGED <<rowVars, outVars, lock, wrun, cand, apiVars, crashes>>

-----------------------------------------------------------------------------
(* Second transaction: execute_run on the run claimed by the first.        *)

\* The worker moves on inside its transaction; nothing is committed.
Advance(w, from, to) ==
  /\ wpc[w] = from
  /\ wpc' = [wpc EXCEPT ![w] = to]
  /\ UNCHANGED <<rowVars, outVars, lock, wrun, cand, apiVars, crashes>>

\* The transaction ends: its locks go, and the worker goes to phase to.
Release(w, to) ==
  /\ lock' = [q \in Runs |-> IF lock[q] = w THEN NoWorker ELSE lock[q]]
  /\ wpc' = [wpc EXCEPT ![w] = to]
  /\ wrun' = [wrun EXCEPT ![w] = IF to = "idle" THEN NoRun ELSE @]
  /\ UNCHANGED <<apiVars, crashes>>

\* Variant: the first stages.start is committed, and the lock with it.
BeginExecuteUnlocked(w) ==
  \E r \in Runs :
    /\ wpc[w] = "claimed" /\ wrun[w] = r
    /\ lock[r] = NoWorker
    /\ wpc' = [wpc EXCEPT ![w] = "collecting"]
    /\ UNCHANGED <<rowVars, outVars, lock, wrun, cand, apiVars, crashes>>

\* initialise and the first stages.start, which waits for the row.
BeginExecute(w) ==
  \E r \in Runs :
    /\ wpc[w] = "claimed" /\ wrun[w] = r
    /\ lock[r] = NoWorker
    /\ lock' = [lock EXCEPT ![r] = w]
    /\ wpc' = [wpc EXCEPT ![w] = "collecting"]
    /\ UNCHANGED <<rowVars, outVars, wrun, cand, apiVars, crashes>>

\* set_status(SCORING) makes the row active in the eyes of the unique index,
\* whatever the row's status was before.
StartScoring(w) ==
  \E r \in Runs :
    /\ wrun[w] = r
    /\ ~InDoubt(r) /\ ~Duplicate(r)
    /\ Advance(w, "collecting", "scoring")

StartAnalyzing(w) == Advance(w, "scoring", "analyzing")

\* The exception path of run_forever: rollback, then on to set_status(FAILED).
Rollback(w) ==
  /\ Release(w, "failing")
  /\ UNCHANGED <<rowVars, outVars, cand>>

MarketTaken(w) ==
  \E r \in Runs :
    /\ wpc[w] = "collecting" /\ wrun[w] = r
    /\ ~InDoubt(r) /\ Duplicate(r)
    /\ Rollback(w)

ExecuteRaises(w) == wpc[w] \in Executing /\ Rollback(w)

\* Too little evidence: failed, the event and the evidence in one commit.
InsufficientEvidence(w) ==
  \E r \in Runs :
    /\ wpc[w] = "scoring" /\ wrun[w] = r
    /\ SetStatus(r, "failed", "insufficient_evidence")
    /\ evidence' = [evidence EXCEPT ![r] = @ + 1]
    /\ failedEvents' = [failedEvents EXCEPT ![r] = @ + 1]
    /\ Release(w, "idle")
    /\ UNCHANGED <<report, completedEvents, cand>>

\* Variant: the final status is committed before the report and the event.
CompleteEarly(w) ==
  \E r \in Runs, final \in {"complete", "partial"} :
    /\ wpc[w] = "analyzing" /\ wrun[w] = r
    /\ SetStatus(r, final, "null")
    /\ Release(w, "analyzing")
    /\ UNCHANGED <<outVars, cand>>

\* The report, the final status and the event in one commit.
Complete(w) ==
  \E r \in Runs, final \in {"complete", "partial"} :
    /\ wpc[w] = "analyzing" /\ wrun[w] = r
    /\ SetStatus(r, final, "null")
    /\ evidence' = [evidence EXCEPT ![r] = @ + 1]
    /\ report' = [report EXCEPT ![r] = TRUE]
    /\ completedEvents' = [completedEvents EXCEPT ![r] = @ + 1]
    /\ Release(w, "idle")
    /\ UNCHANGED <<failedEvents, cand>>

\* Variant: an error sends the run back to the queue.
RecordFailureRetries(w) ==
  \E r \in Runs :
    /\ wpc[w] = "failing" /\ wrun[w] = r
    /\ lock[r] = NoWorker
    /\ SetStatus(r, "queued", "worker_error")
    /\ Release(w, "idle")
    /\ UNCHANGED <<outVars, cand>>

\* Variant: another error code than the documented one.
RecordFailureMiscoded(w) ==
  \E r \in Runs :
    /\ wpc[w] = "failing" /\ wrun[w] = r
    /\ lock[r] = NoWorker
    /\ SetStatus(r, "failed", "worker_crashed")
    /\ Release(w, "idle")
    /\ UNCHANGED <<outVars, cand>>

\* A transaction of its own, which writes no event.
RecordFailure(w) ==
  \E r \in Runs :
    /\ wpc[w] = "failing" /\ wrun[w] = r
    /\ lock[r] = NoWorker
    /\ SetStatus(r, "failed", "worker_error")
    /\ Release(w, "idle")
    /\ UNCHANGED <<outVars, cand>>

\* The process, or its connection, dies: Postgres rolls back, the process
\* supervisor starts the loop again, and the run in hand is forgotten.
Crash(w) ==
  /\ crashes < MaxCrashes
  /\ wpc[w] # "idle"
  /\ lock' = [q \in Runs |-> IF lock[q] = w THEN NoWorker ELSE lock[q]]
  /\ wpc' = [wpc EXCEPT ![w] = "idle"]
  /\ wrun' = [wrun EXCEPT ![w] = NoRun]
  /\ cand' = [cand EXCEPT ![w] = {}]
  /\ crashes' = crashes + 1
  /\ UNCHANGED <<rowVars, outVars, apiVars>>

-----------------------------------------------------------------------------
Poll(w) == ReapBegin(w) \/ ReapRow(w) \/ Claim(w) \/ ClaimNothing(w)

Execute(w) ==
  \/ BeginExecute(w) \/ StartScoring(w) \/ StartAnalyzing(w)
  \/ MarketTaken(w) \/ ExecuteRaises(w) \/ InsufficientEvidence(w)
  \/ Complete(w) \/ RecordFailure(w)

Next ==
  \/ \E r \in Runs : PostCheck(r) \/ PostInsert(r) \/ LeaseLapse(r)
  \/ \E c \in Cancellers : CancelWrite(c) \/ \E r \in Runs : CancelRead(c, r)
  \/ \E w \in Workers : Poll(w) \/ Execute(w) \/ Crash(w)

Spec == Init /\ [][Next]_vars

\* A worker that is not waiting for a row takes its next step, Postgres gives
\* a free row to one that waits, and time passes.  Nothing makes a client
\* post or cancel, and nothing keeps a handler from dying half way.
Fairness ==
  /\ \A w \in Workers : WF_vars(Poll(w)) /\ WF_vars(Execute(w))
  /\ \A r \in Runs : WF_vars(LeaseLapse(r))

FairSpec == Spec /\ Fairness

-----------------------------------------------------------------------------
(* What holds.                                                             *)

InHand(r) == {w \in Workers : wrun[w] = r}
Executor(w, r) == wpc[w] \in Executing /\ wrun[w] = r

\* w's statement waits for a row that v's transaction holds: the next row of the
\* reaper, the run's own row, or a rival that the unique index has in doubt.
NextRow(w, r) == r \in cand[w] /\ \A q \in cand[w] : r <= q

WaitsFor(w, v) ==
  \/ wpc[w] = "reaping" /\ \E r \in Runs : NextRow(w, r) /\ lock[r] = v
  \/ wpc[w] \in {"claimed", "failing"} /\ lock[wrun[w]] = v
  \/ /\ wpc[w] = "collecting"
     /\ \E q \in Rivals(wrun[w]) :
          lock[q] = v /\ (status[q] \in Active \/ Dirty(q))

\* A run's row is active when its committed status is, or when the transaction
\* that holds it has made it so.
MayBeActive(r) == status[r] \in Active \/ Dirty(r)

\* No two runs of a market are ever active, not even counting what open
\* transactions have written: the check of enqueue, the unique index and the
\* executor that brings a cancelled run back to life agree on one.
OneActivePerMarket ==
  \A r \in Runs : MayBeActive(r) => \A q \in Rivals(r) : ~MayBeActive(q)

\* A run is executed by one transaction at a time, however many workers hold
\* it in their hands after leases lapsed: the row lock serialises them.
OneExecutorPerRun ==
  \A r \in Runs, v, w \in Workers : Executor(v, r) /\ Executor(w, r) => v = w

\* The reaper can get at every run that is collecting: none is stranded by a
\* claim without claimed_at (the reaper's WHERE is false for NULL).
ClaimIsRecoverable ==
  \A r \in Runs : status[r] \in InFlight =>
    claimedAt[r] # "null" /\ claimedBy[r] # NoWorker

\* A claim is executed at most once: batches of evidence in the database and
\* runs still in hand never exceed the attempts counted on the row.
ExecutionsWithinClaims ==
  \A r \in Runs : evidence[r] + Cardinality(InHand(r)) <= attempt[r]

\* The code has no limit on attempts, yet a run is tried at most once per
\* worker and once more for each crash: it cannot bounce between the queue and
\* the workers.
AttemptsBounded ==
  \A r \in Runs : attempt[r] <= crashes + Cardinality(Workers)

\* A run that shows an outcome of execute_run has the rows committed with it:
\* a success has its report and its event, a failure for lack of evidence its
\* event.
OutcomeHasItsRows ==
  \A r \in Runs :
    /\ status[r] \in {"complete", "partial"} => report[r] /\ completedEvents[r] > 0
    /\ errorCode[r] = "insufficient_evidence" => failedEvents[r] > 0

\* Workers can wait in a circle only when one of them reaps, holding one stuck
\* row and waiting for the next, and another executes a run that had already
\* ended, so that its set_status(SCORING) runs into the market's next run.
\* Reapers alone, or executors alone, never block each other for good.
CirclesAreRare ==
  \A W \in SUBSET Workers :
    W # {} /\ (\A w \in W : \E v \in W : WaitsFor(w, v)) =>
      /\ \E w \in W : wpc[w] = "reaping"
      /\ \E w \in W : wpc[w] = "collecting" /\ status[wrun[w]] \in Terminal

\* Nobody but its own transaction changes the row of a run being executed: the
\* reaper does not steal it though the lease has lapsed, cancel waits.
ExecutionUndisturbed ==
  [][\A r \in Runs, w \in Workers :
       Executor(w, r) /\ Executor(w, r)' =>
         status'[r] = status[r] /\ attempt'[r] = attempt[r]]_vars

\* A run in a terminal status is never queued, claimed or counted active again.
TerminalStaysTerminal ==
  [][\A r \in Runs : status[r] \in Terminal =>
       status'[r] \in Terminal /\ attempt'[r] = attempt[r]]_vars

\* When no worker has the run in hand and no cancel has read it as active, its
\* outcome and its report are final.
Settled(r) ==
  /\ status[r] \in Terminal
  /\ InHand(r) = {}
  /\ \A c \in Cancellers : cancelling[c] # r

SettledIsFinal ==
  [][\A r \in Runs : Settled(r) =>
       Settled(r)' /\ status'[r] = status[r] /\ report'[r] = report[r]]_vars

\* Every run accepted by POST /runs gets an outcome, whatever crashes: a worker
\* executes it, or its lease lapses and another poll finds it.
EveryRunEnds == \A r \in Runs : status[r] \in Active ~> status[r] \in Terminal

\* What readers see of the runs is a behaviour of RunLifecycle.
Lifecycle == INSTANCE RunLifecycle
LifecycleSpec == Lifecycle!Spec

-----------------------------------------------------------------------------
(* What the documents say and the code does not do.                        *)

\* 05-api-contract.md:194-195: the statuses a client stops polling at.
TerminalIsFinal ==
  [][\A r \in Runs : status[r] \in Terminal => status'[r] = status[r]]_vars

\* 01-architecture.md:217: the evidence of a run is collected into the database
\* once, however often it is tried.
EvidenceNotDuplicated == \A r \in Runs : evidence[r] <= 1
=============================================================================
