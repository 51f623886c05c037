----------------------------- MODULE ExecuteRun -----------------------------
(***************************************************************************)
(* One run, from its claim to its outcome: execute_run of                  *)
(* engine/pipeline/worker.py and the handler of run_forever around it,     *)
(* with every table they write.                                            *)
(*                                                                         *)
(* RunQueue decides who may execute the run; here it is executed by one    *)
(* transaction at a time (RunQueue's OneExecutorPerRun), possibly again    *)
(* after an execution that committed: a worker that was paused past its    *)
(* lease still holds the claim.  db is what is committed, tx the same      *)
(* tables as the open transaction sees them.                               *)
(*                                                                         *)
(* A signal names its own collect_* stage too (SIGNAL_STAGES).             *)
(***************************************************************************)
EXTENDS Naturals, Sequences, FiniteSetsExt

CONSTANTS
  Order,           \* the collectors, by signal, in the order they are run
  Weight,          \* WEIGHTS, in hundredths
  MayLackValue,    \* signals whose normaliser can find no usable value
  MaxExecutions    \* bound: how often the run is claimed

Signals == Range(Order)

LateStages == {"score", "analyze", "finalize"}
Stages == Signals \cup {"resolve"} \cup LateStages

\* build_collectors makes one collector of each signal, and no signal's stage
\* is one of the later ones.
ASSUME OrderAssumption ==
  /\ Order \in Seq(Signals) /\ Len(Order) > 0
  /\ \A i, j \in 1 .. Len(Order) : Order[i] = Order[j] => i = j
  /\ Signals \cap LateStages = {}
ASSUME WeightAssumption == Weight \in [Signals -> Nat \ {0}]
ASSUME MayLackValueAssumption == MayLackValue \subseteq Signals
ASSUME MaxExecutionsAssumption == MaxExecutions \in Nat

VARIABLES
  db, tx,      \* the tables: as committed, as the transaction sees them
  pc,          \* where execute_run is
  next,        \* the collector whose turn it is
  collected,   \* signals with usable payloads in this execution
  exec         \* number of this execution, which stamps what it writes

vars == <<db, tx, pc, next, collected, exec>>

StageStatus == {"absent", "pending", "running", "ok", "failed", "skipped"}
Statuses == {"collecting", "scoring", "analyzing",
             "complete", "partial", "failed", "cancelled"}
Success == {"complete", "partial"}
Execs == 0 .. MaxExecutions    \* 0: no execution wrote it yet

EvidenceStatus == {"ok", "absent", "error"}

Tables ==
  [status   : Statuses,
   error    : {"null", "insufficient_evidence", "worker_error"},
   stages   : [Stages -> StageStatus],
   evidence : SUBSET [exec : Execs, signal : Signals, status : EvidenceStatus],
   signals  : [Signals -> [exec : Execs, scored : BOOLEAN]],
   score    : Execs,                        \* the execution that wrote the row
   report   : [exec : Execs, missing : SUBSET Signals, sources : SUBSET Signals],
   events   : SUBSET [exec : Execs, type : {"run.completed", "run.failed"}]]

TypeOK ==
  /\ db \in Tables /\ tx \in Tables
  /\ pc \in {"idle", "collect", "score", "analyze", "finalize", "failing"}
  /\ next \in 1 .. Len(Order) + 1
  /\ collected \subseteq Signals
  /\ exec \in Execs

\* A run as claim_next leaves it for its first execution.
Init ==
  /\ db = [status |-> "collecting", error |-> "null",
           stages |-> [s \in Stages |-> "absent"],
           evidence |-> {},
           signals |-> [s \in Signals |-> [exec |-> 0, scored |-> FALSE]],
           score |-> 0,
           report |-> [exec |-> 0, missing |-> {}, sources |-> {}],
           events |-> {}]
  /\ tx = db
  /\ pc = "idle" /\ next = 1 /\ collected = {} /\ exec = 0

-----------------------------------------------------------------------------
(* Helpers: each maps the tables to the tables after one statement.        *)

Initialise(t) ==
  [t EXCEPT !.stages = [s \in Stages |-> IF @[s] = "absent" THEN "pending" ELSE @[s]]]

Stage(t, s, st) == [t EXCEPT !.stages[s] = st]

SetStatus(t, status, error) == [t EXCEPT !.status = status, !.error = error]

Emit(t, type) == [t EXCEPT !.events = @ \cup {[exec |-> exec, type |-> type]}]

\* coverage >= min_coverage_to_score, which is 0.5.
Covered(available) ==
  2 * MapThenSumSet(LAMBDA s : Weight[s], available)
    >= MapThenSumSet(LAMBDA s : Weight[s], Signals)

Missing(t) == {s \in Signals : ~t.signals[s].scored}

-----------------------------------------------------------------------------
\* Variant: an execution resets the stages for its readers, and commits that.
BeginAfresh ==
  /\ pc = "idle" /\ exec < MaxExecutions
  /\ exec' = exec + 1
  /\ db' = Stage([db EXCEPT !.stages = [s \in Stages |-> "pending"]], "resolve", "ok")
  /\ tx' = db'
  /\ pc' = "collect" /\ next' = 1 /\ collected' = {}

\* The claimed run is loaded, its stage rows exist, resolve is done.
Begin ==
  /\ pc = "idle" /\ exec < MaxExecutions
  /\ exec' = exec + 1
  /\ tx' = Stage(Initialise(db), "resolve", "ok")
  /\ pc' = "collect" /\ next' = 1 /\ collected' = {}
  /\ UNCHANGED db

\* Variant: the stage of a collector that raised is left as it was.
CollectorRaisesUnseen ==
  /\ pc = "collect" /\ next <= Len(Order)
  /\ next' = next + 1
  /\ UNCHANGED <<db, tx, pc, collected, exec>>

\* A collector that raises, or returns nothing: its stage fails, and nothing
\* else is written.
CollectorRaises ==
  /\ pc = "collect" /\ next <= Len(Order)
  /\ tx' = Stage(tx, Order[next], "failed")
  /\ next' = next + 1
  /\ UNCHANGED <<db, pc, collected, exec>>

StoreEvidence(t, s, result) ==
  [t EXCEPT !.evidence = @ \cup {[exec |-> exec, signal |-> s, status |-> result]}]

\* Variant: whatever a collector returned counts as collected.
CollectAny ==
  \E result \in EvidenceStatus :
    /\ pc = "collect" /\ next <= Len(Order)
    /\ LET s == Order[next]
       IN /\ tx' = Stage(StoreEvidence(tx, s, result), s, "ok")
          /\ collected' = collected \cup {s}
    /\ next' = next + 1
    /\ UNCHANGED <<db, pc, exec>>

\* The results of one collector, stored as evidence; they share a status, and
\* the stage is ok, and the signal collected, when it is ok.
Collect ==
  \E result \in EvidenceStatus :
    /\ pc = "collect" /\ next <= Len(Order)
    /\ LET s == Order[next] ok == result = "ok"
       IN /\ tx' = Stage(StoreEvidence(tx, s, result), s, IF ok THEN "ok" ELSE "failed")
          /\ collected' = IF ok THEN collected \cup {s} ELSE collected
    /\ next' = next + 1
    /\ UNCHANGED <<db, pc, exec>>

StartScoring ==
  /\ pc = "collect" /\ next > Len(Order)
  /\ tx' = Stage(SetStatus(tx, "scoring", "null"), "score", "running")
  /\ pc' = "score"
  /\ UNCHANGED <<db, next, collected, exec>>

\* Variant: ON CONFLICT DO NOTHING, which keeps the rows of an older execution.
StoreSignalsOnce(t, scored) ==
  [t EXCEPT !.signals = [s \in Signals |->
     IF @[s].exec = 0 THEN [exec |-> exec, scored |-> s \in scored] ELSE @[s]]]

\* One row per signal, with a score for those that could be normalised.
StoreSignals(t, scored) ==
  [t EXCEPT !.signals = [s \in Signals |-> [exec |-> exec, scored |-> s \in scored]]]

\* The signals normalise() may give a score, given what was collected.
Normalisable(scored) ==
  scored \subseteq collected /\ collected \ scored \subseteq MayLackValue

\* The transaction commits with tables t.
Commit(t) ==
  /\ db' = t /\ tx' = t
  /\ pc' = "idle"
  /\ UNCHANGED <<next, collected, exec>>

InsufficientEvidence ==
  \E scored \in SUBSET Signals :
    /\ pc = "score"
    /\ Normalisable(scored) /\ ~Covered(scored)
    /\ LET failed == Stage(StoreSignals(tx, scored), "score", "failed")
           skipped == Stage(Stage(failed, "analyze", "skipped"), "finalize", "skipped")
       IN Commit(Emit(SetStatus(skipped, "failed", "insufficient_evidence"), "run.failed"))

\* Variant: the score is committed as soon as it is known.
ScoreCommits ==
  \E scored \in SUBSET Signals :
    /\ pc = "score"
    /\ Normalisable(scored) /\ Covered(scored)
    /\ LET done == Stage([StoreSignals(tx, scored) EXCEPT !.score = exec], "score", "ok")
       IN tx' = Stage(SetStatus(done, "analyzing", "null"), "analyze", "running")
    /\ db' = tx'
    /\ pc' = "analyze"
    /\ UNCHANGED <<next, collected, exec>>

Score ==
  \E scored \in SUBSET Signals :
    /\ pc = "score"
    /\ Normalisable(scored) /\ Covered(scored)
    /\ LET done == Stage([StoreSignals(tx, scored) EXCEPT !.score = exec], "score", "ok")
       IN tx' = Stage(SetStatus(done, "analyzing", "null"), "analyze", "running")
    /\ pc' = "analyze"
    /\ UNCHANGED <<db, next, collected, exec>>

Analyse ==
  /\ pc = "analyze"
  /\ tx' = Stage(Stage(tx, "analyze", "ok"), "finalize", "running")
  /\ pc' = "finalize"
  /\ UNCHANGED <<db, next, collected, exec>>

\* The report names as sources every signal with an ok row of this run, from
\* whichever execution.
Report(t) ==
  [exec |-> exec, missing |-> Missing(t),
   sources |-> {s \in Signals : \E e \in t.evidence : e.signal = s /\ e.status = "ok"}]

Finalise ==
  /\ pc = "finalize"
  /\ LET done == Stage([tx EXCEPT !.report = Report(tx)], "finalize", "ok")
         final == IF Missing(tx) # {} THEN "partial" ELSE "complete"
     IN Commit(Emit(SetStatus(done, final, "null"), "run.completed"))

\* Variant: no rollback before the failure is recorded.
RaiseKeeps ==
  /\ pc \notin {"idle", "failing"}
  /\ pc' = "failing"
  /\ UNCHANGED <<db, tx, next, collected, exec>>

\* An exception inside execute_run: rollback, then a transaction that records it.
Raise ==
  /\ pc \notin {"idle", "failing"}
  /\ tx' = db /\ pc' = "failing"
  /\ UNCHANGED <<db, next, collected, exec>>

RecordFailure ==
  /\ pc = "failing"
  /\ Commit(SetStatus(tx, "failed", "worker_error"))

\* The worker dies: Postgres rolls back.
Crash ==
  /\ pc # "idle"
  /\ tx' = db /\ pc' = "idle"
  /\ UNCHANGED <<db, next, collected, exec>>

\* The cancel endpoint writes when no execution holds the row; it may have read
\* the status before the last execution ended.
Cancel ==
  /\ pc \in {"idle", "failing"}
  /\ db' = SetStatus(db, "cancelled", "null") /\ tx' = db'
  /\ UNCHANGED <<pc, next, collected, exec>>

Next ==
  \/ Begin \/ CollectorRaises \/ Collect \/ StartScoring \/ InsufficientEvidence
  \/ Score \/ Analyse \/ Finalise \/ Raise \/ RecordFailure \/ Crash \/ Cancel

Spec == Init /\ [][Next]_vars

-----------------------------------------------------------------------------
(* What holds of the committed tables.                                     *)

\* The committed timeline tells the outcome the status tells.  A success has its
\* late stages done, and declares a signal missing if its stage did not end well,
\* or if it ended well and its payload had no usable value; a declined run shows
\* where it was declined.  An execution settles the stages one by one, over
\* whatever the last one left there.
TimelineMatchesStatus ==
  /\ db.status \in Success =>
       /\ \A s \in LateStages : db.stages[s] = "ok"
       /\ \A s \in Signals : IF db.stages[s] = "ok" THEN s \in db.report.missing => s \in MayLackValue
                            ELSE s \in db.report.missing
  /\ db.error = "insufficient_evidence" =>
       /\ db.stages["score"] = "failed"
       /\ db.stages["analyze"] = "skipped" /\ db.stages["finalize"] = "skipped"

\* A successful run is the work of one execution throughout, and is called
\* complete exactly when its report declares no signal missing.
SuccessIsConsistent ==
  db.status \in Success =>
    /\ db.score # 0 /\ db.report.exec = db.score
    /\ \A s \in Signals : db.signals[s].exec = db.score
    /\ db.report.missing = Missing(db)
    /\ db.status = "complete" <=> db.report.missing = {}

\* No number without evidence: a scored signal has ok evidence collected by the
\* execution that scored it, and its success names it among the sources.
ScoredHasEvidence ==
  \A s \in Signals : db.signals[s].scored =>
    /\ \E e \in db.evidence : e.exec = db.signals[s].exec /\ e.signal = s /\ e.status = "ok"
    /\ db.status \in Success => s \in db.report.sources

\* An execution that raised or died has left nothing behind: whatever carries
\* its number was committed together with its event.
Announced(e) == \E v \in db.events : v.exec = e

NoTraceWithoutEvent ==
  /\ \A e \in db.evidence : Announced(e.exec)
  /\ \A s \in Signals : db.signals[s].exec # 0 => Announced(db.signals[s].exec)
  /\ db.score # 0 => Announced(db.score)

\* A score is never seen without the report of the same execution, even when a
\* later execution failed: neither table gets ahead of the other.
ScoreHasReport == db.report.exec = db.score

\* To a reader an execution is one step: signals, score, report and status of
\* one execution appear together, or the status alone changes.
Outcome == INSTANCE RunOutcome WITH
  status <- db.status, signals <- db.signals, score <- db.score, report <- db.report

OutcomeSpec == Outcome!Spec
=============================================================================
