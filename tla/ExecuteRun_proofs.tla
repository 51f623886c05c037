-------------------------- MODULE ExecuteRun_proofs --------------------------
(***************************************************************************)
(* Proofs about ExecuteRun, for every list of collectors, every weight and *)
(* every number of executions: the committed tables agree with each other, *)
(* and to a reader an execution is one step of RunOutcome.                 *)
(*                                                                         *)
(* What is committed depends on what the open transaction has gathered:    *)
(* the invariant follows tx from the rollback or commit it starts from.    *)
(***************************************************************************)
EXTENDS ExecuteRun, TLAPS

AllRows(e, scored) == [s \in Signals |-> [exec |-> e, scored |-> s \in scored]]

Working == {"collect", "score", "analyze", "finalize"}

\* With no execution open, the two views are one.
TxIsDb == pc \in {"idle", "failing"} => tx = db

\* An open execution has a number of its own, and adds evidence under it.
TxEvidence ==
  pc \in Working =>
    /\ db.evidence \subseteq tx.evidence
    /\ \A e \in tx.evidence \ db.evidence : e.exec = exec
    /\ \A s \in collected : [exec |-> exec, signal |-> s, status |-> "ok"] \in tx.evidence
    /\ tx.report = db.report /\ tx.events = db.events

\* Before Score the results are the committed ones, after it this execution's.
TxResults ==
  /\ pc \in {"collect", "score"} => tx.signals = db.signals /\ tx.score = db.score
  /\ pc \in {"analyze", "finalize"} =>
       /\ tx.score = exec
       /\ \E scored \in SUBSET collected :
            collected \ scored \subseteq MayLackValue /\ tx.signals = AllRows(exec, scored)

\* At most the stage at work is running, and the earlier late ones are done.
TxStages ==
  pc \in Working =>
    /\ \A s \in Stages : tx.stages[s] = "running" => s = pc /\ pc # "collect"
    /\ pc \in {"analyze", "finalize"} => tx.stages["score"] = "ok"
    /\ pc = "finalize" => tx.stages["analyze"] = "ok"

\* The stage of a signal is ok, once its turn has come, if it was collected.
StageOk(s) == tx.stages[s] = "ok" <=> s \in collected

TxCollected ==
  /\ pc = "collect" =>
       \A i \in 1 .. Len(Order) : IF i < next THEN StageOk(Order[i]) ELSE Order[i] \notin collected
  /\ pc \in Working \ {"collect"} => \A s \in Signals : StageOk(s)

\* What is committed is older than the open execution.
Younger ==
  /\ pc # "idle" => exec > 0
  /\ \A s \in Signals : /\ db.signals[s].exec <= exec
                        /\ pc # "idle" => db.signals[s].exec < exec

-----------------------------------------------------------------------------
(* The helpers.                                                            *)

\* Every stage written is one of the run's.
LEMMA StageNames ==
  /\ Signals \subseteq Stages
  /\ {"resolve", "score", "analyze", "finalize"} \subseteq Stages
BY DEF Stages, LateStages

\* The collector whose turn it is collects one of the signals.
LEMMA TurnIsSignal ==
  ASSUME NEW n \in 1 .. Len(Order) + 1, n <= Len(Order)
  PROVE  Order[n] \in Signals
BY OrderAssumption

\* Stage changes one stage.
LEMMA StageEffect ==
  ASSUME NEW t \in Tables, NEW s \in Stages, NEW st \in StageStatus
  PROVE  /\ Stage(t, s, st) \in Tables
         /\ Stage(t, s, st).stages = [t.stages EXCEPT ![s] = st]
         /\ Stage(t, s, st).status = t.status /\ Stage(t, s, st).error = t.error
         /\ Stage(t, s, st).evidence = t.evidence /\ Stage(t, s, st).signals = t.signals
         /\ Stage(t, s, st).score = t.score /\ Stage(t, s, st).report = t.report
         /\ Stage(t, s, st).events = t.events
BY DEF Stage, Tables

\* SetStatus changes the status and the error.
LEMMA SetStatusEffect ==
  ASSUME NEW t \in Tables, NEW st \in Statuses,
         NEW err \in {"null", "insufficient_evidence", "worker_error"}
  PROVE  /\ SetStatus(t, st, err) \in Tables
         /\ SetStatus(t, st, err).status = st /\ SetStatus(t, st, err).error = err
         /\ SetStatus(t, st, err).stages = t.stages
         /\ SetStatus(t, st, err).evidence = t.evidence
         /\ SetStatus(t, st, err).signals = t.signals
         /\ SetStatus(t, st, err).score = t.score /\ SetStatus(t, st, err).report = t.report
         /\ SetStatus(t, st, err).events = t.events
BY DEF SetStatus, Tables

\* Emit adds an event of this execution.
LEMMA EmitEffect ==
  ASSUME NEW t \in Tables, NEW type \in {"run.completed", "run.failed"}, exec \in Execs
  PROVE  /\ Emit(t, type) \in Tables
         /\ Emit(t, type).events = t.events \cup {[exec |-> exec, type |-> type]}
         /\ Emit(t, type).status = t.status /\ Emit(t, type).error = t.error
         /\ Emit(t, type).stages = t.stages
         /\ Emit(t, type).evidence = t.evidence /\ Emit(t, type).signals = t.signals
         /\ Emit(t, type).score = t.score /\ Emit(t, type).report = t.report
BY DEF Emit, Tables

\* Rows of one execution are rows of the table.
LEMMA RowsType ==
  ASSUME NEW e \in Execs, NEW scored \in SUBSET Signals
  PROVE  AllRows(e, scored) \in [Signals -> [exec : Execs, scored : BOOLEAN]]
<1>1. ASSUME NEW s \in Signals
      PROVE  [exec |-> e, scored |-> s \in scored] \in [exec : Execs, scored : BOOLEAN]
  <2>1. (s \in scored) \in BOOLEAN
    <3>1. CASE s \in scored
      BY <3>1
    <3>2. CASE ~(s \in scored)
      BY <3>2
    <3>3. QED
      BY <3>1, <3>2
  <2>2. QED
    BY <2>1, Zenon
<1>2. QED
  BY <1>1, Zenon DEF AllRows

\* StoreSignals replaces every signals row.
LEMMA StoreSignalsEffect ==
  ASSUME NEW t \in Tables, NEW scored \in SUBSET Signals, exec \in Execs
  PROVE  /\ StoreSignals(t, scored) \in Tables
         /\ StoreSignals(t, scored).signals = AllRows(exec, scored)
         /\ StoreSignals(t, scored).status = t.status /\ StoreSignals(t, scored).error = t.error
         /\ StoreSignals(t, scored).stages = t.stages
         /\ StoreSignals(t, scored).evidence = t.evidence
         /\ StoreSignals(t, scored).score = t.score /\ StoreSignals(t, scored).report = t.report
         /\ StoreSignals(t, scored).events = t.events
<1> DEFINE rows == AllRows(exec, scored)
<1>1. rows \in [Signals -> [exec : Execs, scored : BOOLEAN]]
  BY RowsType
<1>2. StoreSignals(t, scored) = [t EXCEPT !.signals = rows]
  BY Zenon DEF StoreSignals, AllRows
<1> HIDE DEF rows
<1>3. /\ [t EXCEPT !.signals = rows] \in Tables
      /\ [t EXCEPT !.signals = rows].signals = rows
      /\ [t EXCEPT !.signals = rows].status = t.status
      /\ [t EXCEPT !.signals = rows].error = t.error
      /\ [t EXCEPT !.signals = rows].stages = t.stages
      /\ [t EXCEPT !.signals = rows].evidence = t.evidence
      /\ [t EXCEPT !.signals = rows].score = t.score
      /\ [t EXCEPT !.signals = rows].report = t.report
      /\ [t EXCEPT !.signals = rows].events = t.events
  BY <1>1 DEF Tables
<1>4. QED
  BY <1>2, <1>3 DEF rows

\* StoreEvidence adds one row of this execution.
LEMMA StoreEvidenceEffect ==
  ASSUME NEW t \in Tables, NEW s \in Signals, NEW result \in EvidenceStatus, exec \in Execs
  PROVE  /\ StoreEvidence(t, s, result) \in Tables
         /\ StoreEvidence(t, s, result).evidence
              = t.evidence \cup {[exec |-> exec, signal |-> s, status |-> result]}
         /\ StoreEvidence(t, s, result).status = t.status
         /\ StoreEvidence(t, s, result).error = t.error
         /\ StoreEvidence(t, s, result).stages = t.stages
         /\ StoreEvidence(t, s, result).signals = t.signals
         /\ StoreEvidence(t, s, result).score = t.score
         /\ StoreEvidence(t, s, result).report = t.report
         /\ StoreEvidence(t, s, result).events = t.events
<1> DEFINE row == [exec |-> exec, signal |-> s, status |-> result]
<1>1. t.evidence \cup {row} \in SUBSET [exec : Execs, signal : Signals, status : EvidenceStatus]
  BY DEF Tables
<1>2. StoreEvidence(t, s, result) = [t EXCEPT !.evidence = @ \cup {row}]
  BY DEF StoreEvidence
<1> HIDE DEF row
<1>3. QED
  BY <1>1, <1>2 DEF Tables, row

\* Initialise adds pending stages.
LEMMA InitialiseEffect ==
  ASSUME NEW t \in Tables
  PROVE  /\ Initialise(t) \in Tables
         /\ \A s \in Stages : Initialise(t).stages[s] = "running" => t.stages[s] = "running"
         /\ Initialise(t).evidence = t.evidence /\ Initialise(t).signals = t.signals
         /\ Initialise(t).score = t.score /\ Initialise(t).report = t.report
         /\ Initialise(t).events = t.events
BY DEF Initialise, Tables, StageStatus

\* What a row of one execution says.
LEMMA RowFields ==
  ASSUME NEW e, NEW scored, NEW s \in Signals
  PROVE  /\ AllRows(e, scored)[s].exec = e
         /\ AllRows(e, scored)[s].scored <=> s \in scored
<1>1. AllRows(e, scored)[s] = [exec |-> e, scored |-> s \in scored]
  BY DEF AllRows
<1>2. [exec |-> e, scored |-> s \in scored].exec = e
  OBVIOUS
<1>3. [exec |-> e, scored |-> s \in scored].scored <=> s \in scored
  OBVIOUS
<1>4. QED
  BY <1>1, <1>2, <1>3

\* The signals without a score, when the rows are one execution's.
LEMMA MissingOfRows ==
  ASSUME NEW t \in Tables, NEW e, NEW scored \in SUBSET Signals, t.signals = AllRows(e, scored)
  PROVE  Missing(t) = Signals \ scored
BY RowFields DEF Missing

\* Every signal has its turn, and no late stage is a signal's.
LEMMA TurnsCover ==
  /\ Len(Order) \in Nat
  /\ \A s \in Signals : \E i \in 1 .. Len(Order) : Order[i] = s
  /\ \A s \in Signals : s \in Stages /\ s \notin LateStages
BY OrderAssumption DEF Signals, Range, Stages

-----------------------------------------------------------------------------
(* Types.                                                                  *)

LEMMA TypeInit == Init => TypeOK
<1> SUFFICES ASSUME Init
             PROVE  TypeOK
  OBVIOUS
<1>1. 0 \in Execs
  BY MaxExecutionsAssumption DEF Execs
<1>2. db \in Tables
  BY <1>1 DEF Init, Tables, Statuses, StageStatus
<1>3. 1 \in 1 .. Len(Order) + 1
  BY OrderAssumption
<1>4. QED
  BY <1>1, <1>2, <1>3 DEF Init, TypeOK

LEMMA TypeStep ==
  ASSUME TypeOK, [Next]_vars
  PROVE  TypeOK'
<1>0. /\ db \in Tables /\ tx \in Tables /\ exec \in Execs
      /\ collected \subseteq Signals /\ next \in 1 .. Len(Order) + 1
      /\ {"resolve", "score", "analyze", "finalize"} \subseteq Stages
      /\ {"ok", "failed", "skipped", "running"} \subseteq StageStatus
      /\ {"scoring", "analyzing", "failed", "cancelled", "complete", "partial"} \subseteq Statuses
  BY StageNames DEF TypeOK, StageStatus, Statuses
<1>1. CASE Begin
  <2>1. tx' \in Tables
    BY <1>0, <1>1, InitialiseEffect, StageEffect DEF Begin
  <2>2. exec' \in Execs /\ next' \in 1 .. Len(Order) + 1
    BY <1>0, <1>1, MaxExecutionsAssumption, OrderAssumption DEF Begin, Execs
  <2>3. QED
    BY <1>0, <1>1, <2>1, <2>2 DEF Begin, TypeOK
<1>2. CASE CollectorRaises
  <2>1. tx' \in Tables
    BY <1>0, <1>2, TurnIsSignal, StageNames, StageEffect DEF CollectorRaises
  <2>2. next' \in 1 .. Len(Order) + 1
    BY <1>0, <1>2, OrderAssumption DEF CollectorRaises
  <2>3. QED
    BY <1>0, <1>2, <2>1, <2>2 DEF CollectorRaises, TypeOK
<1>3. CASE Collect
  <2>1. PICK result \in EvidenceStatus :
          /\ pc = "collect" /\ next <= Len(Order)
          /\ tx' = Stage(StoreEvidence(tx, Order[next], result), Order[next],
                         IF result = "ok" THEN "ok" ELSE "failed")
          /\ collected' = IF result = "ok" THEN collected \cup {Order[next]} ELSE collected
          /\ next' = next + 1
          /\ UNCHANGED <<db, pc, exec>>
    BY <1>3 DEF Collect
  <2>2. Order[next] \in Signals
    BY <1>0, <2>1, TurnIsSignal
  <2>3. StoreEvidence(tx, Order[next], result) \in Tables
    BY <1>0, <2>2, StoreEvidenceEffect
  <2>4. tx' \in Tables
    BY <1>0, <2>1, <2>2, <2>3, StageNames, StageEffect
  <2>5. next' \in 1 .. Len(Order) + 1 /\ collected' \subseteq Signals
    BY <1>0, <2>1, <2>2, OrderAssumption
  <2>6. QED
    BY <1>0, <2>1, <2>4, <2>5 DEF TypeOK
<1>4. CASE StartScoring
  <2>1. tx' \in Tables
    BY <1>0, <1>4, SetStatusEffect, StageEffect DEF StartScoring
  <2>2. QED
    BY <1>0, <1>4, <2>1 DEF StartScoring, TypeOK
<1>5. CASE InsufficientEvidence
  <2>1. PICK scored \in SUBSET Signals :
          Commit(Emit(SetStatus(Stage(Stage(Stage(StoreSignals(tx, scored), "score", "failed"),
                                            "analyze", "skipped"), "finalize", "skipped"),
                                "failed", "insufficient_evidence"), "run.failed"))
    BY <1>5 DEF InsufficientEvidence
  <2>2. StoreSignals(tx, scored) \in Tables
    BY <1>0, StoreSignalsEffect
  <2>3. Stage(Stage(Stage(StoreSignals(tx, scored), "score", "failed"),
                    "analyze", "skipped"), "finalize", "skipped") \in Tables
    BY <1>0, <2>2, StageEffect
  <2>4. QED
    BY <1>0, <2>1, <2>3, SetStatusEffect, EmitEffect DEF Commit, TypeOK
<1>6. CASE Score
  <2>1. PICK scored \in SUBSET Signals :
          /\ tx' = Stage(SetStatus(Stage([StoreSignals(tx, scored) EXCEPT !.score = exec],
                                         "score", "ok"), "analyzing", "null"),
                         "analyze", "running")
          /\ pc' = "analyze"
          /\ UNCHANGED <<db, next, collected, exec>>
    BY <1>6 DEF Score
  <2>2. [StoreSignals(tx, scored) EXCEPT !.score = exec] \in Tables
    <3>1. StoreSignals(tx, scored) \in Tables
      BY <1>0, StoreSignalsEffect
    <3>2. QED
      BY <1>0, <3>1 DEF Tables
  <2>3. tx' \in Tables
    BY <1>0, <2>1, <2>2, StageEffect, SetStatusEffect
  <2>4. QED
    BY <1>0, <2>1, <2>3 DEF TypeOK
<1>7. CASE Analyse
  <2>1. tx' \in Tables
    BY <1>0, <1>7, StageEffect DEF Analyse
  <2>2. QED
    BY <1>0, <1>7, <2>1 DEF Analyse, TypeOK
<1>8. CASE Finalise
  <2>1. Report(tx) \in [exec : Execs, missing : SUBSET Signals, sources : SUBSET Signals]
    BY <1>0 DEF Report, Missing
  <2>2. [tx EXCEPT !.report = Report(tx)] \in Tables
    BY <1>0, <2>1 DEF Tables
  <2>3. Stage([tx EXCEPT !.report = Report(tx)], "finalize", "ok") \in Tables
    BY <1>0, <2>2, StageEffect
  <2>4. QED
    BY <1>0, <1>8, <2>3, SetStatusEffect, EmitEffect DEF Finalise, Commit, TypeOK
<1>9. CASE Raise \/ Crash
  BY <1>0, <1>9 DEF Raise, Crash, TypeOK
<1>10. CASE RecordFailure
  BY <1>0, <1>10, SetStatusEffect DEF RecordFailure, Commit, TypeOK
<1>11. CASE Cancel
  BY <1>0, <1>11, SetStatusEffect DEF Cancel, TypeOK
<1>12. CASE UNCHANGED vars
  BY <1>0, <1>12 DEF vars, TypeOK
<1>13. QED
  BY <1>1, <1>2, <1>3, <1>4, <1>5, <1>6, <1>7, <1>8, <1>9, <1>10, <1>11, <1>12 DEF Next

\* The committed tables, the open transaction's and where it is keep their types.
THEOREM TypeCorrect == Spec => []TypeOK
BY TypeInit, TypeStep, PTL DEF Spec
-----------------------------------------------------------------------------
(* The committed tables.                                                   *)

\* An execution that commits has settled every stage it had set running.
NothingRunning == \A s \in Stages : db.stages[s] # "running"

Agreement ==
  /\ TimelineMatchesStatus /\ NothingRunning /\ SuccessIsConsistent /\ ScoredHasEvidence
  /\ NoTraceWithoutEvent /\ ScoreHasReport

Transaction == TxIsDb /\ TxEvidence /\ TxResults /\ TxStages /\ TxCollected /\ Younger

\* What is committed agrees as long as nothing is.
LEMMA AgreementOfDb ==
  ASSUME Agreement, UNCHANGED db
  PROVE  Agreement'
BY DEF Agreement, TimelineMatchesStatus, NothingRunning, SuccessIsConsistent,
       ScoredHasEvidence, NoTraceWithoutEvent, Announced, ScoreHasReport, Missing

LEMMA AgreementInit == Init => Agreement /\ Transaction
<1> SUFFICES ASSUME Init
             PROVE  Agreement /\ Transaction
  OBVIOUS
<1>1. /\ \A s \in Stages : db.stages[s] = "absent"
      /\ \A s \in Signals : db.signals[s] = [exec |-> 0, scored |-> FALSE]
      /\ db.status = "collecting" /\ db.error = "null" /\ db.evidence = {}
      /\ db.score = 0 /\ db.report.exec = 0
  BY DEF Init
<1>2. Agreement
  BY <1>1 DEF Agreement, TimelineMatchesStatus, NothingRunning, SuccessIsConsistent,
       ScoredHasEvidence, NoTraceWithoutEvent, ScoreHasReport, Success
<1>3. Transaction
  BY <1>1 DEF Init, Transaction, TxIsDb, TxEvidence, TxResults, TxStages, TxCollected,
       Younger, Working
<1>4. QED
  BY <1>2, <1>3

\* An execution starts from the committed tables.
LEMMA BeginStep ==
  ASSUME TypeOK, Agreement, Transaction, Begin
  PROVE  Transaction'
<1>1. /\ db \in Tables /\ exec \in Nat /\ exec' = exec + 1 /\ db' = db
      /\ pc = "idle" /\ pc' = "collect" /\ collected' = {}
      /\ \A s \in Signals : db.signals[s].exec \in Nat /\ db.signals[s].exec <= exec
      /\ \A s \in Stages : db.stages[s] # "running"
  BY DEF TypeOK, Execs, Begin, Transaction, Younger, Agreement, NothingRunning, Tables
<1>2. /\ Initialise(db) \in Tables
      /\ \A s \in Stages : Initialise(db).stages[s] # "running"
      /\ Initialise(db).evidence = db.evidence /\ Initialise(db).signals = db.signals
      /\ Initialise(db).score = db.score /\ Initialise(db).report = db.report
      /\ Initialise(db).events = db.events
  BY <1>1, InitialiseEffect
<1>3. /\ tx'.evidence = db.evidence /\ tx'.signals = db.signals
      /\ tx'.score = db.score /\ tx'.report = db.report /\ tx'.events = db.events
      /\ tx'.stages = [Initialise(db).stages EXCEPT !["resolve"] = "ok"]
  <2> DEFINE ready == Initialise(db)
  <2>1. tx' = Stage(ready, "resolve", "ok")
    BY DEF Begin
  <2>2. /\ ready \in Tables /\ "resolve" \in Stages /\ "ok" \in StageStatus
        /\ ready.evidence = db.evidence /\ ready.signals = db.signals
        /\ ready.score = db.score /\ ready.report = db.report /\ ready.events = db.events
    BY <1>2, StageNames DEF StageStatus
  <2> HIDE DEF ready
  <2>3. /\ tx'.evidence = ready.evidence /\ tx'.signals = ready.signals
        /\ tx'.score = ready.score /\ tx'.report = ready.report
        /\ tx'.events = ready.events
        /\ tx'.stages = [ready.stages EXCEPT !["resolve"] = "ok"]
    BY <2>1, <2>2, StageEffect
  <2>4. QED
    BY <2>2, <2>3 DEF ready
<1>4. \A s \in Stages : tx'.stages[s] # "running"
  BY <1>2, <1>3 DEF Tables
<1>5. TxCollected'
  BY <1>1 DEF Begin, TxCollected, Working
<1>6. QED
  BY <1>1, <1>3, <1>4, <1>5
  DEF Transaction, TxIsDb, TxEvidence, TxResults, TxStages, Younger, Working

\* The turn of one collector leaves the stages and the signals of the others.
LEMMA TurnCollected ==
  ASSUME TypeOK, TxCollected, pc = "collect", pc' = pc, next <= Len(Order), next' = next + 1,
         NEW st, tx'.stages = [tx.stages EXCEPT ![Order[next]] = st],
         \/ st = "ok" /\ collected' = collected \cup {Order[next]}
         \/ st # "ok" /\ collected' = collected
  PROVE  TxCollected'
<1>1. /\ next \in Nat /\ next \in 1 .. Len(Order) /\ Len(Order) \in Nat
      /\ tx.stages \in [Stages -> StageStatus]
  BY TurnsCover DEF TypeOK, Tables
<1>2. \A i \in 1 .. Len(Order) : Order[i] \in Stages /\ (Order[i] = Order[next] => i = next)
  BY <1>1, OrderAssumption, StageNames
<1>3. ASSUME NEW i \in 1 .. Len(Order)
      PROVE  IF i < next + 1 THEN tx'.stages[Order[i]] = "ok" <=> Order[i] \in collected'
                             ELSE Order[i] \notin collected'
  <2>1. CASE i = next
    <3>1. Order[next] \notin collected
      BY <1>1, <2>1 DEF TxCollected
    <3>2. tx'.stages[Order[next]] = st
      BY <1>1, <1>2
    <3>3. QED
      BY <1>1, <2>1, <3>1, <3>2
  <2>2. CASE i # next
    <3>1. Order[i] # Order[next]
      BY <1>1, <1>2, <2>2
    <3>2. tx'.stages[Order[i]] = tx.stages[Order[i]] /\ (Order[i] \in collected' <=> Order[i] \in collected)
      BY <1>1, <1>2, <3>1
    <3>3. IF i < next THEN tx.stages[Order[i]] = "ok" <=> Order[i] \in collected
                      ELSE Order[i] \notin collected
      BY DEF TxCollected, StageOk
    <3>4. i < next + 1 <=> i < next
      BY <1>1, <2>2
    <3>5. QED
      BY <3>2, <3>3, <3>4
  <2>3. QED
    BY <2>1, <2>2
<1>4. QED
  BY <1>3 DEF TxCollected, StageOk

\* A collector that raises settles its stage.
LEMMA RaisesStep ==
  ASSUME TypeOK, Transaction, CollectorRaises
  PROVE  Transaction'
<1>1. Order[next] \in Stages /\ tx \in Tables
  BY TurnIsSignal, StageNames DEF TypeOK, CollectorRaises
<1>2. /\ tx'.evidence = tx.evidence /\ tx'.signals = tx.signals
      /\ tx'.score = tx.score /\ tx'.report = tx.report /\ tx'.events = tx.events
      /\ tx'.stages = [tx.stages EXCEPT ![Order[next]] = "failed"]
  BY <1>1, StageEffect DEF CollectorRaises, StageStatus
<1>3. /\ pc = "collect" /\ UNCHANGED <<db, pc, collected, exec>>
      /\ tx.stages \in [Stages -> StageStatus]
  BY DEF CollectorRaises, TypeOK, Tables
<1>4. TxCollected'
  BY <1>2, TurnCollected DEF CollectorRaises, Transaction
<1>5. QED
  BY <1>1, <1>2, <1>3, <1>4
  DEF Transaction, TxIsDb, TxEvidence, TxResults, TxStages, Younger, Working

\* A collector that returns adds one row under this execution's number.
LEMMA CollectStep ==
  ASSUME TypeOK, Transaction, Collect
  PROVE  Transaction'
<1>1. PICK result \in EvidenceStatus :
        /\ pc = "collect" /\ next <= Len(Order)
        /\ tx' = Stage(StoreEvidence(tx, Order[next], result), Order[next],
                       IF result = "ok" THEN "ok" ELSE "failed")
        /\ collected' = IF result = "ok" THEN collected \cup {Order[next]} ELSE collected
        /\ next' = next + 1
        /\ UNCHANGED <<db, pc, exec>>
  BY DEF Collect
<1> DEFINE s == Order[next]
           row == [exec |-> exec, signal |-> s, status |-> result]
<1>2. s \in Signals /\ s \in Stages /\ tx \in Tables /\ exec \in Execs
  BY <1>1, TurnIsSignal, StageNames DEF TypeOK
<1> DEFINE stored == StoreEvidence(tx, s, result)
<1> HIDE DEF s, row
<1>3. /\ stored \in Tables
      /\ stored.evidence = tx.evidence \cup {row}
      /\ stored.stages = tx.stages /\ stored.signals = tx.signals
      /\ stored.score = tx.score /\ stored.report = tx.report
      /\ stored.events = tx.events
  BY <1>2, StoreEvidenceEffect DEF row
<1>4. PICK st \in StageStatus \ {"running"} :
        tx' = Stage(stored, s, st) /\ (st = "ok" <=> result = "ok")
  BY <1>1 DEF s, StageStatus
<1> HIDE DEF stored
<1>5. /\ tx'.evidence = tx.evidence \cup {row} /\ tx'.signals = tx.signals
      /\ tx'.score = tx.score /\ tx'.report = tx.report /\ tx'.events = tx.events
      /\ tx'.stages = [tx.stages EXCEPT ![s] = st]
  BY <1>2, <1>3, <1>4, StageEffect
<1>6. /\ pc = "collect" /\ pc' = pc /\ db' = db /\ exec' = exec
      /\ collected' \subseteq collected \cup {s}
      /\ s \in collected' => s \in collected \/ result = "ok"
  BY <1>1 DEF s
<1>7. TxEvidence'
  BY <1>5, <1>6 DEF Transaction, TxEvidence, Working, row
<1>8. TxStages'
  BY <1>2, <1>5, <1>6 DEF Transaction, TxStages, Working, Tables
<1>9. TxIsDb' /\ TxResults' /\ Younger'
  BY <1>5, <1>6 DEF Transaction, TxIsDb, TxResults, Younger
<1>10. TxCollected'
  <2>1. \/ st = "ok" /\ collected' = collected \cup {Order[next]}
        \/ st # "ok" /\ collected' = collected
    BY <1>1, <1>4
  <2>2. tx'.stages = [tx.stages EXCEPT ![Order[next]] = st]
    BY <1>5 DEF s
  <2>3. QED
    BY <1>1, <2>1, <2>2, TurnCollected DEF Transaction
<1>11. QED
  BY <1>7, <1>8, <1>9, <1>10 DEF Transaction

\* The late stages are nobody's signals.
LEMMA LateCollected ==
  ASSUME TypeOK, TxCollected, pc \in {"collect", "score", "analyze"}, UNCHANGED collected,
         pc = "collect" => next > Len(Order), pc' \in {"score", "analyze", "finalize"},
         \A s \in Signals : tx'.stages[s] = tx.stages[s]
  PROVE  TxCollected'
<1>1. \A s \in Signals : StageOk(s)
  <2>1. CASE pc = "collect"
    <3>1. \A i \in 1 .. Len(Order) : StageOk(Order[i])
      BY <2>1, TurnsCover DEF TypeOK, TxCollected
    <3>2. QED
      BY <3>1, TurnsCover
  <2>2. CASE pc # "collect"
    BY <2>2 DEF TxCollected, Working
  <2>3. QED
    BY <2>1, <2>2
<1>2. QED
  BY <1>1 DEF TxCollected, StageOk

\* Scoring begins with every collector settled.
LEMMA ScoringStep ==
  ASSUME TypeOK, Transaction, StartScoring
  PROVE  Transaction'
<1>1. tx \in Tables /\ tx.stages \in [Stages -> StageStatus]
  BY DEF TypeOK, Tables
<1> DEFINE scoring == SetStatus(tx, "scoring", "null")
<1>2. /\ scoring \in Tables
      /\ scoring.evidence = tx.evidence /\ scoring.signals = tx.signals
      /\ scoring.score = tx.score /\ scoring.report = tx.report
      /\ scoring.events = tx.events /\ scoring.stages = tx.stages
  BY <1>1, SetStatusEffect DEF Statuses
<1>3. tx' = Stage(scoring, "score", "running") /\ "score" \in Stages /\ "running" \in StageStatus
  BY StageNames DEF StartScoring, StageStatus
<1> HIDE DEF scoring
<1>4. /\ tx'.evidence = tx.evidence /\ tx'.signals = tx.signals
      /\ tx'.score = tx.score /\ tx'.report = tx.report /\ tx'.events = tx.events
      /\ tx'.stages = [tx.stages EXCEPT !["score"] = "running"]
  BY <1>2, <1>3, StageEffect
<1>5. pc = "collect" /\ pc' = "score" /\ UNCHANGED <<db, collected, exec>>
  BY DEF StartScoring
<1>6. TxStages'
  BY <1>1, <1>4, <1>5, StageNames DEF Transaction, TxStages, Working
<1>7. TxCollected'
  <2>1. \A s \in Signals : tx'.stages[s] = tx.stages[s]
    BY <1>1, <1>4, TurnsCover DEF LateStages
  <2>2. QED
    BY <1>5, <2>1, LateCollected DEF Transaction, StartScoring
<1>8. QED
  BY <1>4, <1>5, <1>6, <1>7 DEF Transaction, TxIsDb, TxEvidence, TxResults, Younger, Working

\* Score leaves the rows of this execution, scored from what it collected.
LEMMA ScoreStep ==
  ASSUME TypeOK, Transaction, Score
  PROVE  Transaction'
<1>1. PICK scored \in SUBSET Signals :
        /\ pc = "score" /\ Normalisable(scored)
        /\ tx' = Stage(SetStatus(Stage([StoreSignals(tx, scored) EXCEPT !.score = exec],
                                       "score", "ok"), "analyzing", "null"),
                       "analyze", "running")
        /\ pc' = "analyze"
        /\ UNCHANGED <<db, next, collected, exec>>
  BY DEF Score
<1> DEFINE rows == [StoreSignals(tx, scored) EXCEPT !.score = exec]
           done == Stage(rows, "score", "ok")
           analysing == SetStatus(done, "analyzing", "null")
<1>2. /\ tx \in Tables /\ exec \in Execs /\ tx.stages \in [Stages -> StageStatus]
      /\ "score" \in Stages /\ "analyze" \in Stages
      /\ "ok" \in StageStatus /\ "running" \in StageStatus /\ "analyzing" \in Statuses
  BY StageNames DEF TypeOK, Tables, StageStatus, Statuses
<1>3. /\ StoreSignals(tx, scored) \in Tables
      /\ StoreSignals(tx, scored).signals = AllRows(exec, scored)
      /\ StoreSignals(tx, scored).stages = tx.stages
      /\ StoreSignals(tx, scored).evidence = tx.evidence
      /\ StoreSignals(tx, scored).report = tx.report
      /\ StoreSignals(tx, scored).events = tx.events
  BY <1>2, StoreSignalsEffect
<1>4. /\ rows \in Tables
      /\ rows.signals = AllRows(exec, scored) /\ rows.score = exec
      /\ rows.stages = tx.stages /\ rows.evidence = tx.evidence
      /\ rows.report = tx.report /\ rows.events = tx.events
  BY <1>2, <1>3 DEF Tables
<1>5. tx' = Stage(analysing, "analyze", "running")
  BY <1>1
<1> HIDE DEF rows
<1>6. /\ done \in Tables
      /\ done.signals = AllRows(exec, scored) /\ done.score = exec
      /\ done.stages = [tx.stages EXCEPT !["score"] = "ok"] /\ done.evidence = tx.evidence
      /\ done.report = tx.report /\ done.events = tx.events
  BY <1>2, <1>4, StageEffect
<1> HIDE DEF done
<1>7. /\ analysing \in Tables
      /\ analysing.signals = AllRows(exec, scored) /\ analysing.score = exec
      /\ analysing.stages = [tx.stages EXCEPT !["score"] = "ok"]
      /\ analysing.evidence = tx.evidence
      /\ analysing.report = tx.report /\ analysing.events = tx.events
  <2>1. done \in Tables /\ "analyzing" \in Statuses
    BY <1>2, <1>6
  <2>2. /\ analysing \in Tables
        /\ analysing.signals = done.signals /\ analysing.score = done.score
        /\ analysing.stages = done.stages /\ analysing.evidence = done.evidence
        /\ analysing.report = done.report /\ analysing.events = done.events
    BY <2>1, SetStatusEffect
  <2>3. QED
    BY <1>6, <2>2
<1> HIDE DEF analysing
<1>8. "analyze" \in Stages /\ "running" \in StageStatus /\ analysing \in Tables
  BY <1>2, <1>7
<1>9. /\ tx'.signals = analysing.signals /\ tx'.score = analysing.score
       /\ tx'.stages = [analysing.stages EXCEPT !["analyze"] = "running"]
       /\ tx'.evidence = analysing.evidence
       /\ tx'.report = analysing.report /\ tx'.events = analysing.events
  BY <1>5, <1>8, StageEffect
<1>10. /\ tx'.signals = AllRows(exec, scored) /\ tx'.score = exec
      /\ tx'.stages = [analysing.stages EXCEPT !["analyze"] = "running"]
      /\ tx'.evidence = tx.evidence
      /\ tx'.report = tx.report /\ tx'.events = tx.events
  BY <1>7, <1>9
<1>11. scored \subseteq collected /\ collected \ scored \subseteq MayLackValue
      /\ pc = "score" /\ pc' = "analyze"
      /\ db' = db /\ collected' = collected /\ exec' = exec
  BY <1>1 DEF Normalisable
<1>12. TxResults'
  <2>1. tx'.signals = AllRows(exec, scored)'
    BY <1>10, <1>11 DEF AllRows
  <2>2. QED
    BY <1>10, <1>11, <2>1 DEF TxResults, AllRows
<1>13. TxStages'
  BY <1>2, <1>7, <1>10, <1>11 DEF Transaction, TxStages, Working
<1>14. TxEvidence' /\ TxIsDb' /\ Younger'
  BY <1>10, <1>11 DEF Transaction, TxEvidence, TxIsDb, Younger, Working
<1>15. TxCollected'
  <2>1. \A s \in Signals : tx'.stages[s] = tx.stages[s]
    BY <1>2, <1>7, <1>10, TurnsCover DEF LateStages
  <2>2. QED
    BY <1>11, <2>1, LateCollected DEF Transaction
<1>16. QED
  BY <1>12, <1>13, <1>14, <1>15 DEF Transaction

\* Analyse settles one stage and starts the last one.
LEMMA AnalyseStep ==
  ASSUME TypeOK, Transaction, Analyse
  PROVE  Transaction'
<1> DEFINE done == Stage(tx, "analyze", "ok")
<1>1. /\ tx \in Tables /\ tx.stages \in [Stages -> StageStatus]
      /\ "finalize" \in Stages /\ "analyze" \in Stages
      /\ "ok" \in StageStatus /\ "running" \in StageStatus
  BY StageNames DEF TypeOK, Tables, StageStatus
<1>2. /\ done.evidence = tx.evidence /\ done.signals = tx.signals
      /\ done.score = tx.score /\ done.report = tx.report
      /\ done.events = tx.events /\ done.stages = [tx.stages EXCEPT !["analyze"] = "ok"]
  BY <1>1, StageEffect
<1>3. done \in Tables
  BY <1>1, StageEffect
<1>4. tx' = Stage(done, "finalize", "running")
  BY DEF Analyse
<1> HIDE DEF done
<1>5. /\ tx'.evidence = done.evidence /\ tx'.signals = done.signals
       /\ tx'.score = done.score /\ tx'.report = done.report /\ tx'.events = done.events
       /\ tx'.stages = [done.stages EXCEPT !["finalize"] = "running"]
  <2>1. "finalize" \in Stages /\ "running" \in StageStatus
    BY <1>1
  <2>2. QED
    BY <1>4, <1>3, <2>1, StageEffect
<1>6. /\ tx'.evidence = tx.evidence /\ tx'.signals = tx.signals
      /\ tx'.score = tx.score /\ tx'.report = tx.report /\ tx'.events = tx.events
  BY <1>2, <1>5
<1>7. pc = "analyze" /\ pc' = "finalize" /\ UNCHANGED <<db, collected, exec>>
  BY DEF Analyse
<1>8. TxStages'
  <2>1. /\ \A s \in Stages : tx.stages[s] = "running" => s = "analyze"
        /\ tx.stages["score"] = "ok" /\ "score" \in Stages
    BY <1>7, StageNames DEF Transaction, TxStages, Working
  <2>2. /\ \A s \in Stages : done.stages[s] # "running"
        /\ done.stages["score"] = "ok" /\ done.stages["analyze"] = "ok"
        /\ done.stages \in [Stages -> StageStatus]
    BY <1>1, <1>2, <2>1
  <2>3. /\ \A s \in Stages : tx'.stages[s] = "running" => s = "finalize"
        /\ tx'.stages["score"] = "ok" /\ tx'.stages["analyze"] = "ok"
    BY <1>1, <1>5, <2>1, <2>2
  <2>4. QED
    BY <1>7, <2>3 DEF TxStages, Working
<1>9. TxResults'
  <2>1. PICK scored \in SUBSET collected :
          collected \ scored \subseteq MayLackValue /\ tx.signals = AllRows(exec, scored)
    BY <1>7 DEF Transaction, TxResults
  <2>2. tx'.signals = AllRows(exec, scored)'
    BY <1>6, <1>7, <2>1 DEF AllRows
  <2>3. QED
    BY <1>6, <1>7, <2>1, <2>2 DEF Transaction, TxResults
<1>10. TxCollected'
  <2>1. \A s \in Signals : tx'.stages[s] = tx.stages[s]
    BY <1>1, <1>2, <1>5, TurnsCover DEF LateStages
  <2>2. QED
    BY <1>7, <2>1, LateCollected DEF Transaction
<1>11. QED
  BY <1>6, <1>7, <1>8, <1>9, <1>10 DEF Transaction, TxIsDb, TxEvidence, Younger, Working

\* A rollback returns to the committed tables.
LEMMA RollbackStep ==
  ASSUME TypeOK, Transaction, Raise \/ Crash
  PROVE  Transaction'
<1>1. /\ tx' = db /\ pc' \in {"failing", "idle"} /\ pc # "idle"
      /\ UNCHANGED <<db, next, collected, exec>>
  BY DEF Raise, Crash
<1>2. QED
  BY <1>1 DEF Transaction, TxIsDb, TxEvidence, TxResults, TxStages, TxCollected, Younger,
       Working

\* A failure or a cancel changes the status, and nothing it must agree with.
LEMMA StatusStep ==
  ASSUME TypeOK, Agreement, Transaction, RecordFailure \/ Cancel
  PROVE  Agreement' /\ Transaction'
<1>1. PICK st \in {"failed", "cancelled"}, err \in {"null", "worker_error"} :
        /\ db' = SetStatus(db, st, err) /\ tx' = db'
        /\ pc' \in {pc, "idle"} /\ pc \in {"idle", "failing"} /\ UNCHANGED <<collected, exec>>
  BY DEF RecordFailure, Cancel, Commit, Transaction, TxIsDb
<1>2. /\ db \in Tables /\ st \in Statuses /\ st \notin Success
      /\ err \in {"null", "insufficient_evidence", "worker_error"}
      /\ err # "insufficient_evidence"
  BY DEF TypeOK, Statuses, Success
<1>3. /\ db'.status \notin Success /\ db'.error # "insufficient_evidence"
      /\ db'.stages = db.stages /\ db'.evidence = db.evidence
      /\ db'.signals = db.signals /\ db'.score = db.score /\ db'.report = db.report
      /\ db'.events = db.events
  BY <1>1, <1>2, SetStatusEffect
<1>4. Agreement'
  BY <1>3 DEF Agreement, TimelineMatchesStatus, NothingRunning, SuccessIsConsistent,
       ScoredHasEvidence, NoTraceWithoutEvent, Announced, ScoreHasReport, Success
<1>5. Transaction'
  BY <1>1, <1>3 DEF Transaction, TxIsDb, TxEvidence, TxResults, TxStages, TxCollected,
       Younger, Working
<1>6. QED
  BY <1>4, <1>5

\* What an execution with too little evidence commits.
LEMMA DeclineEffect ==
  ASSUME TypeOK, Transaction, InsufficientEvidence
  PROVE  /\ pc = "score" /\ pc' = "idle" /\ tx' = db' /\ UNCHANGED <<collected, exec>>
         /\ \E scored \in SUBSET collected : db'.signals = AllRows(exec, scored)
         /\ db'.status = "failed" /\ db'.error = "insufficient_evidence"
         /\ db'.evidence = tx.evidence /\ db'.score = tx.score /\ db'.report = tx.report
         /\ db'.events = tx.events \cup {[exec |-> exec, type |-> "run.failed"]}
         /\ db'.stages["score"] = "failed"
         /\ db'.stages["analyze"] = "skipped" /\ db'.stages["finalize"] = "skipped"
         /\ \A s \in Stages : db'.stages[s] # "running"
<1>1. PICK scored \in SUBSET Signals :
        /\ pc = "score" /\ Normalisable(scored)
        /\ Commit(Emit(SetStatus(Stage(Stage(Stage(StoreSignals(tx, scored), "score", "failed"),
                                             "analyze", "skipped"), "finalize", "skipped"),
                                 "failed", "insufficient_evidence"), "run.failed"))
  BY DEF InsufficientEvidence
<1> DEFINE rows == StoreSignals(tx, scored)
           failed == Stage(rows, "score", "failed")
           skipped == Stage(failed, "analyze", "skipped")
           ended == Stage(skipped, "finalize", "skipped")
           declined == SetStatus(ended, "failed", "insufficient_evidence")
<1>2. /\ tx \in Tables /\ exec \in Execs /\ tx.stages \in [Stages -> StageStatus]
      /\ "score" \in Stages /\ "analyze" \in Stages /\ "finalize" \in Stages
      /\ "failed" \in StageStatus /\ "skipped" \in StageStatus /\ "failed" \in Statuses
  BY StageNames DEF TypeOK, Tables, StageStatus, Statuses
<1>3. /\ pc' = "idle" /\ tx' = db' /\ UNCHANGED <<collected, exec>>
      /\ db' = Emit(declined, "run.failed")
  BY <1>1 DEF Commit
<1>4. /\ rows \in Tables /\ rows.signals = AllRows(exec, scored)
      /\ rows.stages = tx.stages /\ rows.evidence = tx.evidence
      /\ rows.score = tx.score /\ rows.report = tx.report /\ rows.events = tx.events
  BY <1>2, StoreSignalsEffect
<1> HIDE DEF rows
<1>5. /\ failed \in Tables /\ failed.signals = AllRows(exec, scored)
      /\ failed.stages = [tx.stages EXCEPT !["score"] = "failed"]
      /\ failed.evidence = tx.evidence /\ failed.score = tx.score
      /\ failed.report = tx.report /\ failed.events = tx.events
  BY <1>2, <1>4, StageEffect
<1> HIDE DEF failed
<1>6. /\ skipped \in Tables /\ skipped.signals = AllRows(exec, scored)
      /\ skipped.stages = [failed.stages EXCEPT !["analyze"] = "skipped"]
      /\ skipped.evidence = tx.evidence /\ skipped.score = tx.score
      /\ skipped.report = tx.report /\ skipped.events = tx.events
  <2>1. failed \in Tables /\ "analyze" \in Stages /\ "skipped" \in StageStatus
    BY <1>2, <1>5
  <2>2. /\ skipped \in Tables /\ skipped.signals = failed.signals
        /\ skipped.stages = [failed.stages EXCEPT !["analyze"] = "skipped"]
        /\ skipped.evidence = failed.evidence /\ skipped.score = failed.score
        /\ skipped.report = failed.report /\ skipped.events = failed.events
    BY <2>1, StageEffect
  <2>3. QED
    BY <1>5, <2>2
<1> HIDE DEF skipped
<1>7. /\ ended \in Tables /\ ended.signals = AllRows(exec, scored)
      /\ ended.stages = [skipped.stages EXCEPT !["finalize"] = "skipped"]
      /\ ended.evidence = tx.evidence /\ ended.score = tx.score
      /\ ended.report = tx.report /\ ended.events = tx.events
  <2>1. skipped \in Tables /\ "finalize" \in Stages /\ "skipped" \in StageStatus
    BY <1>2, <1>6
  <2>2. /\ ended \in Tables /\ ended.signals = skipped.signals
        /\ ended.stages = [skipped.stages EXCEPT !["finalize"] = "skipped"]
        /\ ended.evidence = skipped.evidence /\ ended.score = skipped.score
        /\ ended.report = skipped.report /\ ended.events = skipped.events
    BY <2>1, StageEffect
  <2>3. QED
    BY <1>6, <2>2
<1> HIDE DEF ended
<1>8. /\ declined \in Tables /\ declined.signals = AllRows(exec, scored)
      /\ declined.stages = ended.stages
      /\ declined.evidence = tx.evidence /\ declined.score = tx.score
      /\ declined.report = tx.report /\ declined.events = tx.events
      /\ declined.status = "failed" /\ declined.error = "insufficient_evidence"
  <2>1. ended \in Tables /\ "failed" \in Statuses
    BY <1>2, <1>7
  <2>2. /\ declined \in Tables /\ declined.signals = ended.signals
        /\ declined.stages = ended.stages
        /\ declined.evidence = ended.evidence /\ declined.score = ended.score
        /\ declined.report = ended.report /\ declined.events = ended.events
        /\ declined.status = "failed" /\ declined.error = "insufficient_evidence"
    BY <2>1, SetStatusEffect
  <2>3. QED
    BY <1>7, <2>2
<1> HIDE DEF declined
<1>9. /\ db'.signals = AllRows(exec, scored) /\ db'.stages = ended.stages
      /\ db'.evidence = tx.evidence /\ db'.score = tx.score /\ db'.report = tx.report
      /\ db'.status = "failed" /\ db'.error = "insufficient_evidence"
      /\ db'.events = tx.events \cup {[exec |-> exec, type |-> "run.failed"]}
  BY <1>2, <1>3, <1>8, EmitEffect
<1>10. \A s \in Stages : tx.stages[s] = "running" => s = "score"
  BY <1>1 DEF Transaction, TxStages, Working
<1>11. /\ failed.stages["score"] = "failed"
       /\ \A s \in Stages : failed.stages[s] # "running"
       /\ failed.stages \in [Stages -> StageStatus]
  BY <1>2, <1>5, <1>10 DEF StageStatus
<1>12. /\ skipped.stages["score"] = "failed" /\ skipped.stages["analyze"] = "skipped"
       /\ \A s \in Stages : skipped.stages[s] # "running"
       /\ skipped.stages \in [Stages -> StageStatus]
  BY <1>2, <1>6, <1>11
<1>13. /\ ended.stages["score"] = "failed" /\ ended.stages["analyze"] = "skipped"
       /\ ended.stages["finalize"] = "skipped"
       /\ \A s \in Stages : ended.stages[s] # "running"
  BY <1>2, <1>7, <1>12
<1>14. scored \in SUBSET collected
  BY <1>1 DEF Normalisable
<1>15. QED
  BY <1>1, <1>3, <1>9, <1>13, <1>14

\* What an execution that reaches its end commits.
LEMMA PublishEffect ==
  ASSUME TypeOK, Transaction, Finalise
  PROVE  /\ pc = "finalize" /\ pc' = "idle" /\ tx' = db' /\ UNCHANGED <<collected, exec>>
         /\ db'.signals = tx.signals /\ db'.score = exec
         /\ db'.report = Report(tx)
         /\ db'.status = IF Missing(tx) # {} THEN "partial" ELSE "complete"
         /\ db'.error = "null" /\ db'.evidence = tx.evidence
         /\ db'.events = tx.events \cup {[exec |-> exec, type |-> "run.completed"]}
         /\ \A s \in LateStages : db'.stages[s] = "ok"
         /\ \A s \in Stages : db'.stages[s] # "running"
         /\ \A s \in Signals : db'.stages[s] = "ok" <=> s \in collected
<1> DEFINE final == IF Missing(tx) # {} THEN "partial" ELSE "complete"
           reported == [tx EXCEPT !.report = Report(tx)]
           done == Stage(reported, "finalize", "ok")
           ended == SetStatus(done, final, "null")
<1>1. /\ tx \in Tables /\ exec \in Execs /\ tx.stages \in [Stages -> StageStatus]
      /\ "score" \in Stages /\ "analyze" \in Stages /\ "finalize" \in Stages
      /\ "ok" \in StageStatus /\ final \in Statuses
  BY StageNames DEF TypeOK, Tables, StageStatus, Statuses
<1>2. /\ pc = "finalize" /\ pc' = "idle" /\ tx' = db' /\ UNCHANGED <<collected, exec>>
      /\ db' = Emit(ended, "run.completed")
  BY DEF Finalise, Commit
<1>3. Report(tx) \in [exec : Execs, missing : SUBSET Signals, sources : SUBSET Signals]
  BY <1>1 DEF Report, Missing
<1>4. /\ reported \in Tables /\ reported.report = Report(tx)
      /\ reported.signals = tx.signals /\ reported.stages = tx.stages
      /\ reported.evidence = tx.evidence /\ reported.score = tx.score
      /\ reported.events = tx.events
  BY <1>1, <1>3 DEF Tables
<1> HIDE DEF reported
<1>5. /\ done \in Tables /\ done.report = Report(tx) /\ done.signals = tx.signals
      /\ done.stages = [tx.stages EXCEPT !["finalize"] = "ok"]
      /\ done.evidence = tx.evidence /\ done.score = tx.score /\ done.events = tx.events
  BY <1>1, <1>4, StageEffect
<1> HIDE DEF done, final
<1>6. /\ ended \in Tables /\ ended.report = Report(tx) /\ ended.signals = tx.signals
      /\ ended.stages = done.stages /\ ended.status = final /\ ended.error = "null"
      /\ ended.evidence = tx.evidence /\ ended.score = tx.score /\ ended.events = tx.events
  <2>1. done \in Tables /\ final \in Statuses
    BY <1>1, <1>5
  <2>2. /\ ended \in Tables /\ ended.report = done.report /\ ended.signals = done.signals
        /\ ended.stages = done.stages /\ ended.status = final /\ ended.error = "null"
        /\ ended.evidence = done.evidence /\ ended.score = done.score
        /\ ended.events = done.events
    BY <2>1, SetStatusEffect
  <2>3. QED
    BY <1>5, <2>2
<1> HIDE DEF ended
<1>7. /\ db'.report = Report(tx) /\ db'.signals = tx.signals /\ db'.stages = done.stages
      /\ db'.status = final /\ db'.error = "null"
      /\ db'.evidence = tx.evidence /\ db'.score = tx.score
      /\ db'.events = tx.events \cup {[exec |-> exec, type |-> "run.completed"]}
  BY <1>1, <1>2, <1>6, EmitEffect
<1>8. /\ \A s \in Stages : tx.stages[s] = "running" => s = "finalize"
      /\ tx.stages["score"] = "ok" /\ tx.stages["analyze"] = "ok"
  BY <1>2 DEF Transaction, TxStages, Working
<1>9. /\ \A s \in Stages : done.stages[s] # "running"
      /\ done.stages["score"] = "ok" /\ done.stages["analyze"] = "ok"
      /\ done.stages["finalize"] = "ok"
  BY <1>1, <1>5, <1>8
<1>10. tx.score = exec
  BY <1>2 DEF Transaction, TxResults
<1>11. \A s \in Signals : db'.stages[s] = "ok" <=> s \in collected
  <2>1. \A s \in Signals : done.stages[s] = tx.stages[s]
    BY <1>1, <1>5, TurnsCover DEF LateStages
  <2>2. QED
    BY <1>2, <1>7, <2>1 DEF Transaction, TxCollected, StageOk, Working
<1>12. QED
  BY <1>2, <1>7, <1>9, <1>10, <1>11 DEF final, LateStages

\* What was committed before an execution is announced, and so is what it commits.
LEMMA CommitAnnounced ==
  ASSUME Agreement, TxEvidence, pc \in Working, UNCHANGED exec, NEW type,
         db'.evidence = tx.evidence,
         db'.events = tx.events \cup {[exec |-> exec, type |-> type]},
         NEW scored, db'.signals = AllRows(exec, scored),
         db'.score \in {db.score, exec}
  PROVE  NoTraceWithoutEvent'
<1>1. db.events \subseteq db'.events /\ [exec |-> exec, type |-> type] \in db'.events
  BY DEF TxEvidence
<1>2. Announced(exec)'
  BY <1>1 DEF Announced
<1>3. \A e : Announced(e) => (\E v \in db'.events : v.exec = e)
  BY <1>1 DEF Announced
<1>4. \A e \in db'.evidence : \E v \in db'.events : v.exec = e.exec
  <2>1. \A e \in db.evidence : \E v \in db'.events : v.exec = e.exec
    BY <1>3 DEF Agreement, NoTraceWithoutEvent
  <2>2. \A e \in tx.evidence \ db.evidence : e.exec = exec
    BY DEF TxEvidence
  <2>3. QED
    BY <1>1, <2>1, <2>2
<1>5. \A s \in Signals : \E v \in db'.events : v.exec = db'.signals[s].exec
  <2>1. \A s \in Signals : db'.signals[s].exec = exec
    BY RowFields
  <2>2. QED
    BY <1>1, <2>1
<1>6. db'.score # 0 => \E v \in db'.events : v.exec = db'.score
  BY <1>1, <1>3 DEF Agreement, NoTraceWithoutEvent
<1>7. QED
  BY <1>4, <1>5, <1>6 DEF NoTraceWithoutEvent, Announced

\* Rows scored from what was collected have their evidence in this execution.
LEMMA RowsHaveEvidence ==
  ASSUME TypeOK, TxEvidence, pc \in Working, db'.evidence = tx.evidence,
         NEW scored \in SUBSET collected, db'.signals = AllRows(exec, scored),
         NEW s \in Signals, db'.signals[s].scored
  PROVE  \E e \in db'.evidence : e.exec = db'.signals[s].exec /\ e.signal = s /\ e.status = "ok"
<1>2. db'.signals[s].exec = exec /\ s \in scored
  BY RowFields
<1>3. [exec |-> exec, signal |-> s, status |-> "ok"] \in db'.evidence
  BY <1>2 DEF TxEvidence
<1>4. QED
  BY <1>2, <1>3

\* An execution that declined agrees with what it leaves behind.
LEMMA InsufficientStep ==
  ASSUME TypeOK, Agreement, Transaction, InsufficientEvidence
  PROVE  Agreement' /\ Transaction'
<1>1. /\ pc = "score" /\ pc' = "idle" /\ tx' = db' /\ UNCHANGED <<collected, exec>>
      /\ db'.status = "failed" /\ db'.error = "insufficient_evidence"
      /\ db'.evidence = tx.evidence /\ db'.score = tx.score /\ db'.report = tx.report
      /\ db'.events = tx.events \cup {[exec |-> exec, type |-> "run.failed"]}
      /\ db'.stages["score"] = "failed"
      /\ db'.stages["analyze"] = "skipped" /\ db'.stages["finalize"] = "skipped"
      /\ \A s \in Stages : db'.stages[s] # "running"
  BY DeclineEffect
<1>2. PICK scored \in SUBSET collected : db'.signals = AllRows(exec, scored)
  BY DeclineEffect
<1>3. /\ tx.score = db.score /\ tx.report = db.report /\ pc \in Working
      /\ TxEvidence /\ exec \in Nat /\ exec > 0
  BY <1>1 DEF Transaction, TxResults, TxEvidence, Working, Younger, TypeOK, Execs
<1>4. TimelineMatchesStatus' /\ NothingRunning' /\ SuccessIsConsistent' /\ ScoreHasReport'
  BY <1>1, <1>3 DEF TimelineMatchesStatus, NothingRunning, SuccessIsConsistent, ScoreHasReport, Success, Agreement
<1>5. ScoredHasEvidence'
  <2>1. db'.status \notin Success
    BY <1>1 DEF Success
  <2>2. ASSUME NEW s \in Signals, db'.signals[s].scored
        PROVE  \E e \in db'.evidence :
                 e.exec = db'.signals[s].exec /\ e.signal = s /\ e.status = "ok"
    BY <1>1, <1>2, <1>3, <2>2, RowsHaveEvidence
  <2>3. QED
    BY <2>1, <2>2 DEF ScoredHasEvidence
<1>6. NoTraceWithoutEvent'
  <2>1. UNCHANGED exec /\ db'.score \in {db.score, exec}
    BY <1>1, <1>3
  <2>2. QED
    BY <1>1, <1>2, <1>3, <2>1, CommitAnnounced
<1>7. \A s \in Signals : db'.signals[s].exec = exec
  BY <1>2, RowFields
<1>8. Transaction'
  BY <1>1, <1>3, <1>7 DEF Transaction, TxIsDb, TxEvidence, TxResults, TxStages, TxCollected,
       Younger, Working
<1>9. QED
  BY <1>4, <1>5, <1>6, <1>8 DEF Agreement

\* What finalize reports, when the rows are those it scored itself.
LEMMA ReportOfRows ==
  ASSUME TypeOK, TxEvidence, pc \in Working,
         NEW scored \in SUBSET collected, tx.signals = AllRows(exec, scored)
  PROVE  /\ Report(tx).exec = exec
         /\ Report(tx).missing = Signals \ scored
         /\ Report(tx).sources \in SUBSET Signals /\ scored \subseteq Report(tx).sources
<1>1. Report(tx).exec = exec /\ Report(tx).missing = Missing(tx)
  BY DEF Report
<1>2. Missing(tx) = Signals \ scored
  BY MissingOfRows DEF TypeOK
<1>3. Report(tx).sources = {s \in Signals : \E e \in tx.evidence : e.signal = s /\ e.status = "ok"}
  BY DEF Report
<1>4. ASSUME NEW s \in scored
      PROVE  s \in Report(tx).sources
  <2>1. s \in Signals /\ [exec |-> exec, signal |-> s, status |-> "ok"] \in tx.evidence
    BY DEF TxEvidence, TypeOK
  <2>2. QED
    BY <1>3, <2>1
<1>5. QED
  BY <1>1, <1>2, <1>3, <1>4

\* A run that succeeded agrees throughout.
LEMMA FinaliseStep ==
  ASSUME TypeOK, Agreement, Transaction, Finalise
  PROVE  Agreement' /\ Transaction'
<1>1. /\ pc = "finalize" /\ pc' = "idle" /\ tx' = db' /\ UNCHANGED <<collected, exec>>
      /\ db'.signals = tx.signals /\ db'.score = exec
      /\ db'.report = Report(tx)
      /\ db'.status = IF Missing(tx) # {} THEN "partial" ELSE "complete"
      /\ db'.error = "null" /\ db'.evidence = tx.evidence
      /\ db'.events = tx.events \cup {[exec |-> exec, type |-> "run.completed"]}
      /\ \A s \in LateStages : db'.stages[s] = "ok"
      /\ \A s \in Stages : db'.stages[s] # "running"
      /\ \A s \in Signals : db'.stages[s] = "ok" <=> s \in collected
  BY PublishEffect
<1>2. PICK scored \in SUBSET collected :
        collected \ scored \subseteq MayLackValue /\ tx.signals = AllRows(exec, scored)
  BY <1>1 DEF Transaction, TxResults
<1>3. /\ pc \in Working /\ TxEvidence /\ exec \in Nat /\ exec > 0 /\ exec' = exec
  BY <1>1 DEF Transaction, Working, Younger, TypeOK, Execs
<1>4. /\ db'.report.exec = exec /\ db'.report.missing = Signals \ scored
      /\ scored \subseteq db'.report.sources
  BY <1>1, <1>2, <1>3, ReportOfRows
<1>5. /\ Missing(tx) = Signals \ scored /\ Missing(db)' = Missing(tx)
      /\ \A s \in Signals : db'.signals[s].exec = exec /\ (db'.signals[s].scored <=> s \in scored)
  BY <1>1, <1>2, MissingOfRows, RowFields DEF TypeOK, Missing
<1>6. TimelineMatchesStatus' /\ NothingRunning'
  <2>1. \A s \in Signals : IF db'.stages[s] = "ok" THEN s \in db'.report.missing => s \in MayLackValue
                           ELSE s \in db'.report.missing
    BY <1>1, <1>2, <1>4
  <2>2. QED
    BY <1>1, <2>1 DEF TimelineMatchesStatus, NothingRunning
<1>7. SuccessIsConsistent'
  <2>1. db'.status = "complete" <=> db'.report.missing = {}
    BY <1>1, <1>4, <1>5
  <2>2. QED
    BY <1>1, <1>3, <1>4, <1>5, <2>1 DEF SuccessIsConsistent
<1>8. ScoreHasReport'
  BY <1>1, <1>4 DEF ScoreHasReport
<1>9. ScoredHasEvidence'
  <2>1. ASSUME NEW s \in Signals, db'.signals[s].scored
        PROVE  /\ \E e \in db'.evidence :
                    e.exec = db'.signals[s].exec /\ e.signal = s /\ e.status = "ok"
               /\ s \in db'.report.sources
    BY <1>1, <1>2, <1>3, <1>4, <1>5, <2>1, RowsHaveEvidence
  <2>2. QED
    BY <2>1 DEF ScoredHasEvidence
<1>10. NoTraceWithoutEvent'
  <2>1. UNCHANGED exec /\ db'.score \in {db.score, exec} /\ db'.signals = AllRows(exec, scored)
    BY <1>1, <1>2
  <2>2. QED
    BY <1>1, <1>3, <2>1, CommitAnnounced DEF Transaction
<1>11. Transaction'
  BY <1>1, <1>3, <1>5 DEF Transaction, TxIsDb, TxEvidence, TxResults, TxStages, TxCollected,
       Younger, Working
<1>12. QED
  BY <1>6, <1>7, <1>8, <1>9, <1>10, <1>11 DEF Agreement

-----------------------------------------------------------------------------
(* The invariant, and what it gives.                                       *)

LEMMA AgreementStep ==
  ASSUME TypeOK, Agreement, Transaction, [Next]_vars
  PROVE  Agreement' /\ Transaction'
<1>1. CASE InsufficientEvidence
  BY <1>1, InsufficientStep
<1>2. CASE Finalise
  BY <1>2, FinaliseStep
<1>3. CASE RecordFailure \/ Cancel
  BY <1>3, StatusStep
<1>4. CASE Begin
  BY <1>4, BeginStep, AgreementOfDb DEF Begin
<1>5. CASE CollectorRaises
  BY <1>5, RaisesStep, AgreementOfDb DEF CollectorRaises
<1>6. CASE Collect
  BY <1>6, CollectStep, AgreementOfDb DEF Collect
<1>7. CASE StartScoring
  BY <1>7, ScoringStep, AgreementOfDb DEF StartScoring
<1>8. CASE Score
  BY <1>8, ScoreStep, AgreementOfDb DEF Score
<1>9. CASE Analyse
  BY <1>9, AnalyseStep, AgreementOfDb DEF Analyse
<1>10. CASE Raise \/ Crash
  BY <1>10, RollbackStep, AgreementOfDb DEF Raise, Crash
<1>11. CASE UNCHANGED vars
  <2>1. UNCHANGED <<db, tx, pc, next, collected, exec>>
    BY <1>11 DEF vars
  <2>2. TxResults'
    BY <2>1 DEF Transaction, TxResults, AllRows
  <2>3. TxIsDb' /\ TxEvidence' /\ TxStages' /\ TxCollected' /\ Younger'
    BY <2>1 DEF Transaction, TxIsDb, TxEvidence, TxStages, TxCollected, StageOk, Younger
  <2>4. QED
    BY <2>1, <2>2, <2>3, AgreementOfDb DEF Transaction
<1>12. QED
  BY <1>1, <1>2, <1>3, <1>4, <1>5, <1>6, <1>7, <1>8, <1>9, <1>10, <1>11 DEF Next

LEMMA Invariant == Spec => [](TypeOK /\ Agreement /\ Transaction)
<1>1. Init => TypeOK /\ Agreement /\ Transaction
  BY TypeInit, AgreementInit
<1>2. TypeOK /\ Agreement /\ Transaction /\ [Next]_vars
        => (TypeOK /\ Agreement /\ Transaction)'
  BY TypeStep, AgreementStep
<1>3. QED
  BY <1>1, <1>2, PTL DEF Spec

\* The committed stages tell the outcome the status tells: what a success did not
\* collect it declares missing, and a declined run shows where it was declined.
THEOREM TimelineTrue == Spec => []TimelineMatchesStatus
BY Invariant, PTL DEF Agreement

\* The status, score, report and signal rows of a run that succeeded are those of
\* one execution, and complete means that nothing is missing.
THEOREM SuccessConsistent == Spec => []SuccessIsConsistent
BY Invariant, PTL DEF Agreement

\* Every number has ok evidence collected by the execution that published it.
THEOREM NumbersHaveEvidence == Spec => []ScoredHasEvidence
BY Invariant, PTL DEF Agreement

\* What an execution wrote is committed with its event, or not at all.
THEOREM TracesAnnounced == Spec => []NoTraceWithoutEvent
BY Invariant, PTL DEF Agreement

\* Scores and reports are rows of the same execution.
THEOREM ScoreAndReportTogether == Spec => []ScoreHasReport
BY Invariant, PTL DEF Agreement

-----------------------------------------------------------------------------
(* One step to its readers.                                                *)

LEMMA OutcomeInit == Init => Outcome!Init
<1> SUFFICES ASSUME Init
             PROVE  Outcome!Init
  OBVIOUS
<1>1. [s \in Signals |-> [exec |-> 0, scored |-> FALSE]] = Outcome!Rows(0, {})
  <2>1. \A s \in Signals : (s \in {}) = FALSE
    OBVIOUS
  <2>2. \A s \in Signals :
          [exec |-> 0, scored |-> FALSE] = [exec |-> 0, scored |-> s \in {}]
    BY <2>1, Zenon
  <2>3. QED
    BY <2>2, Zenon DEF Outcome!Rows
<1>2. QED
  BY <1>1 DEF Init, Outcome!Init

\* The open execution is younger than whatever is committed.
LEMMA ExecIsFresh ==
  ASSUME TypeOK, Transaction, pc # "idle"
  PROVE  exec \in Execs /\ Outcome!Fresh(exec)
BY DEF TypeOK, Transaction, Younger, Outcome!Fresh

LEMMA RowsAreRows ==
  ASSUME NEW e, NEW scored
  PROVE  AllRows(e, scored) = Outcome!Rows(e, scored)
BY DEF AllRows, Outcome!Rows

\* Too little evidence declines.
LEMMA InsufficientDeclines ==
  ASSUME TypeOK, Agreement, Transaction, InsufficientEvidence
  PROVE  Outcome!Next
<1>1. PICK scored \in SUBSET collected : db'.signals = AllRows(exec, scored)
  BY DeclineEffect
<1>2. /\ pc = "score" /\ db'.status = "failed"
      /\ db'.score = tx.score /\ db'.report = tx.report
  BY DeclineEffect
<1>3. tx.score = db.score /\ tx.report = db.report
  BY <1>2 DEF Transaction, TxResults, TxEvidence, Working
<1>4. Outcome!Decline(exec, scored)
  BY <1>1, <1>2, <1>3, ExecIsFresh, RowsAreRows DEF Outcome!Decline
<1>5. exec \in Execs /\ scored \in SUBSET Signals
  BY DEF TypeOK
<1>6. QED
  BY <1>4, <1>5 DEF Outcome!Next

\* Finalise publishes.
LEMMA FinalisePublishes ==
  ASSUME TypeOK, Agreement, Transaction, Finalise
  PROVE  Outcome!Next
<1>1. /\ pc = "finalize" /\ db'.signals = tx.signals /\ db'.score = exec
      /\ db'.report = Report(tx)
      /\ db'.status = IF Missing(tx) # {} THEN "partial" ELSE "complete"
  BY PublishEffect
<1>2. PICK scored \in SUBSET collected : tx.signals = AllRows(exec, scored)
  BY <1>1 DEF Transaction, TxResults
<1>3. exec \in Execs /\ scored \in SUBSET Signals /\ pc \in Working /\ TxEvidence
  BY <1>1 DEF TypeOK, Transaction, Working
<1>4. Missing(tx) = Signals \ scored
  BY <1>2, <1>3, MissingOfRows DEF TypeOK
<1>5. db'.status = IF scored = Signals THEN "complete" ELSE "partial"
  BY <1>1, <1>3, <1>4
<1>6. /\ scored \subseteq Report(tx).sources /\ Report(tx).sources \in SUBSET Signals
      /\ Report(tx) = [exec |-> exec, missing |-> Signals \ scored,
                       sources |-> Report(tx).sources]
  <2>1. /\ Report(tx).sources \in SUBSET Signals /\ scored \subseteq Report(tx).sources
    BY <1>2, <1>3, ReportOfRows
  <2>2. Report(tx) = [exec |-> exec, missing |-> Signals \ scored,
                      sources |-> Report(tx).sources]
    BY <1>4 DEF Report
  <2>3. QED
    BY <2>1, <2>2
<1>7. Outcome!Publish(exec, scored)
  BY <1>1, <1>2, <1>5, <1>6, ExecIsFresh, RowsAreRows DEF Outcome!Publish
<1>8. QED
  BY <1>3, <1>7 DEF Outcome!Next

\* A failure and a cancel abandon.
LEMMA StatusAbandons ==
  ASSUME TypeOK, Transaction, RecordFailure \/ Cancel
  PROVE  Outcome!Next
<1>1. PICK st \in {"failed", "cancelled"}, err \in {"null", "worker_error"} :
        db' = SetStatus(db, st, err)
  BY DEF RecordFailure, Cancel, Commit, Transaction, TxIsDb
<1>2. db \in Tables /\ st \in Statuses /\ err \in {"null", "insufficient_evidence", "worker_error"}
  BY DEF TypeOK, Statuses
<1>3. /\ db'.status \in {"failed", "cancelled"}
      /\ db'.signals = db.signals /\ db'.score = db.score /\ db'.report = db.report
  BY <1>1, <1>2, SetStatusEffect
<1>4. QED
  BY <1>3 DEF Outcome!Next, Outcome!Abandon

LEMMA OutcomeStep ==
  ASSUME TypeOK, Agreement, Transaction, [Next]_vars
  PROVE  [Outcome!Next]_(Outcome!vars)
<1>1. CASE InsufficientEvidence
  BY <1>1, InsufficientDeclines
<1>2. CASE Finalise
  BY <1>2, FinalisePublishes
<1>3. CASE RecordFailure \/ Cancel
  BY <1>3, StatusAbandons
<1>4. CASE UNCHANGED db
  BY <1>4 DEF Outcome!vars
<1>5. QED
  BY <1>1, <1>2, <1>3, <1>4 DEF Next, Begin, CollectorRaises, Collect, StartScoring, Score,
     Analyse, Raise, Crash, vars

\* To a reader an execution publishes a whole result or nothing, whatever it does
\* on the way, however often it dies and is repeated.
THEOREM ImplementsOutcome == Spec => OutcomeSpec
<1>1. TypeOK /\ Agreement /\ Transaction /\ [Next]_vars => [Outcome!Next]_(Outcome!vars)
  BY OutcomeStep
<1>2. QED
  BY <1>1, OutcomeInit, Invariant, PTL DEF Spec, OutcomeSpec, Outcome!Spec
=============================================================================
