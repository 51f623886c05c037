---------------------------- MODULE Readers_proofs ----------------------------
(***************************************************************************)
(* Proofs about Readers, for every number of clients, collectors and       *)
(* executions: a page that ends the polling shows every stage finished,    *)
(* and no report is older than the score a client was shown before.        *)
(*                                                                         *)
(* What a client was shown may be old.  It stays true enough because no    *)
(* commit of ExecuteRun opens a stage again or takes a report back.        *)
(***************************************************************************)
EXTENDS Readers, ExecuteRun_proofs

Done == {"ok", "failed", "skipped"}
EarlyStages == Stages \ LateStages

\* An open execution has finished the stages of every collector it is past.
EarlyDone ==
  pc \in Working => \A s \in EarlyStages :
    \/ tx.stages[s] \in Done
    \/ pc = "collect" /\ \E i \in next .. Len(Order) : Order[i] = s

\* A run that succeeded has nothing left to do.
SuccessIsSettled == db.status \in Success => Unfinished(db) = {}

\* The committed report is older than the open execution.
ReportIsOlder ==
  /\ db.report.exec <= exec
  /\ pc # "idle" => db.report.exec < exec

\* The part of the invariant that is about the executor alone.
Settling == EarlyDone /\ SuccessIsSettled /\ ReportIsOlder

-----------------------------------------------------------------------------
(* The helpers.                                                            *)

KeepsEarly(t, u) == \A s \in EarlyStages : u.stages[s] = t.stages[s]

LEMMA StageKeepsEarly ==
  ASSUME NEW t \in Tables, NEW s \in LateStages, NEW st \in StageStatus
  PROVE  Stage(t, s, st) \in Tables /\ KeepsEarly(t, Stage(t, s, st))
<1>1. s \in Stages
  BY DEF Stages
<1>2. /\ Stage(t, s, st) \in Tables
      /\ Stage(t, s, st).stages = [t.stages EXCEPT ![s] = st]
  BY <1>1, StageEffect
<1>3. t.stages \in [Stages -> StageStatus]
  BY DEF Tables
<1>4. QED
  BY <1>2, <1>3 DEF KeepsEarly, EarlyStages

\* A run shows nothing unfinished when every early and every late stage is done.
LEMMA NothingUnfinished ==
  ASSUME NEW t, \A s \in EarlyStages : t.stages[s] \in Done,
         \A s \in LateStages : t.stages[s] \in Done
  PROVE  Unfinished(t) = {}
BY DEF Unfinished, EarlyStages, Done

\* The collectors' stages and resolve, when an execution declines.
LEMMA DeclineKeepsEarly ==
  ASSUME TypeOK, InsufficientEvidence
  PROVE  KeepsEarly(tx, db')
<1>1. PICK scored \in SUBSET Signals :
        db' = Emit(SetStatus(Stage(Stage(Stage(StoreSignals(tx, scored), "score", "failed"),
                                         "analyze", "skipped"), "finalize", "skipped"),
                             "failed", "insufficient_evidence"), "run.failed")
  BY DEF InsufficientEvidence, Commit
<1> DEFINE rows == StoreSignals(tx, scored)
           failed == Stage(rows, "score", "failed")
           skipped == Stage(failed, "analyze", "skipped")
           ended == Stage(skipped, "finalize", "skipped")
           declined == SetStatus(ended, "failed", "insufficient_evidence")
<1>2. /\ tx \in Tables /\ exec \in Execs /\ "failed" \in Statuses
      /\ {"score", "analyze", "finalize"} \subseteq LateStages
      /\ {"failed", "skipped"} \subseteq StageStatus
  BY DEF TypeOK, LateStages, StageStatus, Statuses
<1>3. rows \in Tables /\ rows.stages = tx.stages
  BY <1>2, StoreSignalsEffect
<1>4. db' = Emit(declined, "run.failed")
  BY <1>1
<1> HIDE DEF rows
<1>5. failed \in Tables /\ KeepsEarly(rows, failed)
  BY <1>2, <1>3, StageKeepsEarly
<1> HIDE DEF failed
<1>6. skipped \in Tables /\ KeepsEarly(failed, skipped)
  BY <1>2, <1>5, StageKeepsEarly
<1> HIDE DEF skipped
<1>7. ended \in Tables /\ KeepsEarly(skipped, ended)
  BY <1>2, <1>6, StageKeepsEarly
<1> HIDE DEF ended
<1>8. declined \in Tables /\ declined.stages = ended.stages
  BY <1>2, <1>7, SetStatusEffect
<1> HIDE DEF declined
<1>9. db'.stages = declined.stages
  BY <1>2, <1>4, <1>8, EmitEffect
<1>10. QED
  BY <1>3, <1>5, <1>6, <1>7, <1>8, <1>9 DEF KeepsEarly

\* The same when it succeeds.
LEMMA PublishKeepsEarly ==
  ASSUME TypeOK, Finalise
  PROVE  KeepsEarly(tx, db')
<1> DEFINE final == IF Missing(tx) # {} THEN "partial" ELSE "complete"
           reported == [tx EXCEPT !.report = Report(tx)]
           done == Stage(reported, "finalize", "ok")
           ended == SetStatus(done, final, "null")
<1>1. /\ tx \in Tables /\ exec \in Execs /\ final \in Statuses
      /\ "finalize" \in LateStages /\ "ok" \in StageStatus
  BY DEF TypeOK, LateStages, StageStatus, Statuses
<1>2. db' = Emit(ended, "run.completed")
  BY DEF Finalise, Commit
<1>3. Report(tx) \in [exec : Execs, missing : SUBSET Signals, sources : SUBSET Signals]
  BY <1>1 DEF Report, Missing
<1>4. reported \in Tables /\ reported.stages = tx.stages
  BY <1>1, <1>3 DEF Tables
<1> HIDE DEF reported, final
<1>5. done \in Tables /\ KeepsEarly(reported, done)
  BY <1>1, <1>4, StageKeepsEarly
<1> HIDE DEF done
<1>6. ended \in Tables /\ ended.stages = done.stages
  BY <1>1, <1>5, SetStatusEffect
<1> HIDE DEF ended
<1>7. db'.stages = ended.stages
  BY <1>1, <1>2, <1>6, EmitEffect
<1>8. QED
  BY <1>4, <1>5, <1>6, <1>7 DEF KeepsEarly

-----------------------------------------------------------------------------
(* The executor's steps.                                                   *)

\* An execution that begins has its collectors before it, and resolve behind it.
LEMMA BeginEarly ==
  ASSUME TypeOK, Begin
  PROVE  EarlyDone'
<1> DEFINE ready == Initialise(db)
<1>1. ready \in Tables /\ "resolve" \in Stages /\ "ok" \in StageStatus
  BY InitialiseEffect, StageNames DEF TypeOK, StageStatus
<1>2. tx' = Stage(ready, "resolve", "ok") /\ pc' = "collect" /\ next' = 1
  BY DEF Begin
<1> HIDE DEF ready
<1>3. tx'.stages = [ready.stages EXCEPT !["resolve"] = "ok"] /\ ready.stages \in [Stages -> StageStatus]
  BY <1>1, <1>2, StageEffect DEF Tables
<1>4. tx'.stages["resolve"] = "ok"
  BY <1>1, <1>3
<1>5. \A s \in Signals : \E i \in 1 .. Len(Order) : Order[i] = s
  BY OrderAssumption DEF Signals, Range
<1>6. \A s \in EarlyStages : s = "resolve" \/ s \in Signals
  BY DEF EarlyStages, Stages
<1>7. QED
  BY <1>2, <1>4, <1>5, <1>6 DEF EarlyDone, Done

\* A collector's turn finishes its stage, whatever comes of it.
LEMMA TurnEarly ==
  ASSUME TypeOK, EarlyDone, pc = "collect", pc' = pc, next <= Len(Order), next' = next + 1,
         NEW st \in Done, tx'.stages = [tx.stages EXCEPT ![Order[next]] = st]
  PROVE  EarlyDone'
<1>1. next \in Nat /\ Len(Order) \in Nat /\ tx.stages \in [Stages -> StageStatus]
  BY OrderAssumption DEF TypeOK, Tables
<1>2. Order[next] \in Stages
  BY TurnIsSignal, StageNames DEF TypeOK
<1>3. ASSUME NEW s \in EarlyStages
      PROVE  \/ tx'.stages[s] \in Done
             \/ \E i \in next + 1 .. Len(Order) : Order[i] = s
  <2>1. CASE s = Order[next]
    BY <1>1, <1>2, <2>1
  <2>2. CASE s # Order[next]
    <3>1. tx'.stages[s] = tx.stages[s]
      BY <1>1, <2>2 DEF EarlyStages
    <3>2. tx.stages[s] \in Done \/ \E i \in next .. Len(Order) : Order[i] = s
      BY DEF EarlyDone, Working
    <3>3. CASE \E i \in next .. Len(Order) : Order[i] = s
      <4>1. PICK i \in next .. Len(Order) : Order[i] = s
        BY <3>3
      <4>2. i \in next + 1 .. Len(Order)
        BY <1>1, <2>2, <4>1
      <4>3. QED
        BY <4>1, <4>2
    <3>4. QED
      BY <3>1, <3>2, <3>3
  <2>3. QED
    BY <2>1, <2>2
<1>4. QED
  BY <1>3 DEF EarlyDone

LEMMA CollectEarly ==
  ASSUME TypeOK, EarlyDone, CollectorRaises \/ Collect
  PROVE  EarlyDone'
<1>1. CASE CollectorRaises
  <2>1. Order[next] \in Stages /\ tx \in Tables /\ "failed" \in StageStatus
    BY <1>1, TurnIsSignal, StageNames DEF TypeOK, CollectorRaises, StageStatus
  <2>2. tx'.stages = [tx.stages EXCEPT ![Order[next]] = "failed"]
    BY <1>1, <2>1, StageEffect DEF CollectorRaises
  <2>3. QED
    BY <1>1, <2>2, TurnEarly DEF CollectorRaises, Done
<1>2. CASE Collect
  <2>1. PICK result \in EvidenceStatus :
          /\ pc = "collect" /\ next <= Len(Order)
          /\ tx' = Stage(StoreEvidence(tx, Order[next], result), Order[next],
                         IF result = "ok" THEN "ok" ELSE "failed")
          /\ next' = next + 1 /\ pc' = pc
    BY <1>2 DEF Collect
  <2>2. PICK st \in {"ok", "failed"} :
          tx' = Stage(StoreEvidence(tx, Order[next], result), Order[next], st)
    BY <2>1
  <2> DEFINE s == Order[next]
             stored == StoreEvidence(tx, s, result)
  <2>3. s \in Signals /\ s \in Stages /\ st \in StageStatus /\ exec \in Execs /\ tx \in Tables
    BY <2>1, TurnIsSignal, StageNames DEF TypeOK, StageStatus
  <2>4. tx' = Stage(stored, s, st)
    BY <2>2
  <2> HIDE DEF s
  <2>5. stored \in Tables /\ stored.stages = tx.stages
    BY <2>3, StoreEvidenceEffect
  <2> HIDE DEF stored
  <2>6. tx'.stages = [tx.stages EXCEPT ![s] = st]
    BY <2>3, <2>4, <2>5, StageEffect
  <2>7. st \in Done
    BY DEF Done
  <2>8. QED
    BY <2>1, <2>6, <2>7, TurnEarly DEF s
<1>3. QED
  BY <1>1, <1>2

\* Past the last collector every early stage is done, and stays so.
LEMMA LateEarly ==
  ASSUME TypeOK, EarlyDone, StartScoring \/ Score \/ Analyse
  PROVE  EarlyDone'
<1>0. /\ tx \in Tables /\ exec \in Execs /\ "scoring" \in Statuses /\ "analyzing" \in Statuses
      /\ {"score", "analyze", "finalize"} \subseteq LateStages
      /\ {"ok", "running"} \subseteq StageStatus
  BY DEF TypeOK, LateStages, StageStatus, Statuses
<1>1. CASE StartScoring
  <2> DEFINE scoring == SetStatus(tx, "scoring", "null")
  <2>1. scoring \in Tables /\ scoring.stages = tx.stages
    BY <1>0, SetStatusEffect
  <2>2. tx' = Stage(scoring, "score", "running") /\ pc = "collect" /\ next > Len(Order)
    BY <1>1 DEF StartScoring
  <2> HIDE DEF scoring
  <2>3. KeepsEarly(scoring, tx')
    BY <1>0, <2>1, <2>2, StageKeepsEarly
  <2>4. \A i \in next .. Len(Order) : FALSE
    BY <2>2, OrderAssumption DEF TypeOK
  <2>5. \A s \in EarlyStages : tx.stages[s] \in Done
    BY <2>2, <2>4 DEF EarlyDone, Working
  <2>6. QED
    BY <2>1, <2>3, <2>5 DEF EarlyDone, KeepsEarly
<1>2. CASE Score
  <2>1. PICK scored \in SUBSET Signals :
          /\ tx' = Stage(SetStatus(Stage([StoreSignals(tx, scored) EXCEPT !.score = exec],
                                         "score", "ok"), "analyzing", "null"),
                         "analyze", "running")
          /\ pc = "score"
    BY <1>2 DEF Score
  <2> DEFINE stored == StoreSignals(tx, scored)
             rows == [stored EXCEPT !.score = exec]
             done == Stage(rows, "score", "ok")
             analysing == SetStatus(done, "analyzing", "null")
  <2>2. stored \in Tables /\ stored.stages = tx.stages
    BY <1>0, StoreSignalsEffect
  <2>3. tx' = Stage(analysing, "analyze", "running")
    BY <2>1
  <2> HIDE DEF stored
  <2>4. rows \in Tables /\ rows.stages = tx.stages
    BY <1>0, <2>2 DEF Tables
  <2> HIDE DEF rows
  <2>5. done \in Tables /\ KeepsEarly(rows, done)
    BY <1>0, <2>4, StageKeepsEarly
  <2> HIDE DEF done
  <2>6. analysing \in Tables /\ analysing.stages = done.stages
    BY <1>0, <2>5, SetStatusEffect
  <2> HIDE DEF analysing
  <2>7. KeepsEarly(analysing, tx')
    BY <1>0, <2>3, <2>6, StageKeepsEarly
  <2>8. \A s \in EarlyStages : tx.stages[s] \in Done
    BY <2>1 DEF EarlyDone, Working
  <2>9. QED
    BY <2>4, <2>5, <2>6, <2>7, <2>8 DEF EarlyDone, KeepsEarly
<1>3. CASE Analyse
  <2> DEFINE done == Stage(tx, "analyze", "ok")
  <2>1. done \in Tables /\ KeepsEarly(tx, done)
    BY <1>0, StageKeepsEarly
  <2>2. tx' = Stage(done, "finalize", "running") /\ pc = "analyze"
    BY <1>3 DEF Analyse
  <2> HIDE DEF done
  <2>3. KeepsEarly(done, tx')
    BY <1>0, <2>1, <2>2, StageKeepsEarly
  <2>4. \A s \in EarlyStages : tx.stages[s] \in Done
    BY <2>2 DEF EarlyDone, Working
  <2>5. QED
    BY <2>1, <2>3, <2>4 DEF EarlyDone, KeepsEarly
<1>4. QED
  BY <1>1, <1>2, <1>3

-----------------------------------------------------------------------------
(* What a step of the executor does to the tables that clients read.       *)

\* No commit opens a stage of a run that has none open, or takes back a report.
Forward ==
  /\ Unfinished(db) = {} => Unfinished(db)' = {}
  /\ db.report.exec <= db'.report.exec

\* What a declined execution leaves behind.
LEMMA DeclineSettles ==
  ASSUME TypeOK, Agreement, Transaction, Settling, InsufficientEvidence
  PROVE  Settling' /\ Forward
<1>1. /\ pc = "score" /\ pc' = "idle" /\ exec' = exec /\ db'.status = "failed"
      /\ db'.report = db.report
      /\ db'.stages["score"] = "failed"
      /\ db'.stages["analyze"] = "skipped" /\ db'.stages["finalize"] = "skipped"
  BY DeclineEffect DEF Transaction, TxEvidence, Working
<1>2. \A s \in EarlyStages : db'.stages[s] \in Done
  BY <1>1, DeclineKeepsEarly DEF Settling, EarlyDone, Working, KeepsEarly
<1>3. \A s \in LateStages : db'.stages[s] \in Done
  BY <1>1 DEF LateStages, Done
<1>4. Unfinished(db') = {}
  BY <1>2, <1>3, NothingUnfinished
<1>5. Unfinished(db)' = {}
  BY <1>4 DEF Unfinished
<1>6. db.report.exec \in Nat /\ exec \in Nat
  BY DEF TypeOK, Tables, Execs
<1>7. Settling'
  BY <1>1, <1>6 DEF Settling, EarlyDone, SuccessIsSettled, ReportIsOlder, Success, Working
<1>8. QED
  BY <1>1, <1>5, <1>6, <1>7 DEF Forward

\* What a successful one leaves behind.
LEMMA PublishSettles ==
  ASSUME TypeOK, Agreement, Transaction, Settling, Finalise
  PROVE  Settling' /\ Forward
<1>1. /\ pc = "finalize" /\ pc' = "idle" /\ exec' = exec
      /\ db'.report.exec = exec /\ \A s \in LateStages : db'.stages[s] = "ok"
  BY PublishEffect DEF Report
<1>2. \A s \in EarlyStages : db'.stages[s] \in Done
  BY <1>1, PublishKeepsEarly DEF Settling, EarlyDone, Working, KeepsEarly
<1>3. Unfinished(db') = {}
  BY <1>1, <1>2, NothingUnfinished DEF Done
<1>4. Unfinished(db)' = {}
  BY <1>3 DEF Unfinished
<1>5. db.report.exec \in Nat /\ exec \in Nat
  BY DEF TypeOK, Tables, Execs
<1>6. Settling'
  BY <1>1, <1>4, <1>5 DEF Settling, EarlyDone, SuccessIsSettled, ReportIsOlder, Working
<1>7. QED
  BY <1>1, <1>4, <1>5, <1>6 DEF Forward, Settling, ReportIsOlder

\* A failure and a cancel change neither the stages nor the report.
LEMMA StatusSettles ==
  ASSUME TypeOK, Transaction, Settling, RecordFailure \/ Cancel
  PROVE  Settling' /\ Forward
<1>1. PICK st \in {"failed", "cancelled"}, err \in {"null", "worker_error"} :
        /\ db' = SetStatus(db, st, err) /\ exec' = exec
        /\ pc' \in {pc, "idle"} /\ pc \in {"idle", "failing"}
  BY DEF RecordFailure, Cancel, Commit, Transaction, TxIsDb
<1>2. /\ db \in Tables /\ st \in Statuses /\ st \notin Success
      /\ err \in {"null", "insufficient_evidence", "worker_error"}
  BY DEF TypeOK, Statuses, Success
<1>3. db'.status \notin Success /\ db'.stages = db.stages /\ db'.report = db.report
  BY <1>1, <1>2, SetStatusEffect
<1>4. Unfinished(db)' = Unfinished(db)
  BY <1>3 DEF Unfinished
<1>5. db.report.exec \in Nat /\ exec \in Nat
  BY DEF TypeOK, Tables, Execs
<1>6. QED
  BY <1>1, <1>3, <1>4, <1>5
  DEF Settling, EarlyDone, SuccessIsSettled, ReportIsOlder, Working, Forward

\* Nothing is committed, and the early stages are followed.
LEMMA SameDb ==
  ASSUME TypeOK, Settling, UNCHANGED db, EarlyDone', ReportIsOlder'
  PROVE  Settling' /\ Forward
<1>1. db.report.exec \in Nat /\ Unfinished(db)' = Unfinished(db)
  BY DEF TypeOK, Tables, Execs, Unfinished
<1>2. QED
  BY <1>1 DEF Settling, SuccessIsSettled, Forward

LEMMA SettlingStep ==
  ASSUME TypeOK, Agreement, Transaction, Settling, [Next]_vars
  PROVE  Settling' /\ Forward
<1>0. db.report.exec \in Nat /\ exec \in Nat
  BY DEF TypeOK, Tables, Execs
<1>1. CASE InsufficientEvidence
  BY <1>1, DeclineSettles
<1>2. CASE Finalise
  BY <1>2, PublishSettles
<1>3. CASE RecordFailure \/ Cancel
  BY <1>3, StatusSettles
<1>4. CASE Begin
  <2>1. ReportIsOlder'
    BY <1>0, <1>4 DEF Begin, Settling, ReportIsOlder
  <2>2. QED
    BY <1>4, <2>1, BeginEarly, SameDb DEF Begin
<1>5. CASE CollectorRaises \/ Collect \/ StartScoring \/ Score \/ Analyse
  <2>1. UNCHANGED <<db, exec>> /\ pc # "idle"
    BY <1>5 DEF CollectorRaises, Collect, StartScoring, Score, Analyse
  <2>2. EarlyDone'
    BY <1>5, CollectEarly, LateEarly DEF Settling
  <2>3. ReportIsOlder'
    BY <2>1 DEF Settling, ReportIsOlder
  <2>4. QED
    BY <2>1, <2>2, <2>3, SameDb
<1>6. CASE Raise \/ Crash
  <2>1. UNCHANGED <<db, exec>> /\ pc # "idle" /\ pc' \in {"failing", "idle"}
    BY <1>6 DEF Raise, Crash
  <2>2. EarlyDone' /\ ReportIsOlder'
    BY <1>0, <2>1 DEF Settling, EarlyDone, ReportIsOlder, Working
  <2>3. QED
    BY <2>1, <2>2, SameDb
<1>7. CASE UNCHANGED vars
  <2>1. UNCHANGED <<db, exec, tx, pc, next>>
    BY <1>7 DEF vars
  <2>2. EarlyDone' /\ ReportIsOlder'
    BY <2>1 DEF Settling, EarlyDone, ReportIsOlder
  <2>3. QED
    BY <2>1, <2>2, SameDb
<1>8. QED
  BY <1>1, <1>2, <1>3, <1>4, <1>5, <1>6, <1>7 DEF Next

-----------------------------------------------------------------------------
(* What clients have seen.                                                 *)

Shown(c) == row[c] \in Success \/ page[c].status \in Success

Pages == [status : Statuses \cup {NoStatus}, unfinished : SUBSET Stages, exec : Execs]

ReadersTypeOK ==
  /\ at \in [Clients -> {"browsing", "stages", "report"}]
  /\ row \in [Clients -> Statuses \cup {NoStatus}]
  /\ page \in [Clients -> Pages]

\* What was shown of a success is true of the tables for ever.
ShownStays ==
  \A c \in Clients :
    /\ Shown(c) => Unfinished(db) = {} /\ db.report.exec # 0
    /\ page[c].exec <= db.report.exec

Seen == ReadersTypeOK /\ ShownStays /\ FinalPageIsSettled

\* The executor's steps keep it true.
LEMMA ExecutorKeepsSeen ==
  ASSUME TypeOK, TypeOK', Seen, Forward, UNCHANGED readerVars
  PROVE  Seen'
<1>1. db.report.exec \in Nat /\ db'.report.exec \in Nat
  BY DEF TypeOK, Tables, Execs
<1>2. \A c \in Clients : page[c].exec \in Nat
  BY DEF Seen, ReadersTypeOK, Pages, Execs
<1>3. at' = at /\ row' = row /\ page' = page
  BY DEF readerVars
<1>4. ReadersTypeOK' /\ FinalPageIsSettled'
  BY <1>3 DEF Seen, ReadersTypeOK, Pages, FinalPageIsSettled, Stages, Execs
<1>5. ShownStays'
  <2>1. ASSUME NEW c \in Clients
        PROVE  /\ Shown(c)' => Unfinished(db)' = {} /\ db'.report.exec # 0
               /\ page'[c].exec <= db'.report.exec
    BY <1>1, <1>2, <1>3 DEF Seen, ShownStays, Shown, Forward
  <2>2. QED
    BY <2>1 DEF ShownStays
<1>6. QED
  BY <1>4, <1>5 DEF Seen

\* A SELECT of a run that has succeeded shows what stays true.
LEMMA SuccessShown ==
  ASSUME TypeOK, Agreement, Settling, db.status \in Success
  PROVE  Unfinished(db) = {} /\ db.report.exec # 0
BY DEF Agreement, SuccessIsConsistent, Settling, SuccessIsSettled

\* An answer keeps it true when it is true of the tables.
LEMMA AnswerKeepsSeen ==
  ASSUME Seen, UNCHANGED vars, NEW c \in Clients, NEW shown \in Pages, Answer(c, shown),
         shown.exec <= db.report.exec,
         shown.status \in Success =>
           shown.unfinished = {} /\ Unfinished(db) = {} /\ db.report.exec # 0
  PROVE  Seen'
<1>1. /\ db' = db /\ Unfinished(db)' = Unfinished(db) /\ NoStatus \notin Success
      /\ page' = [page EXCEPT ![c] = shown] /\ at' = [at EXCEPT ![c] = "browsing"]
      /\ row' = [row EXCEPT ![c] = NoStatus]
  BY DEF vars, Unfinished, NoStatus, Success, Answer
<1>2. ReadersTypeOK'
  BY <1>1 DEF Seen, ReadersTypeOK, Pages, Stages, Execs
<1>3. \A d \in Clients : /\ page'[d] = IF d = c THEN shown ELSE page[d]
                         /\ row'[d] = IF d = c THEN NoStatus ELSE row[d]
  BY <1>1 DEF Seen, ReadersTypeOK
<1>4. FinalPageIsSettled'
  BY <1>3 DEF Seen, FinalPageIsSettled
<1>5. ASSUME NEW d \in Clients
      PROVE  /\ Shown(d)' => Unfinished(db)' = {} /\ db'.report.exec # 0
             /\ page'[d].exec <= db'.report.exec
  BY <1>1, <1>3 DEF Seen, ShownStays, Shown
<1>6. QED
  BY <1>2, <1>4, <1>5 DEF Seen, ShownStays

LEMMA ReadKeepsSeen ==
  ASSUME TypeOK, Agreement, Settling, Seen, UNCHANGED vars, NEW c \in Clients, Read(c)
  PROVE  Seen'
<1>1. /\ db.status \in Statuses /\ row[c] \in Statuses \cup {NoStatus}
      /\ db.report.exec \in Nat /\ db.report.exec \in Execs /\ db.score = db.report.exec
      /\ 0 \in Execs /\ Unfinished(db) \in SUBSET Stages
  BY MaxExecutionsAssumption
  DEF TypeOK, Tables, Execs, Agreement, ScoreHasReport, Unfinished, Seen, ReadersTypeOK
<1>2. row[c] \in Success => Unfinished(db) = {} /\ db.report.exec # 0
  BY DEF Seen, ShownStays, Shown
<1>3. CASE \E then \in {"stages", "report"} : LoadRun(c, then)
  <2>1. PICK then \in {"stages", "report"} :
          /\ row' = [row EXCEPT ![c] = db.status] /\ at' = [at EXCEPT ![c] = then]
          /\ page' = page
    BY <1>3 DEF LoadRun
  <2>2. db' = db /\ Unfinished(db)' = Unfinished(db)
    BY DEF vars, Unfinished
  <2>3. ReadersTypeOK' /\ FinalPageIsSettled'
    BY <1>1, <2>1 DEF Seen, ReadersTypeOK, Pages, FinalPageIsSettled, Stages, Execs
  <2>4. ASSUME NEW d \in Clients
        PROVE  Shown(d)' => Shown(d) \/ db.status \in Success
    BY <2>1 DEF Shown, Seen, ReadersTypeOK
  <2>5. ShownStays'
    BY <2>1, <2>2, <2>4, SuccessShown DEF Seen, ShownStays
  <2>6. QED
    BY <2>3, <2>5 DEF Seen
<1>4. CASE ReadStages(c)
  <2> DEFINE shown == [status |-> row[c], unfinished |-> Unfinished(db), exec |-> 0]
  <2>1. /\ shown \in Pages /\ shown.exec <= db.report.exec
        /\ shown.status = row[c] /\ shown.unfinished = Unfinished(db)
    BY <1>1 DEF Pages
  <2>2. Answer(c, shown)
    BY <1>4 DEF ReadStages
  <2> HIDE DEF shown
  <2>3. QED
    BY <1>2, <2>1, <2>2, AnswerKeepsSeen
<1>5. CASE ListRuns(c)
  <2> DEFINE shown == [status |-> db.status, unfinished |-> {}, exec |-> db.score]
  <2>1. /\ shown \in Pages /\ shown.exec <= db.report.exec
        /\ shown.status = db.status /\ shown.unfinished = {}
    BY <1>1 DEF Pages
  <2>2. Answer(c, shown)
    BY <1>5 DEF ListRuns
  <2> HIDE DEF shown
  <2>3. QED
    BY <2>1, <2>2, SuccessShown, AnswerKeepsSeen
<1>6. CASE ReadReport(c)
  <2> DEFINE shown == [status |-> row[c], unfinished |-> {}, exec |-> db.report.exec]
  <2>1. /\ shown \in Pages /\ shown.exec <= db.report.exec
        /\ shown.status = row[c] /\ shown.unfinished = {}
    BY <1>1 DEF Pages
  <2>2. Answer(c, shown)
    BY <1>6 DEF ReadReport
  <2> HIDE DEF shown
  <2>3. QED
    BY <1>2, <2>1, <2>2, AnswerKeepsSeen
<1>7. QED
  BY <1>3, <1>4, <1>5, <1>6 DEF Read, GetRun, GetReport

-----------------------------------------------------------------------------
(* The invariant, and what it gives.                                       *)

LEMMA SettlingInit == Init => Settling
<1> SUFFICES ASSUME Init
             PROVE  Settling
  OBVIOUS
<1>1. pc = "idle" /\ db.status = "collecting" /\ db.report.exec = 0 /\ exec = 0
  BY DEF Init
<1>2. QED
  BY <1>1 DEF Settling, EarlyDone, SuccessIsSettled, ReportIsOlder, Working, Success

LEMMA SeenInit == ReadersInit => Seen
<1> SUFFICES ASSUME ReadersInit
             PROVE  Seen
  OBVIOUS
<1>1. 0 \in Execs
  BY MaxExecutionsAssumption DEF Execs
<1>2. /\ ReadersTypeOK
      /\ \A c \in Clients : /\ row[c] = NoStatus /\ page[c].status = NoStatus
                            /\ page[c].exec = 0
  BY <1>1 DEF ReadersInit, ReadersTypeOK, Pages
<1>3. db.report.exec = 0 /\ NoStatus \notin Success
  BY DEF ReadersInit, Init, NoStatus, Success
<1>4. FinalPageIsSettled /\ ShownStays
  BY <1>2, <1>3 DEF FinalPageIsSettled, ShownStays, Shown
<1>5. QED
  BY <1>2, <1>4 DEF Seen

ReadersInv == TypeOK /\ Agreement /\ Transaction /\ Settling /\ Seen

LEMMA ReadersInvStep ==
  ASSUME ReadersInv, [ReadersNext]_<<vars, readerVars>>
  PROVE  ReadersInv'
<1>1. [Next]_vars
  BY DEF ReadersNext
<1>2. TypeOK' /\ Agreement' /\ Transaction' /\ Settling' /\ Forward
  BY <1>1, TypeStep, AgreementStep, SettlingStep DEF ReadersInv
<1>3. CASE UNCHANGED readerVars
  BY <1>2, <1>3, ExecutorKeepsSeen DEF ReadersInv
<1>4. CASE \E c \in Clients : Read(c) /\ UNCHANGED vars
  BY <1>2, <1>4, ReadKeepsSeen DEF ReadersInv
<1>5. QED
  BY <1>2, <1>3, <1>4 DEF ReadersNext, ReadersInv

LEMMA ReadersInvariant == ReadersSpec => []ReadersInv
<1>1. ReadersInit => ReadersInv
  BY TypeInit, AgreementInit, SettlingInit, SeenInit DEF ReadersInit, ReadersInv
<1>2. ReadersInv /\ [ReadersNext]_<<vars, readerVars>> => ReadersInv'
  BY ReadersInvStep
<1>3. QED
  BY <1>1, <1>2, PTL DEF ReadersSpec

\* A client that stops polling at a success has been shown every stage finished,
\* whatever was committed between the two SELECTs of the page.
THEOREM PagesSettled == ReadersSpec => []FinalPageIsSettled
<1>1. ReadersInv => FinalPageIsSettled
  BY DEF ReadersInv, Seen
<1>2. QED
  BY <1>1, ReadersInvariant, PTL

KeepsUp ==
  \A c \in Clients : Reported(c) =>
    LET served == page'[c].exec
    IN /\ row[c] \in Success => served # 0
       /\ served # 0 => served >= page[c].exec

LEMMA ReportStep ==
  ASSUME ReadersInv, [ReadersNext]_<<vars, readerVars>>
  PROVE  KeepsUp
<1> SUFFICES ASSUME NEW c \in Clients, Reported(c)
             PROVE  /\ row[c] \in Success => page'[c].exec # 0
                    /\ page'[c].exec # 0 => page'[c].exec >= page[c].exec
  BY DEF KeepsUp
<1>1. ReadReport(c)
  <2>1. at \in [Clients -> {"browsing", "stages", "report"}] /\ at[c] = "report" /\ at'[c] # "report"
    BY DEF ReadersInv, Seen, ReadersTypeOK, Reported
  <2>2. PICK d \in Clients : Read(d)
    BY <2>1 DEF ReadersNext, readerVars
  <2>3. d # c => at'[c] = at[c]
    BY <2>1, <2>2 DEF Read, GetRun, GetReport, LoadRun, ReadStages, ListRuns, ReadReport, Answer
  <2>4. d = c
    BY <2>1, <2>3
  <2>5. QED
    BY <2>1, <2>2, <2>4 DEF Read, GetRun, GetReport, LoadRun, ReadStages, ListRuns
<1>2. page'[c] = [status |-> row[c], unfinished |-> {}, exec |-> db.report.exec]
  BY <1>1 DEF ReadReport, Answer, ReadersInv, Seen, ReadersTypeOK
<1>3. /\ db.report.exec \in Nat /\ page[c].exec \in Nat
      /\ page[c].exec <= db.report.exec
      /\ Shown(c) => db.report.exec # 0
  BY DEF ReadersInv, TypeOK, Tables, Execs, Seen, ReadersTypeOK, Pages, ShownStays
<1>4. QED
  BY <1>2, <1>3 DEF Shown

\* A request that found a success is answered with a report, and no report is older
\* than what its client was shown before, whatever is committed in between.
THEOREM ReportsKeepUp == ReadersSpec => ReportKeepsUp
<1>1. ReadersInv /\ [ReadersNext]_<<vars, readerVars>> => [KeepsUp]_readerVars
  BY ReportStep
<1>2. QED
  BY <1>1, ReadersInvariant, PTL DEF ReadersSpec, ReportKeepsUp, KeepsUp
=============================================================================
