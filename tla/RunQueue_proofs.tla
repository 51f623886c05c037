--------------------------- MODULE RunQueue_proofs ---------------------------
(***************************************************************************)
(* What RunQueue promises for every set of workers, cancel handlers, runs  *)
(* and markets, and for every number of crashes.                           *)
(***************************************************************************)
EXTENDS RunQueue, FiniteSetTheorems, WellFoundedInduction, TLAPS

(***************************************************************************)
(* TypeOK is inductive.                                                    *)
(***************************************************************************)
LEMMA TypeStep == TypeOK /\ [Next]_vars => TypeOK'
<1>. SUFFICES ASSUME TypeOK, [Next]_vars PROVE TypeOK'
  OBVIOUS
<1>. USE DEF TypeOK, Statuses, Active, InFlight, Terminal, Phases, Executing
<1>1. ASSUME NEW r \in Runs, PostCheck(r) PROVE TypeOK'
  BY <1>1 DEF PostCheck, outVars, workerVars
<1>2. ASSUME NEW r \in Runs, PostInsert(r) PROVE TypeOK'
  BY <1>2 DEF PostInsert, outVars, workerVars
<1>3. ASSUME NEW r \in Runs, LeaseLapse(r) PROVE TypeOK'
  BY <1>3 DEF LeaseLapse, outVars, workerVars, apiVars
<1>4. ASSUME NEW c \in Cancellers, CancelWrite(c) PROVE TypeOK'
  BY <1>4 DEF CancelWrite, SetStatus, outVars, workerVars
<1>5. ASSUME NEW c \in Cancellers, NEW r \in Runs, CancelRead(c, r) PROVE TypeOK'
  BY <1>5 DEF CancelRead, rowVars, outVars, workerVars
<1>6. ASSUME NEW w \in Workers, ReapBegin(w) PROVE TypeOK'
  BY <1>6 DEF ReapBegin, rowVars, outVars, apiVars
<1>7. ASSUME NEW w \in Workers, ReapRow(w) PROVE TypeOK'
  BY <1>7 DEF ReapRow, rowVars, outVars, apiVars
<1>8. ASSUME NEW w \in Workers, Claim(w) PROVE TypeOK'
  BY <1>8 DEF Claim, ClaimRow, Claimable, Reaped, outVars, apiVars
<1>9. ASSUME NEW w \in Workers, ClaimNothing(w) PROVE TypeOK'
  BY <1>9 DEF ClaimNothing, rowVars, outVars, apiVars
<1>10. ASSUME NEW w \in Workers, BeginExecute(w) PROVE TypeOK'
  BY <1>10 DEF BeginExecute, rowVars, outVars, apiVars
<1>11. ASSUME NEW w \in Workers, StartScoring(w) PROVE TypeOK'
  BY <1>11 DEF StartScoring, Advance, rowVars, outVars, apiVars
<1>12. ASSUME NEW w \in Workers, StartAnalyzing(w) PROVE TypeOK'
  BY <1>12 DEF StartAnalyzing, Advance, rowVars, outVars, apiVars
<1>13. ASSUME NEW w \in Workers, Rollback(w) PROVE TypeOK'
  BY <1>13 DEF Rollback, Release, rowVars, outVars, apiVars
<1>14. ASSUME NEW w \in Workers, InsufficientEvidence(w) PROVE TypeOK'
  BY <1>14 DEF InsufficientEvidence, SetStatus, Release, apiVars
<1>15. ASSUME NEW w \in Workers, Complete(w) PROVE TypeOK'
  BY <1>15 DEF Complete, SetStatus, Release, apiVars
<1>16. ASSUME NEW w \in Workers, RecordFailure(w) PROVE TypeOK'
  BY <1>16 DEF RecordFailure, SetStatus, Release, outVars, apiVars
<1>17. ASSUME NEW w \in Workers, Crash(w) PROVE TypeOK'
  BY <1>17 DEF Crash, rowVars, outVars, apiVars
<1>18. CASE UNCHANGED vars
  BY <1>18 DEF vars, rowVars, outVars, workerVars, apiVars
<1>. QED
  BY <1>1, <1>2, <1>3, <1>4, <1>5, <1>6, <1>7, <1>8, <1>9, <1>10, <1>11, <1>12,
     <1>13, <1>14, <1>15, <1>16, <1>17, <1>18
     DEF Next, Poll, Execute, MarketTaken, ExecuteRaises

\* Every variable keeps its type.
THEOREM TypeCorrect == Spec => []TypeOK
<1>1. Init => TypeOK
  BY DEF Init, TypeOK, Statuses, Phases, Executing
<1>. QED
  BY <1>1, TypeStep, PTL DEF Spec

-----------------------------------------------------------------------------
(***************************************************************************)
(* The lock discipline: who holds the lock of a row, and in which phase.   *)
(* A worker executing a run holds the row of that run and no other; a      *)
(* worker polling holds only rows it found stuck, and they stay stuck.     *)
(***************************************************************************)
HandsFree == \A w \in Workers : wpc[w] \in {"idle", "reaping"} <=> wrun[w] = NoRun

ExecutorHoldsRow == \A w \in Workers : wpc[w] \in Executing => lock[wrun[w]] = w

HolderIsAtWork ==
  \A r \in Runs, w \in Workers : lock[r] = w =>
    \/ wpc[w] \in Executing /\ wrun[w] = r
    \/ wpc[w] = "reaping" /\ Stuck(r)

LockInv == HandsFree /\ ExecutorHoldsRow /\ HolderIsAtWork

\* A row exists from the INSERT on, and only such rows are worked on.
RowsExist ==
  /\ \A r \in Runs : status[r] = "none" <=> post[r] # "accepted"
  /\ \A r \in Runs, w \in Workers : wrun[w] = r => status[r] # "none"
  /\ \A r \in Runs, c \in Cancellers : cancelling[c] = r => status[r] # "none"

LEMMA LockStep == TypeOK /\ RowsExist /\ LockInv /\ [Next]_vars => LockInv'
<1>. SUFFICES ASSUME TypeOK, RowsExist, LockInv, [Next]_vars PROVE LockInv'
  OBVIOUS
<1>. USE WorkersAssumption, RunsAssumption
     DEF TypeOK, Statuses, Active, InFlight, Terminal, Phases, Executing,
         LockInv, HandsFree, ExecutorHoldsRow, HolderIsAtWork, Stuck, RowsExist
<1>1. ASSUME NEW r \in Runs, PostCheck(r) PROVE LockInv'
  BY <1>1 DEF PostCheck, workerVars
<1>2. ASSUME NEW r \in Runs, PostInsert(r) PROVE LockInv'
  BY <1>2 DEF PostInsert, workerVars
<1>3. ASSUME NEW r \in Runs, LeaseLapse(r) PROVE LockInv'
  BY <1>3 DEF LeaseLapse, workerVars
<1>4. ASSUME NEW c \in Cancellers, CancelWrite(c) PROVE LockInv'
  BY <1>4 DEF CancelWrite, SetStatus, workerVars
<1>5. ASSUME NEW c \in Cancellers, NEW r \in Runs, CancelRead(c, r) PROVE LockInv'
  BY <1>5 DEF CancelRead, rowVars, workerVars
<1>6. ASSUME NEW w \in Workers, ReapBegin(w) PROVE LockInv'
  BY <1>6 DEF ReapBegin, rowVars
<1>7. ASSUME NEW w \in Workers, ReapRow(w) PROVE LockInv'
  BY <1>7 DEF ReapRow, rowVars
<1>8. ASSUME NEW w \in Workers, Claim(w) PROVE LockInv'
  BY <1>8 DEF Claim, ClaimRow, Claimable, Reaped
<1>9. ASSUME NEW w \in Workers, ClaimNothing(w) PROVE LockInv'
  BY <1>9 DEF ClaimNothing, Claimable, Reaped, rowVars
<1>10. ASSUME NEW w \in Workers, BeginExecute(w) PROVE LockInv'
  BY <1>10 DEF BeginExecute, rowVars
<1>11. ASSUME NEW w \in Workers, StartScoring(w) PROVE LockInv'
  BY <1>11 DEF StartScoring, Advance, rowVars
<1>12. ASSUME NEW w \in Workers, StartAnalyzing(w) PROVE LockInv'
  BY <1>12 DEF StartAnalyzing, Advance, rowVars
<1>13. ASSUME NEW w \in Workers, wpc[w] \in Executing, Rollback(w) PROVE LockInv'
  BY <1>13 DEF Rollback, Release, rowVars
<1>14. ASSUME NEW w \in Workers, InsufficientEvidence(w) PROVE LockInv'
  BY <1>14 DEF InsufficientEvidence, SetStatus, Release
<1>15. ASSUME NEW w \in Workers, Complete(w) PROVE LockInv'
  BY <1>15 DEF Complete, SetStatus, Release
<1>16. ASSUME NEW w \in Workers, RecordFailure(w) PROVE LockInv'
  BY <1>16 DEF RecordFailure, SetStatus, Release
<1>17. ASSUME NEW w \in Workers, Crash(w) PROVE LockInv'
  BY <1>17 DEF Crash, rowVars
<1>18. CASE UNCHANGED vars
  <2>1. UNCHANGED <<status, claimedAt, lock, wpc, wrun>>
    BY <1>18 DEF vars, rowVars, workerVars
  <2>2. HandsFree'
    BY <2>1 DEF HandsFree
  <2>3. ExecutorHoldsRow'
    BY <2>1 DEF ExecutorHoldsRow
  <2>4. HolderIsAtWork'
    BY <2>1 DEF HolderIsAtWork, Stuck
  <2>. QED
    BY <2>2, <2>3, <2>4 DEF LockInv
<1>. QED
  BY <1>1, <1>2, <1>3, <1>4, <1>5, <1>6, <1>7, <1>8, <1>9, <1>10, <1>11, <1>12,
     <1>13, <1>14, <1>15, <1>16, <1>17, <1>18
     DEF Next, Poll, Execute, MarketTaken, ExecuteRaises

LEMMA RowsStep == TypeOK /\ LockInv /\ RowsExist /\ [Next]_vars => RowsExist'
<1>. SUFFICES ASSUME TypeOK, LockInv, RowsExist, [Next]_vars PROVE RowsExist'
  OBVIOUS
<1>. USE WorkersAssumption, RunsAssumption
     DEF TypeOK, Statuses, Active, InFlight, Terminal, Phases, Executing,
         LockInv, HandsFree, HolderIsAtWork, Stuck, RowsExist, apiVars
<1>1. ASSUME NEW r \in Runs, PostCheck(r) PROVE RowsExist'
  BY <1>1 DEF PostCheck, workerVars
<1>2. ASSUME NEW r \in Runs, PostInsert(r) PROVE RowsExist'
  <2>1. CASE ~Duplicate(r)
    <3>1. /\ status' = [status EXCEPT ![r] = "queued"]
          /\ post' = [post EXCEPT ![r] = "accepted"]
          /\ wrun' = wrun /\ cancelling' = cancelling
      BY <1>2, <2>1 DEF PostInsert, workerVars
    <3>2. ASSUME NEW q \in Runs
          PROVE  /\ status'[q] = "none" <=> post'[q] # "accepted"
                 /\ status[q] # "none" => status'[q] # "none"
      <4>1. CASE q = r
        <5>1. status'[q] = "queued" /\ post'[q] = "accepted"
          BY <3>1, <4>1
        <5>. QED
          BY <5>1
      <4>2. CASE q # r
        <5>1. status'[q] = status[q] /\ post'[q] = post[q]
          BY <3>1, <4>2
        <5>. QED
          BY <5>1
      <4>. QED
        BY <4>1, <4>2
    <3>3. \A q \in Runs, w \in Workers : wrun[w] = q => status'[q] # "none"
      BY <3>2
    <3>4. \A q \in Runs, c \in Cancellers : cancelling[c] = q => status'[q] # "none"
      BY <3>2
    <3>. QED
      BY <3>1, <3>2, <3>3, <3>4
  <2>2. CASE Duplicate(r)
    <3>1. /\ post[r] = "checked"
          /\ post' = [post EXCEPT ![r] = "error"]
          /\ status' = status /\ wrun' = wrun /\ cancelling' = cancelling
      BY <1>2, <2>2 DEF PostInsert, workerVars
    <3>2. \A q \in Runs : status'[q] = "none" <=> post'[q] # "accepted"
      BY <3>1
    <3>. QED
      BY <3>1, <3>2
  <2>. QED
    BY <2>1, <2>2
<1>3. ASSUME NEW r \in Runs, LeaseLapse(r) PROVE RowsExist'
  BY <1>3 DEF LeaseLapse, workerVars
<1>4. ASSUME NEW c \in Cancellers, CancelWrite(c) PROVE RowsExist'
  BY <1>4 DEF CancelWrite, SetStatus, workerVars
<1>5. ASSUME NEW c \in Cancellers, NEW r \in Runs, CancelRead(c, r) PROVE RowsExist'
  <2>1. /\ status[r] # "none" /\ cancelling' = [cancelling EXCEPT ![c] = r]
        /\ status' = status /\ post' = post /\ wrun' = wrun
    BY <1>5 DEF CancelRead, rowVars, workerVars
  <2>2. \A q \in Runs, d \in Cancellers : cancelling'[d] = q => status'[q] # "none"
    BY <2>1
  <2>. QED
    BY <2>1, <2>2
<1>6. ASSUME NEW w \in Workers, ReapBegin(w) PROVE RowsExist'
  BY <1>6 DEF ReapBegin, rowVars
<1>7. ASSUME NEW w \in Workers, ReapRow(w) PROVE RowsExist'
  BY <1>7 DEF ReapRow, rowVars
<1>8. ASSUME NEW w \in Workers, Claim(w) PROVE RowsExist'
  BY <1>8 DEF Claim, ClaimRow, Claimable, Reaped
<1>9. ASSUME NEW w \in Workers, ClaimNothing(w) PROVE RowsExist'
  BY <1>9 DEF ClaimNothing, rowVars
<1>10. ASSUME NEW w \in Workers, BeginExecute(w) PROVE RowsExist'
  BY <1>10 DEF BeginExecute, rowVars
<1>11. ASSUME NEW w \in Workers, StartScoring(w) PROVE RowsExist'
  BY <1>11 DEF StartScoring, Advance, rowVars
<1>12. ASSUME NEW w \in Workers, StartAnalyzing(w) PROVE RowsExist'
  BY <1>12 DEF StartAnalyzing, Advance, rowVars
<1>13. ASSUME NEW w \in Workers, wpc[w] \in Executing, Rollback(w) PROVE RowsExist'
  BY <1>13 DEF Rollback, Release, rowVars
<1>14. ASSUME NEW w \in Workers, InsufficientEvidence(w) PROVE RowsExist'
  BY <1>14 DEF InsufficientEvidence, SetStatus, Release
<1>15. ASSUME NEW w \in Workers, Complete(w) PROVE RowsExist'
  BY <1>15 DEF Complete, SetStatus, Release
<1>16. ASSUME NEW w \in Workers, RecordFailure(w) PROVE RowsExist'
  BY <1>16 DEF RecordFailure, SetStatus, Release
<1>17. ASSUME NEW w \in Workers, Crash(w) PROVE RowsExist'
  BY <1>17 DEF Crash, rowVars
<1>18. CASE UNCHANGED vars
  BY <1>18 DEF vars, rowVars, workerVars
<1>. QED
  BY <1>1, <1>2, <1>3, <1>4, <1>5, <1>6, <1>7, <1>8, <1>9, <1>10, <1>11, <1>12,
     <1>13, <1>14, <1>15, <1>16, <1>17, <1>18
     DEF Next, Poll, Execute, MarketTaken, ExecuteRaises

\* What the rest of the module builds on.
Basics == TypeOK /\ LockInv /\ RowsExist

LEMMA BasicsInit == Init => Basics
  BY WorkersAssumption, RunsAssumption
  DEF Init, Basics, TypeOK, Statuses, Phases, Executing, LockInv, HandsFree,
      ExecutorHoldsRow, HolderIsAtWork, RowsExist

LEMMA BasicsStep == Basics /\ [Next]_vars => Basics'
  BY TypeStep, LockStep, RowsStep DEF Basics

THEOREM BasicsCorrect == Spec => []Basics
  BY BasicsInit, BasicsStep, PTL DEF Spec

\* However many workers have a run in hand, one transaction executes it.
THEOREM OneExecutor == Spec => []OneExecutorPerRun
<1>1. Basics => OneExecutorPerRun
  BY DEF Basics, TypeOK, LockInv, ExecutorHoldsRow, OneExecutorPerRun, Executor
<1>. QED
  BY <1>1, BasicsCorrect, PTL

-----------------------------------------------------------------------------
(***************************************************************************)
(* Terminal statuses: a run that has one is never active again, and its    *)
(* attempt counter stands still.                                           *)
(***************************************************************************)
LEMMA TerminalStep ==
  ASSUME Basics, [Next]_vars, NEW r \in Runs, status[r] \in Terminal
  PROVE  status'[r] \in Terminal /\ attempt'[r] = attempt[r]
<1>. DEFINE Goal == status'[r] \in Terminal /\ attempt'[r] = attempt[r]
<1>. USE WorkersAssumption, RunsAssumption DEF Basics, TypeOK, Terminal
<1>1. ASSUME NEW q \in Runs, PostInsert(q) PROVE Goal
  <2>1. status[q] = "none"
    BY <1>1 DEF PostInsert, RowsExist
  <2>. QED
    BY <1>1, <2>1 DEF PostInsert
<1>2. ASSUME NEW c \in Cancellers, CancelWrite(c) PROVE Goal
  BY <1>2 DEF CancelWrite, SetStatus
<1>3. ASSUME NEW w \in Workers, Claim(w) PROVE Goal
  <2>1. PICK q \in Claimable(w) : ClaimRow(w, q, "live", attempt[q] + 1)
    BY <1>3 DEF Claim
  <2>2. \A p \in Reaped(w) : status[p] \in InFlight
    BY <2>1 DEF ClaimRow, Reaped, LockInv, HolderIsAtWork, Stuck, Executing
  <2>3. r # q /\ r \notin Reaped(w)
    BY <2>2 DEF Claimable, InFlight
  <2>. QED
    BY <2>1, <2>3 DEF ClaimRow, Claimable, Reaped
<1>4. ASSUME NEW w \in Workers, InsufficientEvidence(w) PROVE Goal
  BY <1>4 DEF InsufficientEvidence, SetStatus
<1>5. ASSUME NEW w \in Workers, Complete(w) PROVE Goal
  BY <1>5 DEF Complete, SetStatus
<1>6. ASSUME NEW w \in Workers, RecordFailure(w) PROVE Goal
  BY <1>6 DEF RecordFailure, SetStatus
<1>7. CASE UNCHANGED <<status, attempt>>
  BY <1>7
<1>. QED
  <2>1. ASSUME NEW q \in Runs, PostCheck(q) \/ LeaseLapse(q) PROVE Goal
    BY <2>1, <1>7 DEF PostCheck, LeaseLapse
  <2>2. ASSUME NEW c \in Cancellers, NEW q \in Runs, CancelRead(c, q) PROVE Goal
    BY <2>2, <1>7 DEF CancelRead, rowVars
  <2>3. ASSUME NEW w \in Workers,
               ReapBegin(w) \/ ReapRow(w) \/ ClaimNothing(w) \/ BeginExecute(w)
               \/ StartScoring(w) \/ StartAnalyzing(w) \/ Rollback(w) \/ Crash(w)
        PROVE  Goal
    BY <2>3, <1>7 DEF ReapBegin, ReapRow, ClaimNothing, BeginExecute, StartScoring,
       StartAnalyzing, Advance, Rollback, Crash, rowVars
  <2>4. CASE UNCHANGED vars
    BY <2>4, <1>7 DEF vars, rowVars
  <2>. QED
    BY <1>1, <1>2, <1>3, <1>4, <1>5, <1>6, <2>1, <2>2, <2>3, <2>4
       DEF Next, Poll, Execute, MarketTaken, ExecuteRaises

\* A finished run never returns to the queue nor to a worker's claim.
THEOREM TerminalStays == Spec => TerminalStaysTerminal
<1>1. Basics /\ [Next]_vars =>
        [\A r \in Runs : status[r] \in Terminal =>
           status'[r] \in Terminal /\ attempt'[r] = attempt[r]]_vars
  BY TerminalStep
<1>. QED
  BY <1>1, BasicsCorrect, PTL DEF Spec, TerminalStaysTerminal

-----------------------------------------------------------------------------
(***************************************************************************)
(* One active run per market.  Two kinds of step make a run active, the    *)
(* INSERT and set_status(SCORING); each first finds no rival that is       *)
(* active (~Duplicate) or that a transaction may make so (~InDoubt).  All  *)
(* other steps leave the set of active runs as it is, or shrink it.        *)
(***************************************************************************)
LEMMA RivalsSymmetric ==
  ASSUME NEW r \in Runs, NEW q \in Rivals(r)
  PROVE  q \in Runs /\ q # r /\ r \in Rivals(q)
  BY DEF Rivals

LEMMA NoRivalActive ==
  ASSUME Basics, NEW r \in Runs, ~InDoubt(r), ~Duplicate(r), NEW q \in Rivals(r)
  PROVE  ~MayBeActive(q)
  BY WorkersAssumption DEF InDoubt, Duplicate, MayBeActive, Dirty

\* A step after which at most r is newly active keeps the invariant.
LEMMA OneMoreActive ==
  ASSUME OneActivePerMarket, NEW r \in Runs,
         \A q \in Runs \ {r} : MayBeActive(q)' => MayBeActive(q),
         MayBeActive(r)' => MayBeActive(r) \/ \A q \in Rivals(r) : ~MayBeActive(q)
  PROVE  OneActivePerMarket'
<1>. SUFFICES ASSUME NEW p \in Runs, MayBeActive(p)', NEW q \in Rivals(p), MayBeActive(q)'
              PROVE  FALSE
  BY DEF OneActivePerMarket, Rivals
<1>1. q \in Runs /\ q # p /\ p \in Rivals(q)
  BY RivalsSymmetric
<1>2. CASE p = r
  BY <1>1, <1>2 DEF OneActivePerMarket
<1>3. CASE q = r
  BY <1>1, <1>3 DEF OneActivePerMarket
<1>4. CASE p # r /\ q # r
  BY <1>1, <1>4 DEF OneActivePerMarket
<1>. QED
  BY <1>2, <1>3, <1>4

\* Every step is one of three kinds for the set of active runs.
LEMMA ActiveStep ==
  ASSUME Basics, [Next]_vars
  PROVE  \/ \E r \in Runs :
              /\ \A q \in Rivals(r) : ~MayBeActive(q)
              /\ \A q \in Runs \ {r} : MayBeActive(q)' => MayBeActive(q)
         \/ \A q \in Runs : MayBeActive(q)' => MayBeActive(q)
<1>. DEFINE Grows(r) == /\ \A q \in Rivals(r) : ~MayBeActive(q)
                        /\ \A q \in Runs \ {r} : MayBeActive(q)' => MayBeActive(q)
            Shrinks == \A q \in Runs : MayBeActive(q)' => MayBeActive(q)
<1>. USE WorkersAssumption, RunsAssumption
     DEF Basics, TypeOK, MayBeActive, Dirty, Active, InFlight, Terminal
<1>1. ASSUME NEW r \in Runs, PostInsert(r) PROVE Grows(r) \/ Shrinks
  <2>1. CASE Duplicate(r)
    BY <1>1, <2>1 DEF PostInsert, workerVars
  <2>2. CASE ~Duplicate(r)
    <3>1. \A q \in Rivals(r) : ~MayBeActive(q)
      BY <1>1, <2>2, NoRivalActive DEF PostInsert
    <3>. QED
      BY <1>1, <2>2, <3>1 DEF PostInsert, workerVars
  <2>. QED
    BY <2>1, <2>2
<1>2. ASSUME NEW w \in Workers, StartScoring(w) PROVE \E r \in Runs : Grows(r)
  <2>1. PICK r \in Runs : wrun[w] = r /\ ~InDoubt(r) /\ ~Duplicate(r)
                          /\ Advance(w, "collecting", "scoring")
    BY <1>2 DEF StartScoring
  <2>2. \A q \in Rivals(r) : ~MayBeActive(q)
    BY <2>1, NoRivalActive
  <2>3. \A q \in Runs : lock[q] = w => q = r
    BY <2>1 DEF Advance, LockInv, HolderIsAtWork
  <2>. QED
    BY <2>1, <2>2, <2>3 DEF Advance, rowVars
<1>3. ASSUME NEW w \in Workers, Claim(w) PROVE Shrinks
  <2>1. PICK q \in Claimable(w) : ClaimRow(w, q, "live", attempt[q] + 1)
    BY <1>3 DEF Claim
  <2>2. \A p \in Reaped(w) : status[p] \in InFlight
    BY <2>1 DEF ClaimRow, Reaped, LockInv, HolderIsAtWork, Stuck, Executing
  <2>3. \A p \in Runs : status'[p] \in Active => status[p] \in Active
    BY <2>1, <2>2 DEF ClaimRow, Claimable, Reaped
  <2>4. \A p \in Runs : Dirty(p)' => Dirty(p)
    BY <2>1 DEF ClaimRow
  <2>. QED
    BY <2>3, <2>4
<1>4. ASSUME NEW w \in Workers, StartAnalyzing(w) PROVE Shrinks
  BY <1>4 DEF StartAnalyzing, Advance, rowVars
<1>5. ASSUME NEW c \in Cancellers, CancelWrite(c) PROVE Shrinks
  BY <1>5 DEF CancelWrite, SetStatus, workerVars
<1>6. ASSUME NEW w \in Workers, InsufficientEvidence(w) PROVE Shrinks
  BY <1>6 DEF InsufficientEvidence, SetStatus, Release
<1>7. ASSUME NEW w \in Workers, Complete(w) PROVE Shrinks
  BY <1>7 DEF Complete, SetStatus, Release
<1>8. ASSUME NEW w \in Workers, RecordFailure(w) PROVE Shrinks
  BY <1>8 DEF RecordFailure, SetStatus, Release
<1>9. ASSUME NEW w \in Workers, ReapRow(w) PROVE Shrinks
  BY <1>9 DEF ReapRow, rowVars
<1>10. ASSUME NEW w \in Workers, BeginExecute(w) PROVE Shrinks
  BY <1>10 DEF BeginExecute, rowVars
<1>11. ASSUME NEW w \in Workers, Rollback(w) PROVE Shrinks
  BY <1>11 DEF Rollback, Release, rowVars
<1>12. ASSUME NEW w \in Workers, Crash(w) PROVE Shrinks
  BY <1>12 DEF Crash, rowVars
<1>13. ASSUME NEW w \in Workers, ReapBegin(w) \/ ClaimNothing(w) PROVE Shrinks
  BY <1>13 DEF ReapBegin, ClaimNothing, rowVars
<1>14. ASSUME NEW r \in Runs, PostCheck(r) \/ LeaseLapse(r) PROVE Shrinks
  BY <1>14 DEF PostCheck, LeaseLapse, workerVars
<1>15. ASSUME NEW c \in Cancellers, NEW r \in Runs, CancelRead(c, r) PROVE Shrinks
  BY <1>15 DEF CancelRead, rowVars, workerVars
<1>16. ASSUME UNCHANGED vars PROVE Shrinks
  BY <1>16 DEF vars, rowVars, workerVars
<1>. HIDE DEF Grows, Shrinks
<1>17. (\E r \in Runs : Grows(r)) \/ Shrinks
  BY <1>1, <1>2, <1>3, <1>4, <1>5, <1>6, <1>7, <1>8, <1>9, <1>10, <1>11, <1>12,
     <1>13, <1>14, <1>15, <1>16
     DEF Next, Poll, Execute, MarketTaken, ExecuteRaises
<1>. QED
  BY <1>17 DEF Grows, Shrinks

\* At no time are two runs of a market active, nor on their way to be.
THEOREM OneActive == Spec => []OneActivePerMarket
<1>1. Init => OneActivePerMarket
  BY WorkersAssumption DEF Init, OneActivePerMarket, MayBeActive, Dirty, Active, InFlight
<1>2. Basics /\ OneActivePerMarket /\ [Next]_vars => OneActivePerMarket'
  <2>. SUFFICES ASSUME Basics, OneActivePerMarket, [Next]_vars
                PROVE  OneActivePerMarket'
    OBVIOUS
  <2>1. ASSUME NEW r \in Runs, \A q \in Rivals(r) : ~MayBeActive(q),
               \A q \in Runs \ {r} : MayBeActive(q)' => MayBeActive(q)
        PROVE  OneActivePerMarket'
    BY <2>1, OneMoreActive
  <2>2. ASSUME \A q \in Runs : MayBeActive(q)' => MayBeActive(q)
        PROVE  OneActivePerMarket'
    <3>1. CASE Runs = {}
      BY <3>1 DEF OneActivePerMarket
    <3>2. CASE Runs # {}
      BY <2>2, <3>2, OneMoreActive
    <3>. QED
      BY <3>1, <3>2
  <2>. QED
    BY <2>1, <2>2, ActiveStep
<1>. QED
  BY <1>1, <1>2, BasicsCorrect, PTL DEF Spec

-----------------------------------------------------------------------------
(***************************************************************************)
(* Circles of waiting.  A worker waited for holds a row, so it reaps or it *)
(* executes.  Among reapers the rows held grow along the chain of waits,   *)
(* because each visits its rows in order; an executor that waits has a run *)
(* that is no longer active, because the rival in doubt is.                *)
(***************************************************************************)
VisitsInOrder ==
  \A w \in Workers, q \in Runs : wpc[w] = "reaping" /\ lock[q] = w =>
    \A r \in cand[w] : q < r

LEMMA OrderStep == Basics /\ VisitsInOrder /\ [Next]_vars => VisitsInOrder'
<1>. SUFFICES ASSUME Basics, VisitsInOrder, [Next]_vars,
                     NEW v \in Workers, NEW q \in Runs,
                     wpc'[v] = "reaping", lock'[q] = v, NEW r \in cand'[v]
              PROVE  q < r
  BY DEF VisitsInOrder
<1>. USE WorkersAssumption, RunsAssumption DEF Basics, TypeOK, VisitsInOrder
<1>1. CASE UNCHANGED <<lock, wpc, cand>>
  BY <1>1
<1>2. ASSUME NEW w \in Workers, ReapBegin(w) PROVE q < r
  <2>1. \A p \in Runs : lock[p] # w
    BY <1>2 DEF ReapBegin, LockInv, HolderIsAtWork, Executing
  <2>. QED
    BY <1>2, <2>1 DEF ReapBegin
<1>3. ASSUME NEW w \in Workers, ReapRow(w) PROVE q < r
  <2>1. PICK p \in cand[w] :
          /\ wpc[w] = "reaping" /\ wpc' = wpc
          /\ \A x \in cand[w] : p <= x
          /\ lock' = [lock EXCEPT ![p] = IF Stuck(p) THEN w ELSE NoWorker]
          /\ cand' = [cand EXCEPT ![w] = @ \ {p}]
    BY <1>3 DEF ReapRow
  <2>2. p \in Runs /\ r \in Runs /\ r \in cand[v]
    BY <2>1
  <2>3. CASE q = p
    <3>1. v = w /\ r \in cand[w] /\ r # p
      BY <2>1, <2>3
    <3>. QED
      BY <2>1, <2>2, <2>3, <3>1
  <2>4. CASE q # p
    BY <2>1, <2>2, <2>4
  <2>. QED
    BY <2>3, <2>4
<1>4. ASSUME NEW w \in Workers, NEW to \in Phases \ {"reaping"},
             wpc' = [wpc EXCEPT ![w] = to], UNCHANGED cand,
             \A p \in Runs : lock'[p] \in {lock[p], w, NoWorker}
      PROVE  q < r
  BY <1>4
<1>5. ASSUME NEW w \in Workers, Claim(w) \/ ClaimNothing(w) PROVE q < r
  BY <1>4, <1>5 DEF Claim, ClaimRow, ClaimNothing, Claimable, Reaped, Phases
<1>6. ASSUME NEW w \in Workers, BeginExecute(w) PROVE q < r
  BY <1>4, <1>6 DEF BeginExecute, Phases, Executing
<1>7. ASSUME NEW w \in Workers, StartScoring(w) \/ StartAnalyzing(w) PROVE q < r
  BY <1>4, <1>7 DEF StartScoring, StartAnalyzing, Advance, Phases, Executing
<1>8. ASSUME NEW w \in Workers,
             Rollback(w) \/ InsufficientEvidence(w) \/ Complete(w) \/ RecordFailure(w)
      PROVE  q < r
  BY <1>4, <1>8 DEF Rollback, InsufficientEvidence, Complete, RecordFailure,
     Release, Phases
<1>9. ASSUME NEW w \in Workers, Crash(w) PROVE q < r
  BY <1>9 DEF Crash
<1>10. ASSUME NEW p \in Runs, PostCheck(p) \/ PostInsert(p) \/ LeaseLapse(p)
       PROVE  q < r
  BY <1>1, <1>10 DEF PostCheck, PostInsert, LeaseLapse, workerVars
<1>11. ASSUME NEW c \in Cancellers,
              CancelWrite(c) \/ \E p \in Runs : CancelRead(c, p)
       PROVE  q < r
  BY <1>1, <1>11 DEF CancelWrite, CancelRead, workerVars
<1>12. CASE UNCHANGED vars
  BY <1>1, <1>12 DEF vars, workerVars
<1>. QED
  BY <1>2, <1>3, <1>5, <1>6, <1>7, <1>8, <1>9, <1>10, <1>11, <1>12
     DEF Next, Poll, Execute, MarketTaken, ExecuteRaises

\* A nonempty set of runs has a greatest.
LEMMA GreatestRun ==
  ASSUME NEW S \in SUBSET Runs, S # {}
  PROVE  \E r \in S : \A q \in S : q <= r
<1>. DEFINE Above(r) == {q \in S : r < q}
            Sizes == {Cardinality(Above(r)) : r \in S}
<1>1. \A r \in S : IsFiniteSet(Above(r)) /\ Cardinality(Above(r)) \in Nat
  BY RunsAssumption, FS_Subset, FS_CardinalityType
<1>2. Sizes \in SUBSET Nat /\ Sizes # {}
  BY <1>1
<1>3. PICK n \in Sizes : \A k \in Sizes : <<k, n>> \notin OpToRel(<, Nat)
  BY <1>2, NatLessThanWellFounded, WFMin
<1>4. PICK r \in S : n = Cardinality(Above(r))
  BY <1>3
<1>5. ASSUME NEW q \in S, r < q PROVE FALSE
  <2>1. Above(q) \subseteq Above(r) /\ q \in Above(r) /\ q \notin Above(q)
    <3>1. r \in Nat /\ q \in Nat /\ S \subseteq Nat
      BY RunsAssumption
    <3>2. ~(q < q) /\ \A x \in S : q < x => r < x
      BY <1>5, <3>1
    <3>. QED
      BY <1>5, <3>2, Zenon
  <2>2. Cardinality(Above(q)) < Cardinality(Above(r))
    BY <1>1, <2>1, FS_Subset
  <2>3. Cardinality(Above(q)) \in Sizes
    OBVIOUS
  <2>. QED
    BY <1>1, <1>3, <1>4, <2>2, <2>3 DEF OpToRel
<1>. QED
  BY <1>5, RunsAssumption

\* What a wait tells of both: the worker waited for holds a row, and an executor
\* waits for an active rival only when its own run is not active any more.
LEMMA Waiting ==
  ASSUME Basics, OneActivePerMarket, NEW w \in Workers, NEW v \in Workers,
         WaitsFor(w, v)
  PROVE  /\ wpc[v] = "reaping" \/ wpc[v] \in Executing
         /\ wpc[w] = "reaping" =>
              \E r \in cand[w] : lock[r] = v
         /\ wpc[w] \in Executing =>
              /\ wpc[w] = "collecting"
              /\ status[wrun[w]] \in Terminal
              /\ wpc[v] = "collecting" => status[wrun[v]] \in Active
<1>. USE WorkersAssumption, RunsAssumption DEF Basics, TypeOK, WaitsFor
<1>1. \E r \in Runs : lock[r] = v
  <2>1. CASE wpc[w] \in {"claimed", "failing"}
    BY <2>1 DEF LockInv, HandsFree
  <2>. QED
    BY <2>1 DEF NextRow, Rivals
<1>2. wpc[v] = "reaping" \/ wpc[v] \in Executing
  BY <1>1 DEF LockInv, HolderIsAtWork
<1>3. ASSUME wpc[w] = "reaping" PROVE \E r \in cand[w] : lock[r] = v
  BY <1>3 DEF NextRow
<1>4. ASSUME wpc[w] \in Executing
      PROVE  /\ wpc[w] = "collecting"
             /\ status[wrun[w]] \in Terminal
             /\ wpc[v] = "collecting" => status[wrun[v]] \in Active
  <2>1. wpc[w] = "collecting" /\ wrun[w] \in Runs
    BY <1>4 DEF Executing, LockInv, HandsFree
  <2>2. PICK q \in Rivals(wrun[w]) : lock[q] = v /\ MayBeActive(q)
    BY <2>1 DEF MayBeActive
  <2>3. ~MayBeActive(wrun[w])
    BY <2>1, <2>2, RivalsSymmetric DEF OneActivePerMarket
  <2>4. status[wrun[w]] \in Terminal
    BY <2>1, <2>3 DEF MayBeActive, RowsExist, Statuses
  <2>5. ASSUME wpc[v] = "collecting" PROVE status[wrun[v]] \in Active
    <3>1. q \in Runs /\ wrun[v] = q
      BY <2>1, <2>2, <2>5, RivalsSymmetric DEF LockInv, HolderIsAtWork
    <3>2. ~Dirty(q)
      BY <2>2, <2>5, <3>1 DEF Dirty
    <3>. QED
      BY <2>2, <3>1, <3>2 DEF MayBeActive
  <2>. QED
    BY <2>1, <2>4, <2>5
<1>. QED
  BY <1>2, <1>3, <1>4

LEMMA Circles == Basics /\ OneActivePerMarket /\ VisitsInOrder => CirclesAreRare
<1>. SUFFICES ASSUME Basics, OneActivePerMarket, VisitsInOrder,
                     NEW W \in SUBSET Workers, W # {},
                     \A w \in W : \E v \in W : WaitsFor(w, v)
              PROVE  /\ \E w \in W : wpc[w] = "reaping"
                     /\ \E w \in W : wpc[w] = "collecting" /\ status[wrun[w]] \in Terminal
  BY DEF CirclesAreRare
<1>. USE WorkersAssumption, RunsAssumption DEF Basics, TypeOK
<1>1. PICK w0 \in W, v0 \in W : WaitsFor(w0, v0)
  OBVIOUS
\* Without a reaper: v0 executes, and so does the worker it waits for, v1.
<1>2. ASSUME \A w \in W : wpc[w] # "reaping" PROVE FALSE
  <2>1. PICK v1 \in W : WaitsFor(v0, v1)
    OBVIOUS
  <2>2. PICK v2 \in W : WaitsFor(v1, v2)
    OBVIOUS
  <2>3. wpc[v0] \in Executing /\ wpc[v1] \in Executing
    BY <1>1, <1>2, <2>1, Waiting
  <2>4. wpc[v1] = "collecting" /\ status[wrun[v1]] \in Terminal
    BY <2>2, <2>3, Waiting
  <2>. QED
    BY <2>1, <2>3, <2>4, Waiting DEF Active, InFlight, Terminal
\* Without an executor: the reaper that holds the greatest row waits for none.
<1>3. ASSUME \A w \in W : ~(wpc[w] = "collecting" /\ status[wrun[w]] \in Terminal)
      PROVE  FALSE
  <2>1. ASSUME NEW w \in W, NEW v \in W, WaitsFor(w, v) PROVE wpc[v] = "reaping"
    <3>1. PICK u \in W : WaitsFor(v, u)
      OBVIOUS
    <3>2. wpc[v] \notin Executing
      BY <1>3, <3>1, Waiting
    <3>. QED
      BY <2>1, <3>2, Waiting
  <2>. DEFINE S == {r \in Runs : \E v \in W : wpc[v] = "reaping" /\ lock[r] = v}
  <2>2. ASSUME NEW w \in W, wpc[w] = "reaping" PROVE \E r \in cand[w] : r \in S
    <3>1. PICK v \in W : WaitsFor(w, v)
      OBVIOUS
    <3>2. PICK r \in cand[w] : lock[r] = v
      BY <2>2, <3>1, Waiting
    <3>. QED
      BY <2>1, <3>1, <3>2
  <2>3. S # {}
    BY <1>1, <2>1, <2>2
  <2>4. PICK r \in S : \A q \in S : q <= r
    BY <2>3, GreatestRun
  <2>5. PICK v \in W : wpc[v] = "reaping" /\ lock[r] = v
    BY <2>4
  <2>6. PICK q \in cand[v] : q \in S
    BY <2>2, <2>5
  <2>7. r < q
    BY <2>5, <2>6 DEF VisitsInOrder
  <2>. QED
    BY <2>4, <2>6, <2>7
<1>. QED
  BY <1>2, <1>3

\* Workers wait in a circle only around a reaper and a run that had ended.
THEOREM RareCircles == Spec => []CirclesAreRare
<1>1. Init => VisitsInOrder
  BY WorkersAssumption DEF Init, VisitsInOrder
<1>2. Spec => []VisitsInOrder
  BY <1>1, OrderStep, BasicsCorrect, PTL DEF Spec
<1>. QED
  BY <1>2, Circles, BasicsCorrect, OneActive, PTL

-----------------------------------------------------------------------------
(***************************************************************************)
(* Counting.  A claim adds a worker to those that hold the run and one to  *)
(* its attempts; a worker that lets the run go has executed it once, or    *)
(* failed it, or crashed.                                                  *)
(***************************************************************************)
\* As long as a run has no outcome, each of its attempts is in a worker's hand
\* or was lost in a crash: this is what makes AttemptsBounded inductive.
AttemptsAccounted ==
  \A r \in Runs : status[r] \notin Terminal =>
    attempt[r] <= crashes + Cardinality(InHand(r))

CountInv == ExecutionsWithinClaims /\ AttemptsAccounted /\ AttemptsBounded

LEMMA InHandFinite ==
  ASSUME NEW r
  PROVE  /\ IsFiniteSet(InHand(r)) /\ Cardinality(InHand(r)) \in Nat
         /\ Cardinality(InHand(r)) <= Cardinality(Workers)
         /\ Cardinality(Workers) \in Nat
<1>1. InHand(r) \subseteq Workers
  BY DEF InHand
<1>. QED
  BY <1>1, WorkersAssumption, FS_Subset, FS_CardinalityType

\* The steps as the counters see them.
Grasps(w, r) ==
  /\ wrun[w] = NoRun /\ wrun' = [wrun EXCEPT ![w] = r]
  /\ status[r] \notin Terminal
  /\ attempt' = [attempt EXCEPT ![r] = @ + 1]
  /\ evidence' = evidence /\ crashes' = crashes

LetsGo(w, r) ==
  /\ wrun[w] = r /\ wrun' = [wrun EXCEPT ![w] = NoRun]
  /\ status'[r] \in Terminal
  /\ attempt' = attempt /\ crashes' = crashes
  /\ evidence' \in {evidence, [evidence EXCEPT ![r] = @ + 1]}

Drops(w) ==
  /\ wrun' = [wrun EXCEPT ![w] = NoRun]
  /\ attempt' = attempt /\ evidence' = evidence /\ crashes' = crashes + 1

LEMMA CountingSteps ==
  ASSUME Basics, [Next]_vars
  PROVE  \/ \E w \in Workers, r \in Runs : Grasps(w, r) \/ LetsGo(w, r)
         \/ \E w \in Workers : Drops(w)
         \/ UNCHANGED <<wrun, attempt, evidence, crashes>>
<1>. USE WorkersAssumption, RunsAssumption DEF Basics, TypeOK
<1>1. ASSUME NEW w \in Workers, Claim(w) PROVE \E r \in Runs : Grasps(w, r)
  <2>1. PICK r \in Claimable(w) : ClaimRow(w, r, "live", attempt[r] + 1)
    BY <1>1 DEF Claim
  <2>2. r \in Runs /\ status[r] \notin Terminal
    BY <2>1 DEF ClaimRow, Claimable, Reaped, LockInv, HolderIsAtWork, Stuck,
       Executing, InFlight, Terminal
  <2>3. wrun[w] = NoRun
    BY <2>1 DEF ClaimRow, LockInv, HandsFree
  <2>. QED
    BY <2>1, <2>2, <2>3 DEF ClaimRow, Grasps, outVars
<1>2. ASSUME NEW w \in Workers, InsufficientEvidence(w) PROVE \E r \in Runs : LetsGo(w, r)
  <2>1. PICK r \in Runs :
          /\ wrun[w] = r /\ SetStatus(r, "failed", "insufficient_evidence")
          /\ evidence' = [evidence EXCEPT ![r] = @ + 1] /\ Release(w, "idle")
    BY <1>2 DEF InsufficientEvidence
  <2>2. status'[r] \in Terminal /\ attempt' = attempt
    BY <2>1 DEF SetStatus, Terminal
  <2>3. wrun' = [wrun EXCEPT ![w] = NoRun] /\ crashes' = crashes
    BY <2>1 DEF Release
  <2>. QED
    BY <2>1, <2>2, <2>3 DEF LetsGo
<1>3. ASSUME NEW w \in Workers, Complete(w) PROVE \E r \in Runs : LetsGo(w, r)
  <2>1. PICK r \in Runs, final \in {"complete", "partial"} :
          /\ wpc[w] = "analyzing" /\ wrun[w] = r
          /\ SetStatus(r, final, "null")
          /\ evidence' = [evidence EXCEPT ![r] = @ + 1]
          /\ report' = [report EXCEPT ![r] = TRUE]
          /\ completedEvents' = [completedEvents EXCEPT ![r] = @ + 1]
          /\ Release(w, "idle")
          /\ UNCHANGED <<failedEvents, cand>>
    BY <1>3 DEF Complete
  <2>2. status'[r] \in Terminal /\ attempt' = attempt
    <3>1. status' = [status EXCEPT ![r] = final] /\ attempt' = attempt
      BY <2>1 DEF SetStatus
    <3>2. status'[r] = final
      BY <3>1
    <3>. QED
      BY <2>1, <3>1, <3>2 DEF Terminal
  <2>3. wrun' = [wrun EXCEPT ![w] = NoRun] /\ crashes' = crashes
    BY <2>1 DEF Release
  <2>. QED
    BY <2>1, <2>2, <2>3 DEF LetsGo
<1>4. ASSUME NEW w \in Workers, RecordFailure(w) PROVE \E r \in Runs : LetsGo(w, r)
  <2>1. PICK r \in Runs :
          /\ wrun[w] = r /\ SetStatus(r, "failed", "worker_error")
          /\ evidence' = evidence /\ Release(w, "idle")
    BY <1>4 DEF RecordFailure, outVars
  <2>2. status'[r] \in Terminal /\ attempt' = attempt
    BY <2>1 DEF SetStatus, Terminal
  <2>3. wrun' = [wrun EXCEPT ![w] = NoRun] /\ crashes' = crashes
    BY <2>1 DEF Release
  <2>. QED
    BY <2>1, <2>2, <2>3 DEF LetsGo
<1>5. ASSUME NEW w \in Workers, Crash(w) PROVE Drops(w)
  BY <1>5 DEF Crash, Drops, rowVars, outVars
<1>6. ASSUME NEW r \in Runs, PostCheck(r) \/ PostInsert(r) \/ LeaseLapse(r)
      PROVE  UNCHANGED <<wrun, attempt, evidence, crashes>>
  BY <1>6 DEF PostCheck, PostInsert, LeaseLapse, workerVars, outVars
<1>7. ASSUME NEW c \in Cancellers, CancelWrite(c) \/ \E r \in Runs : CancelRead(c, r)
      PROVE  UNCHANGED <<wrun, attempt, evidence, crashes>>
  BY <1>7 DEF CancelWrite, CancelRead, SetStatus, rowVars, workerVars, outVars
<1>8. ASSUME NEW w \in Workers,
             ReapBegin(w) \/ ReapRow(w) \/ ClaimNothing(w) \/ BeginExecute(w)
             \/ StartScoring(w) \/ StartAnalyzing(w)
      PROVE  UNCHANGED <<wrun, attempt, evidence, crashes>>
  BY <1>8 DEF ReapBegin, ReapRow, ClaimNothing, BeginExecute, StartScoring,
     StartAnalyzing, Advance, rowVars, outVars
<1>9. ASSUME NEW w \in Workers, Rollback(w)
      PROVE  UNCHANGED <<wrun, attempt, evidence, crashes>>
  BY <1>9 DEF Rollback, Release, rowVars, outVars
<1>10. CASE UNCHANGED vars
  BY <1>10 DEF vars, rowVars, outVars, workerVars
<1>. QED
  BY <1>1, <1>2, <1>3, <1>4, <1>5, <1>6, <1>7, <1>8, <1>9, <1>10
     DEF Next, Poll, Execute, MarketTaken, ExecuteRaises

LEMMA CountStep == Basics /\ CountInv /\ [Next]_vars => CountInv'
<1>. SUFFICES ASSUME Basics, CountInv, [Next]_vars PROVE CountInv'
  OBVIOUS
<1>. SUFFICES ASSUME NEW q \in Runs
              PROVE  /\ evidence'[q] + Cardinality(InHand(q)') <= attempt'[q]
                     /\ status'[q] \notin Terminal =>
                          attempt'[q] <= crashes' + Cardinality(InHand(q)')
                     /\ attempt'[q] <= crashes' + Cardinality(Workers)
  BY DEF CountInv, ExecutionsWithinClaims, AttemptsAccounted, AttemptsBounded
<1>1. /\ evidence[q] + Cardinality(InHand(q)) <= attempt[q]
      /\ status[q] \notin Terminal => attempt[q] <= crashes + Cardinality(InHand(q))
      /\ attempt[q] <= crashes + Cardinality(Workers)
      /\ evidence[q] \in Nat /\ attempt[q] \in Nat /\ crashes \in Nat
      /\ Cardinality(InHand(q)) \in Nat /\ IsFiniteSet(InHand(q))
      /\ Cardinality(Workers) \in Nat
  BY InHandFinite DEF CountInv, ExecutionsWithinClaims, AttemptsAccounted,
     AttemptsBounded, Basics, TypeOK
<1>2. status'[q] \notin Terminal => status[q] \notin Terminal
  BY TerminalStep
<1>3. IsFiniteSet(Workers) /\ NoRun \notin Runs /\ wrun \in [Workers -> Runs \cup {NoRun}]
      /\ attempt \in [Runs -> Nat] /\ evidence \in [Runs -> Nat]
  BY WorkersAssumption, RunsAssumption DEF Basics, TypeOK
<1>4. ASSUME NEW w \in Workers, NEW r \in Runs, Grasps(w, r)
      PROVE  /\ evidence'[q] + Cardinality(InHand(q)') <= attempt'[q]
             /\ status'[q] \notin Terminal =>
                  attempt'[q] <= crashes' + Cardinality(InHand(q)')
             /\ attempt'[q] <= crashes' + Cardinality(Workers)
  <2>1. CASE q = r
    <3>1. InHand(q)' = InHand(q) \cup {w} /\ w \notin InHand(q)
      BY <1>3, <1>4, <2>1 DEF InHand, Grasps
    <3>2. Cardinality(InHand(q)') = Cardinality(InHand(q)) + 1
      BY <1>1, <3>1, FS_AddElement
    <3>3. Cardinality(InHand(q)') <= Cardinality(Workers)
      <4>1. InHand(q)' \subseteq Workers
        BY DEF InHand
      <4>. QED
        BY <4>1, <1>3, FS_Subset
    <3>. QED
      BY <1>1, <1>3, <1>4, <2>1, <3>2, <3>3 DEF Grasps
  <2>2. CASE q # r
    <3>1. InHand(q)' = InHand(q)
      BY <1>3, <1>4, <2>2 DEF InHand, Grasps
    <3>. QED
      BY <1>1, <1>2, <1>3, <1>4, <2>2, <3>1 DEF Grasps
  <2>. QED
    BY <2>1, <2>2
<1>5. ASSUME NEW w \in Workers, NEW r \in Runs, LetsGo(w, r)
      PROVE  /\ evidence'[q] + Cardinality(InHand(q)') <= attempt'[q]
             /\ status'[q] \notin Terminal =>
                  attempt'[q] <= crashes' + Cardinality(InHand(q)')
             /\ attempt'[q] <= crashes' + Cardinality(Workers)
  <2>1. CASE q = r
    <3>1. InHand(q)' = InHand(q) \ {w} /\ w \in InHand(q)
      BY <1>3, <1>5, <2>1 DEF InHand, LetsGo
    <3>2. Cardinality(InHand(q)') = Cardinality(InHand(q)) - 1
      BY <1>1, <3>1, FS_RemoveElement
    <3>3. evidence'[q] <= evidence[q] + 1 /\ evidence'[q] \in Nat
      BY <1>1, <1>3, <1>5, <2>1 DEF LetsGo
    <3>. QED
      BY <1>1, <1>5, <2>1, <3>2, <3>3 DEF LetsGo
  <2>2. CASE q # r
    <3>1. InHand(q)' = InHand(q)
      BY <1>3, <1>5, <2>2 DEF InHand, LetsGo
    <3>2. evidence'[q] = evidence[q]
      BY <1>3, <1>5, <2>2 DEF LetsGo
    <3>. QED
      BY <1>1, <1>2, <1>5, <3>1, <3>2 DEF LetsGo
  <2>. QED
    BY <2>1, <2>2
<1>6. ASSUME NEW w \in Workers, Drops(w)
      PROVE  /\ evidence'[q] + Cardinality(InHand(q)') <= attempt'[q]
             /\ status'[q] \notin Terminal =>
                  attempt'[q] <= crashes' + Cardinality(InHand(q)')
             /\ attempt'[q] <= crashes' + Cardinality(Workers)
  <2>1. InHand(q)' = InHand(q) \ {w}
    BY <1>3, <1>6 DEF InHand, Drops
  <2>2. /\ Cardinality(InHand(q)') \in Nat
        /\ Cardinality(InHand(q)') <= Cardinality(InHand(q))
        /\ Cardinality(InHand(q)) <= Cardinality(InHand(q)') + 1
    <3>1. /\ IsFiniteSet(InHand(q)')
          /\ \/ Cardinality(InHand(q)') = Cardinality(InHand(q)) - 1
             \/ Cardinality(InHand(q)') = Cardinality(InHand(q))
      BY <1>1, <2>1, FS_RemoveElement
    <3>2. Cardinality(InHand(q)') \in Nat
      BY <3>1, FS_CardinalityType
    <3>. QED
      BY <1>1, <3>1, <3>2
  <2>. QED
    BY <1>1, <1>2, <1>6, <2>2 DEF Drops
<1>7. ASSUME UNCHANGED <<wrun, attempt, evidence, crashes>>
      PROVE  /\ evidence'[q] + Cardinality(InHand(q)') <= attempt'[q]
             /\ status'[q] \notin Terminal =>
                  attempt'[q] <= crashes' + Cardinality(InHand(q)')
             /\ attempt'[q] <= crashes' + Cardinality(Workers)
  <2>1. InHand(q)' = InHand(q)
    BY <1>7 DEF InHand
  <2>. QED
    BY <1>1, <1>2, <1>7, <2>1
<1>. QED
  BY <1>4, <1>5, <1>6, <1>7, CountingSteps

LEMMA CountCorrect == Spec => []CountInv
<1>1. Init => CountInv
  <2>. SUFFICES ASSUME Init PROVE CountInv
    OBVIOUS
  <2>1. \A r \in Runs : InHand(r) = {}
    BY RunsAssumption DEF Init, InHand
  <2>2. \A r \in Runs : Cardinality(InHand(r)) = 0
    BY <2>1, FS_EmptySet
  <2>3. Cardinality(Workers) \in Nat
    BY FS_CardinalityType, WorkersAssumption
  <2>4. crashes = 0 /\ \A r \in Runs : attempt[r] = 0 /\ evidence[r] = 0
    BY DEF Init
  <2>5. ExecutionsWithinClaims /\ AttemptsAccounted
    BY <2>2, <2>4 DEF ExecutionsWithinClaims, AttemptsAccounted
  <2>6. AttemptsBounded
    BY <2>3, <2>4 DEF AttemptsBounded
  <2>. QED
    BY <2>5, <2>6 DEF CountInv
<1>. QED
  BY <1>1, CountStep, BasicsCorrect, PTL DEF Spec

\* No claim is executed twice: evidence is never written more often than the
\* run was claimed.
THEOREM OneExecutionPerClaim == Spec => []ExecutionsWithinClaims
  BY CountCorrect, PTL DEF CountInv

\* A run is tried at most once per worker and once more per crash.
THEOREM BoundedAttempts == Spec => []AttemptsBounded
  BY CountCorrect, PTL DEF CountInv

-----------------------------------------------------------------------------
(***************************************************************************)
(* Recovery and outcomes.                                                  *)
(***************************************************************************)
\* Every run that is collecting carries the claim the reaper looks at.
THEOREM Recoverable == Spec => []ClaimIsRecoverable
<1>. USE WorkersAssumption DEF InFlight, ClaimIsRecoverable
<1>1. Init => ClaimIsRecoverable
  BY DEF Init
<1>2. Basics /\ ClaimIsRecoverable /\ [Next]_vars => ClaimIsRecoverable'
  <2>. SUFFICES ASSUME Basics, ClaimIsRecoverable, [Next]_vars
                PROVE  ClaimIsRecoverable'
    OBVIOUS
  <2>. USE DEF Basics, TypeOK
  <2>1. ASSUME NEW r \in Runs, PostInsert(r) PROVE ClaimIsRecoverable'
    BY <2>1 DEF PostInsert
  <2>2. ASSUME NEW r \in Runs, LeaseLapse(r) PROVE ClaimIsRecoverable'
    BY <2>2 DEF LeaseLapse
  <2>3. ASSUME NEW w \in Workers, Claim(w) PROVE ClaimIsRecoverable'
    BY <2>3 DEF Claim, ClaimRow, Claimable, Reaped
  <2>4. ASSUME NEW r \in Runs, NEW s \in Terminal, NEW code, SetStatus(r, s, code)
        PROVE  ClaimIsRecoverable'
    BY <2>4 DEF SetStatus, Terminal
  <2>5. ASSUME NEW w \in Workers, InsufficientEvidence(w) \/ Complete(w) \/ RecordFailure(w)
        PROVE  ClaimIsRecoverable'
    BY <2>4, <2>5 DEF InsufficientEvidence, Complete, RecordFailure, Terminal
  <2>6. ASSUME NEW c \in Cancellers, CancelWrite(c) PROVE ClaimIsRecoverable'
    BY <2>4, <2>6 DEF CancelWrite, Terminal
  <2>7. CASE UNCHANGED <<status, claimedAt, claimedBy>>
    BY <2>7
  <2>8. ASSUME NEW r \in Runs, PostCheck(r) \/ \E c \in Cancellers : CancelRead(c, r)
        PROVE  ClaimIsRecoverable'
    BY <2>7, <2>8 DEF PostCheck, CancelRead, rowVars
  <2>9. ASSUME NEW w \in Workers,
               ReapBegin(w) \/ ReapRow(w) \/ ClaimNothing(w) \/ BeginExecute(w)
               \/ StartScoring(w) \/ StartAnalyzing(w) \/ Rollback(w) \/ Crash(w)
        PROVE  ClaimIsRecoverable'
    BY <2>7, <2>9 DEF ReapBegin, ReapRow, ClaimNothing, BeginExecute, StartScoring,
       StartAnalyzing, Advance, Rollback, Crash, rowVars
  <2>10. CASE UNCHANGED vars
    BY <2>7, <2>10 DEF vars, rowVars
  <2>. QED
    BY <2>1, <2>2, <2>3, <2>5, <2>6, <2>8, <2>9, <2>10
       DEF Next, Poll, Execute, MarketTaken, ExecuteRaises
<1>. QED
  BY <1>1, <1>2, BasicsCorrect, PTL DEF Spec

\* What an outcome promises was committed with it.
THEOREM OutcomeRows == Spec => []OutcomeHasItsRows
<1>. USE DEF OutcomeHasItsRows
<1>1. Init => OutcomeHasItsRows
  BY DEF Init
<1>2. Basics /\ OutcomeHasItsRows /\ [Next]_vars => OutcomeHasItsRows'
  <2>. SUFFICES ASSUME Basics, OutcomeHasItsRows, [Next]_vars
                PROVE  OutcomeHasItsRows'
    OBVIOUS
  <2>. USE DEF Basics, TypeOK
  <2>1. ASSUME NEW r \in Runs, PostInsert(r) PROVE OutcomeHasItsRows'
    BY <2>1 DEF PostInsert, outVars
  <2>2. ASSUME NEW w \in Workers, Claim(w) PROVE OutcomeHasItsRows'
    BY <2>2 DEF Claim, ClaimRow, Claimable, Reaped, outVars
  <2>3. ASSUME NEW w \in Workers, InsufficientEvidence(w) PROVE OutcomeHasItsRows'
    BY <2>3 DEF InsufficientEvidence, SetStatus
  <2>4. ASSUME NEW w \in Workers, Complete(w) PROVE OutcomeHasItsRows'
    BY <2>4 DEF Complete, SetStatus
  <2>5. ASSUME NEW w \in Workers, RecordFailure(w) PROVE OutcomeHasItsRows'
    BY <2>5 DEF RecordFailure, SetStatus, outVars
  <2>6. ASSUME NEW c \in Cancellers, CancelWrite(c) PROVE OutcomeHasItsRows'
    BY <2>6 DEF CancelWrite, SetStatus, outVars
  <2>7. CASE UNCHANGED <<status, errorCode, outVars>>
    BY <2>7 DEF outVars
  <2>8. ASSUME NEW r \in Runs,
               PostCheck(r) \/ LeaseLapse(r) \/ \E c \in Cancellers : CancelRead(c, r)
        PROVE  OutcomeHasItsRows'
    BY <2>7, <2>8 DEF PostCheck, LeaseLapse, CancelRead, rowVars
  <2>9. ASSUME NEW w \in Workers,
               ReapBegin(w) \/ ReapRow(w) \/ ClaimNothing(w) \/ BeginExecute(w)
               \/ StartScoring(w) \/ StartAnalyzing(w) \/ Rollback(w) \/ Crash(w)
        PROVE  OutcomeHasItsRows'
    BY <2>7, <2>9 DEF ReapBegin, ReapRow, ClaimNothing, BeginExecute, StartScoring,
       StartAnalyzing, Advance, Rollback, Crash, rowVars
  <2>10. CASE UNCHANGED vars
    BY <2>7, <2>10 DEF vars, rowVars
  <2>. QED
    BY <2>1, <2>2, <2>3, <2>4, <2>5, <2>6, <2>8, <2>9, <2>10
       DEF Next, Poll, Execute, MarketTaken, ExecuteRaises
<1>. QED
  BY <1>1, <1>2, BasicsCorrect, PTL DEF Spec

-----------------------------------------------------------------------------
(***************************************************************************)
(* What a step may not do to a run that is being executed, or is settled.  *)
(***************************************************************************)
\* The steps that write research_runs.status, and the row they write.
Writes(r) ==
  \/ PostInsert(r) /\ ~Duplicate(r)
  \/ \E c \in Cancellers : cancelling[c] = r /\ lock[r] = NoWorker /\ CancelWrite(c)
  \/ \E w \in Workers : wrun[w] = r /\
       (InsufficientEvidence(w) \/ Complete(w) \/ RecordFailure(w))

LEMMA StatusSteps ==
  ASSUME Basics, [Next]_vars
  PROVE  \/ UNCHANGED <<status, attempt, report>>
         \/ \E w \in Workers : Claim(w)
         \/ \E q \in Runs : /\ Writes(q)
                            /\ \E s \in Statuses : status' = [status EXCEPT ![q] = s]
                            /\ attempt' = attempt
                            /\ report' \in {report, [report EXCEPT ![q] = TRUE]}
<1>. DEFINE Same == UNCHANGED <<status, attempt, report>>
            Write(q) == /\ Writes(q)
                        /\ \E s \in Statuses : status' = [status EXCEPT ![q] = s]
                        /\ attempt' = attempt
                        /\ report' \in {report, [report EXCEPT ![q] = TRUE]}
<1>. USE DEF Basics, TypeOK, Statuses, Active, Terminal, InFlight
<1>1. ASSUME NEW r \in Runs, PostInsert(r) PROVE Same \/ Write(r)
  BY <1>1 DEF PostInsert, Writes, outVars
<1>2. ASSUME NEW c \in Cancellers, CancelWrite(c) PROVE \E q \in Runs : Write(q)
  BY <1>2 DEF CancelWrite, SetStatus, Writes, outVars
<1>3. ASSUME NEW w \in Workers, InsufficientEvidence(w) PROVE \E q \in Runs : Write(q)
  BY <1>3 DEF InsufficientEvidence, SetStatus, Writes
<1>4. ASSUME NEW w \in Workers, Complete(w) PROVE \E q \in Runs : Write(q)
  <2>1. PICK q \in Runs, final \in {"complete", "partial"} :
          /\ wrun[w] = q
          /\ status' = [status EXCEPT ![q] = final] /\ attempt' = attempt
          /\ report' = [report EXCEPT ![q] = TRUE]
    BY <1>4 DEF Complete, SetStatus
  <2>2. Writes(q)
    BY <1>4, <2>1 DEF Writes
  <2>. QED
    BY <2>1, <2>2
<1>5. ASSUME NEW w \in Workers, RecordFailure(w) PROVE \E q \in Runs : Write(q)
  BY <1>5 DEF RecordFailure, SetStatus, Writes, outVars
<1>6. ASSUME NEW r \in Runs,
             PostCheck(r) \/ LeaseLapse(r) \/ \E c \in Cancellers : CancelRead(c, r)
      PROVE  Same
  BY <1>6 DEF PostCheck, LeaseLapse, CancelRead, rowVars, outVars
<1>7. ASSUME NEW w \in Workers,
             ReapBegin(w) \/ ReapRow(w) \/ ClaimNothing(w) \/ BeginExecute(w)
             \/ StartScoring(w) \/ StartAnalyzing(w) \/ Rollback(w) \/ Crash(w)
      PROVE  Same
  BY <1>7 DEF ReapBegin, ReapRow, ClaimNothing, BeginExecute, StartScoring,
     StartAnalyzing, Advance, Rollback, Crash, rowVars, outVars
<1>8. ASSUME UNCHANGED vars PROVE Same
  BY <1>8 DEF vars, rowVars, outVars
<1>. HIDE DEF Same, Write
<1>9. Same \/ (\E w \in Workers : Claim(w)) \/ \E q \in Runs : Write(q)
  BY <1>1, <1>2, <1>3, <1>4, <1>5, <1>6, <1>7, <1>8
     DEF Next, Poll, Execute, MarketTaken, ExecuteRaises
<1>. QED
  BY <1>9 DEF Same, Write

\* A claim leaves alone the rows that are not claimable.
LEMMA ClaimSpares ==
  ASSUME Basics, NEW w \in Workers, Claim(w), NEW r \in Runs, r \notin Claimable(w)
  PROVE  /\ status'[r] = status[r] /\ attempt'[r] = attempt[r]
         /\ report' = report /\ cancelling' = cancelling
         /\ InHand(r)' \subseteq InHand(r)
<1>1. PICK q \in Claimable(w) : ClaimRow(w, q, "live", attempt[q] + 1)
  BY DEF Claim
<1>. QED
  BY <1>1 DEF ClaimRow, Claimable, Reaped, InHand, Basics, TypeOK, outVars, apiVars

LEMMA UndisturbedStep ==
  ASSUME Basics, [Next]_vars, NEW r \in Runs, NEW w \in Workers,
         Executor(w, r), Executor(w, r)'
  PROVE  status'[r] = status[r] /\ attempt'[r] = attempt[r]
<1>. USE WorkersAssumption DEF Basics
<1>1. lock[r] = w /\ wrun[w] = r /\ wpc[w] \in Executing /\ status[r] # "none"
  BY DEF Executor, LockInv, ExecutorHoldsRow, RowsExist
<1>2. ASSUME NEW v \in Workers, Claim(v)
      PROVE  status'[r] = status[r] /\ attempt'[r] = attempt[r]
  <2>1. wpc[v] = "reaping"
    BY <1>2 DEF Claim, ClaimRow
  <2>2. r \notin Claimable(v)
    BY <1>1, <2>1 DEF Claimable, Reaped, Executing
  <2>. QED
    BY <1>2, <2>2, ClaimSpares
<1>3. ASSUME NEW q \in Runs, Writes(q) PROVE q # r
  <2>. SUFFICES ASSUME q = r PROVE FALSE
    OBVIOUS
  <2>1. ~PostInsert(q)
    BY <1>1 DEF PostInsert, RowsExist
  <2>2. ~(lock[q] = NoWorker)
    BY <1>1
  <2>3. PICK v \in Workers : wrun[v] = r /\ (InsufficientEvidence(v) \/ Complete(v))
    BY <1>3, <2>1, <2>2 DEF Writes, RecordFailure
  <2>4. wpc[v] \in Executing
    BY <2>3 DEF InsufficientEvidence, Complete, Executing
  <2>5. v = w
    BY <1>1, <2>3, <2>4 DEF LockInv, ExecutorHoldsRow
  <2>6. wpc'[w] = "idle"
    BY <2>3, <2>5 DEF InsufficientEvidence, Complete, Release, TypeOK
  <2>. QED
    BY <2>6 DEF Executor, Executing
<1>. QED
  BY <1>2, <1>3, StatusSteps DEF TypeOK

\* While an execution is open, only its own end changes the run's row: the
\* reaper does not requeue it however old its claim, and a cancel waits.
THEOREM Undisturbed == Spec => ExecutionUndisturbed
<1>1. Basics /\ [Next]_vars =>
        [\A r \in Runs, w \in Workers :
           Executor(w, r) /\ Executor(w, r)' =>
             status'[r] = status[r] /\ attempt'[r] = attempt[r]]_vars
  BY UndisturbedStep
<1>. QED
  BY <1>1, BasicsCorrect, PTL DEF Spec, ExecutionUndisturbed

LEMMA SettledStep ==
  ASSUME Basics, [Next]_vars, NEW r \in Runs, Settled(r)
  PROVE  Settled(r)' /\ status'[r] = status[r] /\ report'[r] = report[r]
<1>. USE RunsAssumption DEF Basics, TypeOK
<1>1. /\ status[r] \in Terminal
      /\ \A w \in Workers : wrun[w] # r
      /\ \A c \in Cancellers : cancelling[c] # r
  BY DEF Settled, InHand
<1>2. status'[r] = status[r] /\ report'[r] = report[r]
  <2>1. ASSUME NEW w \in Workers, Claim(w)
        PROVE  status'[r] = status[r] /\ report'[r] = report[r]
    <3>1. wpc[w] = "reaping"
      BY <2>1 DEF Claim, ClaimRow
    <3>2. r \notin Claimable(w)
      BY <1>1, <3>1 DEF Claimable, Reaped, Terminal, LockInv, HolderIsAtWork,
         Executing, Stuck, InFlight
    <3>. QED
      BY <2>1, <3>2, ClaimSpares
  <2>2. ~Writes(r)
    <3>1. post[r] = "accepted"
      BY <1>1 DEF RowsExist, Terminal
    <3>2. ~PostInsert(r)
      BY <3>1 DEF PostInsert
    <3>. QED
      BY <1>1, <3>2 DEF Writes
  <2>. QED
    BY <2>1, <2>2, StatusSteps
<1>3. \A w \in Workers : wrun'[w] # r
  <2>1. ASSUME NEW w \in Workers, NEW q \in Runs, Grasps(w, q) PROVE q # r
    BY <1>1, <2>1 DEF Grasps
  <2>. QED
    BY <1>1, <2>1, CountingSteps DEF Grasps, LetsGo, Drops
<1>4. \A c \in Cancellers : cancelling'[c] # r
  <2>1. ASSUME NEW c \in Cancellers, NEW q \in Runs, CancelRead(c, q)
        PROVE  \A d \in Cancellers : cancelling'[d] # r
    <3>1. q # r
      BY <1>1, <2>1 DEF CancelRead, Active, InFlight, Terminal
    <3>2. cancelling' = [cancelling EXCEPT ![c] = q]
      BY <2>1 DEF CancelRead
    <3>. QED
      BY <1>1, <3>1, <3>2
  <2>2. ASSUME NEW c \in Cancellers, CancelWrite(c)
        PROVE  \A d \in Cancellers : cancelling'[d] # r
    <3>1. cancelling' = [cancelling EXCEPT ![c] = NoRun]
      BY <2>2 DEF CancelWrite
    <3>. QED
      BY <1>1, <3>1
  <2>3. CASE cancelling' = cancelling
    BY <1>1, <2>3
  <2>4. ASSUME NEW q \in Runs, PostCheck(q) \/ PostInsert(q) \/ LeaseLapse(q)
        PROVE  cancelling' = cancelling
    BY <2>4 DEF PostCheck, PostInsert, LeaseLapse, apiVars
  <2>5. ASSUME NEW w \in Workers, Poll(w) PROVE cancelling' = cancelling
    BY <2>5 DEF Poll, ReapBegin, ReapRow, Claim, ClaimRow, ClaimNothing, apiVars
  <2>6. ASSUME NEW w \in Workers, Execute(w) PROVE cancelling' = cancelling
    BY <2>6 DEF Execute, BeginExecute, StartScoring, StartAnalyzing, Advance,
       MarketTaken, ExecuteRaises, Rollback, InsufficientEvidence, Complete,
       RecordFailure, Release, apiVars
  <2>7. ASSUME NEW w \in Workers, Crash(w) PROVE cancelling' = cancelling
    BY <2>7 DEF Crash, apiVars
  <2>8. CASE UNCHANGED vars
    BY <2>3, <2>8 DEF vars, apiVars
  <2>. QED
    BY <2>1, <2>2, <2>3, <2>4, <2>5, <2>6, <2>7, <2>8 DEF Next
<1>. QED
  BY <1>1, <1>2, <1>3, <1>4 DEF Settled, InHand

\* Once no worker and no cancel has it in hand, an outcome is final.
THEOREM SettledFinal == Spec => SettledIsFinal
<1>1. Basics /\ [Next]_vars =>
        [\A r \in Runs : Settled(r) =>
           Settled(r)' /\ status'[r] = status[r] /\ report'[r] = report[r]]_vars
  BY SettledStep
<1>. QED
  BY <1>1, BasicsCorrect, PTL DEF Spec, SettledIsFinal

-----------------------------------------------------------------------------
(***************************************************************************)
(* Refinement.  What is committed to research_runs.status is a behaviour   *)
(* of RunLifecycle: an INSERT is a Submit, the commit of a poll that       *)
(* claimed is a Dispatch, every other write is a Settle, and whatever      *)
(* happens inside execute_run's transaction is a stutter.                  *)
(***************************************************************************)
\* The statuses of the phases in between are never committed.
OnlyVisible == \A r \in Runs : status[r] \in Lifecycle!Visible

LEMMA LifecycleStep ==
  ASSUME Basics, OnlyVisible, [Next]_vars
  PROVE  [Lifecycle!Next]_status /\ OnlyVisible'
<1>. USE DEF Basics, TypeOK, OnlyVisible, Lifecycle!Visible, Lifecycle!Terminal, Terminal
<1>1. ASSUME NEW w \in Workers, Claim(w)
      PROVE  Lifecycle!Next /\ OnlyVisible'
  <2>1. PICK r \in Claimable(w) : ClaimRow(w, r, "live", attempt[r] + 1)
    BY <1>1 DEF Claim
  <2>2. \A q \in Reaped(w) : q \in Runs /\ status[q] = "collecting"
    BY <2>1 DEF ClaimRow, Reaped, LockInv, HolderIsAtWork, Stuck, Executing, InFlight
  <2>3. r \in Runs /\ (status[r] = "queued" \/ r \in Reaped(w))
    BY DEF Claimable, Reaped
  <2>4. Lifecycle!Dispatch(Reaped(w), r)
    BY <2>1, <2>2, <2>3 DEF Lifecycle!Dispatch, ClaimRow
  <2>5. Reaped(w) \in SUBSET Runs
    BY DEF Reaped
  <2>6. OnlyVisible'
    BY <2>1, <2>3 DEF ClaimRow
  <2>. QED
    BY <2>3, <2>4, <2>5, <2>6 DEF Lifecycle!Next
<1>2. ASSUME NEW q \in Runs, Writes(q), NEW s \in Statuses, status' = [status EXCEPT ![q] = s]
      PROVE  Lifecycle!Next /\ OnlyVisible'
  <2>1. CASE PostInsert(q) /\ ~Duplicate(q)
    <3>1. status' = [status EXCEPT ![q] = "queued"] /\ status[q] = "none"
      BY <2>1 DEF PostInsert, RowsExist
    <3>2. \A p \in Lifecycle!Rivals(q) : status[p] \notin Lifecycle!Active
      BY <2>1 DEF Duplicate, Rivals, Lifecycle!Rivals, Active, InFlight,
         Lifecycle!Active, Lifecycle!Queued, Lifecycle!InFlight
    <3>3. Lifecycle!Submit(q)
      BY <3>1, <3>2 DEF Lifecycle!Submit
    <3>. QED
      BY <3>1, <3>3 DEF Lifecycle!Next
  <2>2. CASE ~(PostInsert(q) /\ ~Duplicate(q))
    <3>1. status[q] # "none"
      BY <1>2, <2>2 DEF Writes, RowsExist
    <3>2. \E outcome \in Terminal : status' = [status EXCEPT ![q] = outcome]
      <4>1. ASSUME NEW c \in Cancellers, cancelling[c] = q, CancelWrite(c)
            PROVE  status' = [status EXCEPT ![q] = "cancelled"]
        BY <4>1 DEF CancelWrite, SetStatus
      <4>2. ASSUME NEW w \in Workers, wrun[w] = q, InsufficientEvidence(w) \/ RecordFailure(w)
            PROVE  status' = [status EXCEPT ![q] = "failed"]
        BY <4>2 DEF InsufficientEvidence, RecordFailure, SetStatus
      <4>3. ASSUME NEW w \in Workers, wrun[w] = q, Complete(w)
            PROVE  \E outcome \in {"complete", "partial"} :
                     status' = [status EXCEPT ![q] = outcome]
        BY <4>3 DEF Complete, SetStatus
      <4>. QED
        BY <1>2, <2>2, <4>1, <4>2, <4>3 DEF Writes
    <3>3. PICK outcome \in Terminal : status' = [status EXCEPT ![q] = outcome]
      BY <3>2
    <3>4. Lifecycle!Settle(q, outcome)
      BY <3>1, <3>3 DEF Lifecycle!Settle
    <3>. QED
      BY <3>3, <3>4 DEF Lifecycle!Next
  <2>. QED
    BY <2>1, <2>2
<1>3. CASE UNCHANGED status
  BY <1>3
<1>. QED
  BY <1>1, <1>2, <1>3, StatusSteps

\* The queue implements the lifecycle its readers see.
THEOREM ImplementsLifecycle == Spec => LifecycleSpec
<1>1. Init => Lifecycle!Init /\ OnlyVisible
  BY DEF Init, Lifecycle!Init, OnlyVisible, Lifecycle!Visible
<1>2. Basics /\ OnlyVisible /\ [Next]_vars => [Lifecycle!Next]_status /\ OnlyVisible'
  BY LifecycleStep
<1>. QED
  BY <1>1, <1>2, BasicsCorrect, PTL DEF Spec, LifecycleSpec, Lifecycle!Spec
=============================================================================
