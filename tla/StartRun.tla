------------------------------ MODULE StartRun ------------------------------
(***************************************************************************)
(* start_run of engine/pipeline/start.py, which POST /runs and the form of *)
(* the app share, with find_fresh_run and enqueue of pipeline/queue.py:    *)
(* reuse a fresh run, or check the quota and queue a new one.              *)
(*                                                                         *)
(* Requests are served by concurrent threads, one statement at a time at   *)
(* READ COMMITTED; only the unique indexes hold between statements.  The   *)
(* market is resolved already.  There is one account (the dev principal of *)
(* api/deps.py) and one calendar month.  What happens to a run once it is  *)
(* queued is RunLifecycle's, which RunQueue implements.                    *)
(***************************************************************************)
EXTENDS Naturals, FiniteSets, SequencesExt

CONSTANTS
  Handlers,      \* threads that serve the two endpoints
  Runs, Market,  \* ids of research_runs rows, and the market of each
  Keys, NoKey,   \* Idempotency-Key headers
  Quota,         \* run_quota_month
  Outcomes       \* bound: the terminal statuses that are told apart

ASSUME HandlersAssumption == IsFiniteSet(Handlers) /\ Handlers # {}
ASSUME RunsAssumption == IsFiniteSet(Runs)
ASSUME KeysAssumption == NoKey \notin Keys
ASSUME QuotaAssumption == Quota \in Nat \ {0}
ASSUME OutcomesAssumption == Outcomes \subseteq {"complete", "partial", "failed", "cancelled"}

VARIABLES
  status,      \* research_runs.status
  key,         \* research_runs.idempotency_key
  fresh,       \* successful runs that may be reused, by completed_at
  pc, req,     \* of each handler: the next statement, and its request
  answers      \* for each key, what requests that carried it were answered

vars == <<status, key, fresh, pc, req, answers>>

Lifecycle == INSTANCE RunLifecycle

Markets == {Market[r] : r \in Runs}
Success == {"complete", "partial"}
Requests == [market : Markets, force : BOOLEAN, key : Keys \cup {NoKey}]
Answers == Runs \cup {"quota_exceeded", "run_in_progress", "error"}
Statements == {"idle", "fresh", "quota", "key", "active", "insert"}

\* No run is listed twice.
Listed(list) == \A i, j \in DOMAIN list : list[i] = list[j] => i = j

TypeOK ==
  /\ status \in [Runs -> Lifecycle!Statuses]
  /\ key \in [Runs -> Keys \cup {NoKey}]
  /\ fresh \in Seq(Runs) /\ Listed(fresh)
  /\ pc \in [Handlers -> Statements]
  /\ req \in [Handlers -> Requests \cup {<<>>}]
  /\ answers \in [Keys -> SUBSET Answers]

Init ==
  /\ Lifecycle!Init
  /\ key = [r \in Runs |-> NoKey]
  /\ fresh = <<>>
  /\ pc = [h \in Handlers |-> "idle"]
  /\ req = [h \in Handlers |-> <<>>]
  /\ answers = [k \in Keys |-> {}]

Exists(r) == status[r] # "none"
Created == {r \in Runs : Exists(r)}
ActiveOf(m) == {r \in Runs : Market[r] = m /\ status[r] \in Lifecycle!Active}
WithKey(k) == {r \in Runs : Exists(r) /\ key[r] = k /\ k # NoKey}

-----------------------------------------------------------------------------
(* A request.                                                              *)

Receive(h) ==
  \E q \in Requests :
    /\ pc[h] = "idle"
    /\ req' = [req EXCEPT ![h] = q]
    /\ pc' = [pc EXCEPT ![h] = IF q.force THEN "quota" ELSE "fresh"]
    /\ UNCHANGED <<status, key, fresh, answers>>

\* The response, and with it the end of the transaction.
Respond(h, a) ==
  /\ pc' = [pc EXCEPT ![h] = "idle"]
  /\ req' = [req EXCEPT ![h] = <<>>]
  /\ answers' = [k \in Keys |-> IF k = req[h].key THEN answers[k] \cup {a} ELSE answers[k]]

GoOn(h, to) ==
  /\ pc' = [pc EXCEPT ![h] = to]
  /\ UNCHANGED <<req, answers>>

\* The fresh runs of a market, by their places; the newest is the last.
FreshOf(m) == {i \in DOMAIN fresh : Market[fresh[i]] = m}

FindFresh(h) ==
  /\ pc[h] = "fresh"
  /\ LET found == FreshOf(req[h].market)
     IN \/ \E i \in found : (\A j \in found : j <= i) /\ Respond(h, fresh[i])
        \/ found = {} /\ GoOn(h, "quota")
  /\ UNCHANGED <<status, key, fresh>>

\* Variant: one more than the quota.
CheckQuotaLoosely(h) ==
  /\ pc[h] = "quota"
  /\ \/ Cardinality(Created) > Quota /\ Respond(h, "quota_exceeded")
     \/ Cardinality(Created) <= Quota /\ GoOn(h, "key")
  /\ UNCHANGED <<status, key, fresh>>

CheckQuota(h) ==
  /\ pc[h] = "quota"
  /\ \/ Cardinality(Created) >= Quota /\ Respond(h, "quota_exceeded")
     \/ Cardinality(Created) < Quota /\ GoOn(h, "key")
  /\ UNCHANGED <<status, key, fresh>>

\* enqueue: the run of this key, whatever became of it and whatever its market.
FindKey(h) ==
  /\ pc[h] = "key"
  /\ \/ \E r \in WithKey(req[h].key) : Respond(h, r)
     \/ WithKey(req[h].key) = {} /\ GoOn(h, "active")
  /\ UNCHANGED <<status, key, fresh>>

FindActive(h) ==
  /\ pc[h] = "active"
  /\ \/ ActiveOf(req[h].market) # {} /\ Respond(h, "run_in_progress")
     \/ ActiveOf(req[h].market) = {} /\ GoOn(h, "insert")
  /\ UNCHANGED <<status, key, fresh>>

\* Variant: the row has a status outside the type run_status.
AcceptPending(h, r) ==
  /\ status' = [status EXCEPT ![r] = "pending"]
  /\ key' = [key EXCEPT ![r] = req[h].key]
  /\ Respond(h, r)
  /\ UNCHANGED fresh

Accept(h, r) ==
  /\ status' = [status EXCEPT ![r] = "queued"]
  /\ key' = [key EXCEPT ![r] = req[h].key]
  /\ Respond(h, r)
  /\ UNCHANGED fresh

\* Variant: without the index on the key.
InsertAnyKey(h) ==
  \E r \in Runs :
    /\ pc[h] = "insert" /\ ~Exists(r) /\ Market[r] = req[h].market
    /\ ActiveOf(req[h].market) = {}
    /\ Accept(h, r)

\* The INSERT and its commit; either unique index may refuse it.
Insert(h) ==
  \/ \E r \in Runs :
       /\ pc[h] = "insert" /\ ~Exists(r) /\ Market[r] = req[h].market
       /\ ActiveOf(req[h].market) = {} /\ WithKey(req[h].key) = {}
       /\ Accept(h, r)
  \/ /\ pc[h] = "insert"
     /\ ActiveOf(req[h].market) # {} \/ WithKey(req[h].key) # {}
     /\ Respond(h, "error")
     /\ UNCHANGED <<status, key, fresh>>

-----------------------------------------------------------------------------
(* Elsewhere: workers, cancellation, time.                                 *)

Dispatch ==
  /\ \E S \in SUBSET Runs, r \in Runs : Lifecycle!Dispatch(S, r)
  /\ UNCHANGED <<key, fresh, pc, req, answers>>

\* A run that has an outcome already may get another.
Settle ==
  /\ \E r \in Runs, outcome \in Outcomes :
       /\ Lifecycle!Settle(r, outcome)
       /\ LET others == RemoveFirst(fresh, r)
          IN fresh' = IF outcome \in Success THEN Append(others, r) ELSE others
  /\ UNCHANGED <<key, pc, req, answers>>

\* A run leaves the freshness window, or the live sources change.
Expire ==
  /\ \E i \in DOMAIN fresh : fresh' = RemoveAt(fresh, i)
  /\ UNCHANGED <<status, key, pc, req, answers>>

Serve(h) ==
  \/ Receive(h) \/ FindFresh(h) \/ CheckQuota(h) \/ FindKey(h)
  \/ FindActive(h) \/ Insert(h)

Next ==
  \/ \E h \in Handlers : Serve(h)
  \/ Dispatch \/ Settle \/ Expire

Spec == Init /\ [][Next]_vars

-----------------------------------------------------------------------------
\* A key is never given to two runs, however its requests are repeated or
\* race, and a run keeps its key.
OneRunPerKey ==
  \A q, r \in Runs :
    Exists(q) /\ Exists(r) /\ key[q] = key[r] /\ key[q] # NoKey => q = r

\* The quota is counted before the run is inserted, so requests that race
\* exceed it, but by fewer than there are threads.
QuotaOvershootBounded ==
  Cardinality(Created) <= Quota + Cardinality(Handlers) - 1

(* What the documents say and the code does not do.                        *)

\* 05-api-contract.md:153-154: the same key returns the same run_id.
SameKeySameRun == \A k \in Keys : \A r \in answers[k] \cap Runs : answers[k] = {r}
=============================================================================
