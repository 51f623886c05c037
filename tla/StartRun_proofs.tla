--------------------------- MODULE StartRun_proofs ---------------------------
(***************************************************************************)
(* Theorems about StartRun, for every number of handlers, runs and keys.   *)
(***************************************************************************)
EXTENDS StartRun, FiniteSetTheorems, SequenceTheorems, WellFoundedInduction, TLAPS

(* Types of what the proofs need; a handler at work has a request.         *)
Typed ==
  /\ status \in [Runs -> Lifecycle!Statuses]
  /\ key \in [Runs -> Keys \cup {NoKey}]
  /\ pc \in [Handlers -> Statements]
  /\ req \in [Handlers -> Requests \cup {<<>>}]
  /\ \A h \in Handlers : pc[h] # "idle" => req[h] \in Requests

(* Handlers that passed the quota check and have not yet been answered.    *)
Admitted == {h \in Handlers : pc[h] \in {"key", "active", "insert"}}

(* Every created run, and every handler that may create one, was admitted  *)
(* when there were fewer than Quota: only then can the last of the handlers*)
(* have been counted in.                                                   *)
Counted == Cardinality(Created) + Cardinality(Admitted) <= Quota + Cardinality(Handlers) - 1

LEMMA LifecycleTypes ==
  /\ "none" \in Lifecycle!Statuses /\ "queued" \in Lifecycle!Statuses
  /\ "collecting" \in Lifecycle!Statuses
  /\ "none" \notin Lifecycle!Terminal
  /\ Outcomes \subseteq Lifecycle!Terminal
  /\ Lifecycle!Terminal \subseteq Lifecycle!Statuses
  BY OutcomesAssumption
     DEF Lifecycle!Statuses, Lifecycle!Active, Lifecycle!Queued, Lifecycle!InFlight,
         Lifecycle!Terminal

(* What a step does to the rows: a handler inserts one, or their statuses  *)
(* move and none appears or disappears.                                    *)
Inserts(h, r) ==
  /\ pc[h] = "insert" /\ ~Exists(r) /\ Market[r] = req[h].market
  /\ ActiveOf(req[h].market) = {} /\ WithKey(req[h].key) = {}
  /\ Accept(h, r)

Elsewhere == Dispatch \/ Settle \/ Expire

LEMMA ElsewhereKeeps ==
  ASSUME Typed, Elsewhere
  PROVE  /\ Typed'
         /\ Created' = Created
         /\ key' = key /\ pc' = pc /\ req' = req
         /\ \A r \in Runs : Exists(r)' = Exists(r)
<1>1. CASE Dispatch
  <2>1. PICK S \in SUBSET Runs, r \in Runs : Lifecycle!Dispatch(S, r)
    BY <1>1 DEF Dispatch
  <2>2. /\ \A q \in S : status[q] = "collecting"
        /\ status[r] = "queued" \/ r \in S
        /\ status' = [q \in Runs |-> IF q = r THEN "collecting"
                                     ELSE IF q \in S THEN "queued" ELSE status[q]]
    BY <2>1 DEF Lifecycle!Dispatch
  <2>3. status' \in [Runs -> Lifecycle!Statuses]
    BY <2>2, LifecycleTypes DEF Typed
  <2>4. \A q \in Runs : Exists(q)' = Exists(q)
    BY <2>2 DEF Exists, Typed
  <2> QED BY <1>1, <2>3, <2>4 DEF Dispatch, Typed, Created
<1>2. CASE Settle
  <2>1. PICK r \in Runs, outcome \in Outcomes : Lifecycle!Settle(r, outcome)
    BY <1>2 DEF Settle
  <2>2. status[r] # "none" /\ status' = [status EXCEPT ![r] = outcome]
    BY <2>1 DEF Lifecycle!Settle
  <2>3. status' \in [Runs -> Lifecycle!Statuses] /\ outcome # "none"
    BY <2>2, LifecycleTypes DEF Typed
  <2>4. \A q \in Runs : Exists(q)' = Exists(q)
    BY <2>2, <2>3 DEF Exists, Typed
  <2> QED BY <1>2, <2>3, <2>4 DEF Settle, Typed, Created
<1>3. CASE Expire
  BY <1>3 DEF Expire, Typed, Created, Exists
<1> QED BY <1>1, <1>2, <1>3 DEF Elsewhere

LEMMA ServeCases ==
  ASSUME Typed, NEW h \in Handlers, Serve(h)
  PROVE  /\ Typed'
         /\ \/ /\ UNCHANGED <<status, key>>
               /\ \/ pc' = [pc EXCEPT ![h] = "idle"]
                  \/ /\ pc[h] \in {"idle", "fresh"}
                     /\ \E s \in {"fresh", "quota"} : pc' = [pc EXCEPT ![h] = s]
                  \/ /\ pc[h] = "quota" /\ Cardinality(Created) < Quota
                     /\ pc' = [pc EXCEPT ![h] = "key"]
                  \/ /\ pc[h] \in {"key", "active"}
                     /\ \E s \in {"active", "insert"} : pc' = [pc EXCEPT ![h] = s]
            \/ \E r \in Runs : Inserts(h, r)
<1> USE DEF Typed, Statements
<1>1. CASE Receive(h)
  <2>1. PICK q \in Requests :
          /\ pc[h] = "idle"
          /\ req' = [req EXCEPT ![h] = q]
          /\ pc' = [pc EXCEPT ![h] = IF q.force THEN "quota" ELSE "fresh"]
          /\ UNCHANGED <<status, key, fresh, answers>>
    BY <1>1 DEF Receive
  <2> QED BY <2>1
<1> DEFINE Answered == /\ pc' = [pc EXCEPT ![h] = "idle"]
                       /\ req' = [req EXCEPT ![h] = <<>>]
<1>0. ASSUME NEW a, Respond(h, a) PROVE Answered
  BY <1>0 DEF Respond
<1>2. CASE FindFresh(h)
  BY <1>0, <1>2 DEF FindFresh, GoOn
<1>3. CASE CheckQuota(h)
  BY <1>0, <1>3 DEF CheckQuota, GoOn
<1>4. CASE FindKey(h)
  BY <1>0, <1>4 DEF FindKey, GoOn
<1>5. CASE FindActive(h)
  BY <1>0, <1>5 DEF FindActive, GoOn
<1>6. CASE Insert(h)
  <2>1. CASE \E r \in Runs : Inserts(h, r)
    <3>1. PICK r \in Runs : Inserts(h, r)
      BY <2>1
    <3>2. /\ status' = [status EXCEPT ![r] = "queued"]
          /\ key' = [key EXCEPT ![r] = req[h].key]
          /\ Answered
      BY <3>1 DEF Inserts, Accept, Respond
    <3>3. req[h].key \in Keys \cup {NoKey}
      BY <3>1 DEF Inserts, Requests
    <3> QED BY <3>1, <3>2, <3>3, LifecycleTypes
  <2>2. CASE ~\E r \in Runs : Inserts(h, r)
    BY <1>0, <1>6, <2>2 DEF Insert, Inserts
  <2> QED BY <2>1, <2>2
<1> QED BY <1>1, <1>2, <1>3, <1>4, <1>5, <1>6 DEF Serve

LEMMA TypedStep == Typed /\ [Next]_vars => Typed'
<1> SUFFICES ASSUME Typed, [Next]_vars PROVE Typed'
  OBVIOUS
<1>1. ASSUME NEW h \in Handlers, Serve(h) PROVE Typed'
  BY <1>1, ServeCases
<1>2. CASE Elsewhere
  BY <1>2, ElsewhereKeeps
<1>3. CASE UNCHANGED vars
  BY <1>3 DEF vars, Typed
<1> QED BY <1>1, <1>2, <1>3 DEF Next, Elsewhere

LEMMA TypedInit == Init => Typed
  BY LifecycleTypes DEF Init, Typed, Statements, Lifecycle!Init

THEOREM TypedCorrect == Spec => []Typed
<1> QED BY TypedInit, TypedStep, PTL DEF Spec

-----------------------------------------------------------------------------
(* The list of fresh runs.                                                 *)

LEMMA LeastExists ==
  ASSUME NEW S \in SUBSET Nat, S # {}
  PROVE  Min(S) \in S
<1>1. PICK x \in S : \A y \in S : <<y, x>> \notin OpToRel(<, Nat)
  BY NatLessThanWellFounded, WFMin
<1>2. \A y \in S : x <= y
  <2> SUFFICES ASSUME NEW y \in S PROVE x <= y
    OBVIOUS
  <2>1. ~(y < x)
    BY <1>1 DEF OpToRel
  <2> QED BY <2>1
<1> QED BY <1>2 DEF Min

LEMMA RemoveAtList ==
  ASSUME NEW list \in Seq(Runs), Listed(list), NEW i \in DOMAIN list
  PROVE  /\ RemoveAt(list, i) \in Seq(Runs)
         /\ Listed(RemoveAt(list, i))
         /\ \A k \in DOMAIN RemoveAt(list, i) : RemoveAt(list, i)[k] # list[i]
<1> DEFINE n == Len(list)
           left == SubSeq(list, 1, i - 1)
           right == SubSeq(list, i + 1, n)
           rest == RemoveAt(list, i)
<1>1. n \in Nat /\ DOMAIN list = 1 .. n /\ i \in 1 .. n /\ \A k \in 1 .. n : list[k] \in Runs
  BY LenProperties, ElementOfSeq
<1> HIDE DEF n
<1>2. /\ left \in Seq(Runs) /\ Len(left) = i - 1
      /\ \A k \in 1 .. i - 1 : left[k] = list[k]
  BY <1>1, SubSeqProperties
<1>3. /\ right \in Seq(Runs) /\ Len(right) = n - i
      /\ \A k \in 1 .. n - i : right[k] = list[k + i]
  <2>1. i \in Int /\ n \in Int /\ i + 1 \in Int /\ \A k \in i + 1 .. n : list[k] \in Runs
    BY <1>1
  <2>2. /\ right \in Seq(Runs)
        /\ Len(right) = IF i + 1 <= n THEN n - (i + 1) + 1 ELSE 0
        /\ \A k \in 1 .. n - (i + 1) + 1 : right[k] = list[(i + 1) + k - 1]
    BY <2>1, SubSeqProperties
  <2> HIDE DEF right
  <2>3. Len(right) = n - i
    BY <1>1, <2>2
  <2>4. ASSUME NEW k \in 1 .. n - i PROVE right[k] = list[k + i]
    <3>1. k \in 1 .. n - (i + 1) + 1 /\ (i + 1) + k - 1 = k + i
      BY <1>1
    <3> QED BY <2>2, <3>1
  <2> QED BY <2>2, <2>3, <2>4
<1>4. rest = left \o right
  BY DEF RemoveAt, n
<1> HIDE DEF left, right, rest
<1>5. /\ rest \in Seq(Runs) /\ Len(rest) = n - 1
      /\ \A k \in 1 .. n - 1 : rest[k] = IF k < i THEN list[k] ELSE list[k + 1]
  <2>1. /\ rest \in Seq(Runs) /\ Len(rest) = (i - 1) + (n - i)
        /\ \A k \in 1 .. (i - 1) + (n - i) :
             rest[k] = IF k <= i - 1 THEN left[k] ELSE right[k - (i - 1)]
    BY <1>2, <1>3, <1>4, ConcatProperties
  <2>2. Len(rest) = n - 1
    BY <1>1, <2>1
  <2>3. ASSUME NEW k \in 1 .. n - 1
        PROVE  rest[k] = IF k < i THEN list[k] ELSE list[k + 1]
    <3>1. k \in 1 .. (i - 1) + (n - i)
      BY <1>1
    <3>2. CASE k < i
      <4>1. k <= i - 1 /\ k \in 1 .. i - 1
        BY <1>1, <3>2
      <4> QED BY <1>2, <2>1, <3>1, <3>2, <4>1
    <3>3. CASE ~(k < i)
      <4>1. ~(k <= i - 1) /\ k - (i - 1) \in 1 .. n - i /\ k - (i - 1) + i = k + 1
        BY <1>1, <3>3
      <4>2. right[k - (i - 1)] = list[k + 1]
        BY <1>3, <4>1
      <4> QED BY <2>1, <3>1, <3>3, <4>1, <4>2
    <3> QED BY <3>2, <3>3
  <2> QED BY <2>1, <2>2, <2>3
<1>6. DOMAIN rest = 1 .. n - 1
  BY <1>1, <1>5, LenProperties
<1> DEFINE place(k) == IF k < i THEN k ELSE k + 1
<1>7. \A k \in 1 .. n - 1 : place(k) \in 1 .. n /\ place(k) # i /\ rest[k] = list[place(k)]
  BY <1>1, <1>5
<1>8. \A j, k \in 1 .. n - 1 : place(j) = place(k) => j = k
  BY <1>1
<1> HIDE DEF place
<1>9. \A j, k \in 1 .. n : list[j] = list[k] => j = k
  BY <1>1 DEF Listed
<1>10. \A k \in 1 .. n - 1 : rest[k] # list[i]
  BY <1>1, <1>7, <1>9
<1>11. \A j, k \in 1 .. n - 1 : rest[j] = rest[k] => j = k
  BY <1>7, <1>8, <1>9
<1> QED BY <1>5, <1>6, <1>10, <1>11 DEF Listed, rest

LEMMA RemoveFirstList ==
  ASSUME NEW list \in Seq(Runs), Listed(list), NEW r \in Runs
  PROVE  /\ RemoveFirst(list, r) \in Seq(Runs)
         /\ Listed(RemoveFirst(list, r))
         /\ \A k \in DOMAIN RemoveFirst(list, r) : RemoveFirst(list, r)[k] # r
<1>1. DOMAIN list = 1 .. Len(list) /\ Len(list) \in Nat
  BY LenProperties
<1>2. CASE \E i \in 1 .. Len(list) : list[i] = r
  <2> DEFINE I == {i \in 1 .. Len(list) : list[i] = r}
  <2>1. I \in SUBSET Nat /\ I # {}
    BY <1>1, <1>2
  <2>2. Min(I) \in I
    BY <2>1, LeastExists
  <2>3. RemoveFirst(list, r) = RemoveAt(list, Min(I))
    BY <1>2, <2>1 DEF RemoveFirst, SelectInSeq
  <2>4. Min(I) \in DOMAIN list /\ list[Min(I)] = r
    BY <1>1, <2>2
  <2> QED BY <2>3, <2>4, RemoveAtList
<1>3. CASE ~\E i \in 1 .. Len(list) : list[i] = r
  BY <1>1, <1>3 DEF RemoveFirst
<1> QED BY <1>2, <1>3

LEMMA AppendList ==
  ASSUME NEW list \in Seq(Runs), Listed(list), NEW r \in Runs,
         \A k \in DOMAIN list : list[k] # r
  PROVE  Append(list, r) \in Seq(Runs) /\ Listed(Append(list, r))
<1>1. /\ Len(list) \in Nat /\ DOMAIN list = 1 .. Len(list)
      /\ Append(list, r) \in Seq(Runs)
      /\ Len(Append(list, r)) = Len(list) + 1
      /\ \A i \in 1 .. Len(list) : Append(list, r)[i] = list[i]
      /\ Append(list, r)[Len(list) + 1] = r
  BY LenProperties, AppendProperties
<1>2. DOMAIN Append(list, r) = 1 .. Len(list) + 1
  BY <1>1, LenProperties
<1> DEFINE longer == Append(list, r)
<1> HIDE DEF longer
<1>3. \A j, k \in 1 .. Len(list) + 1 : longer[j] = longer[k] => j = k
  BY <1>1 DEF Listed, longer
<1> QED BY <1>1, <1>2, <1>3 DEF Listed, longer

(* What a step does to the answers and to the list.                        *)
LEMMA RespondAnswers ==
  ASSUME TypeOK, NEW h \in Handlers, NEW a \in Answers, Respond(h, a)
  PROVE  answers' \in [Keys -> SUBSET Answers]
BY DEF TypeOK, Respond

LEMMA ServeLists ==
  ASSUME TypeOK, Typed, NEW h \in Handlers, Serve(h)
  PROVE  fresh' = fresh /\ answers' \in [Keys -> SUBSET Answers]
<1>0. {"quota_exceeded", "run_in_progress", "error"} \subseteq Answers /\ Runs \subseteq Answers
  BY DEF Answers
<1>1. CASE Receive(h)
  BY <1>1 DEF Receive, TypeOK
<1>2. CASE FindFresh(h)
  <2>1. \A i \in FreshOf(req[h].market) : fresh[i] \in Runs
    BY LenProperties, ElementOfSeq DEF FreshOf, TypeOK
  <2> QED BY <1>0, <1>2, <2>1, RespondAnswers DEF FindFresh, GoOn, TypeOK
<1>3. CASE CheckQuota(h)
  BY <1>0, <1>3, RespondAnswers DEF CheckQuota, GoOn, TypeOK
<1>4. CASE FindKey(h)
  BY <1>0, <1>4, RespondAnswers DEF FindKey, GoOn, TypeOK, WithKey
<1>5. CASE FindActive(h)
  BY <1>0, <1>5, RespondAnswers DEF FindActive, GoOn, TypeOK
<1>6. CASE Insert(h)
  BY <1>0, <1>6, RespondAnswers DEF Insert, Accept, TypeOK
<1> QED BY <1>1, <1>2, <1>3, <1>4, <1>5, <1>6 DEF Serve

LEMMA ElsewhereLists ==
  ASSUME TypeOK, Elsewhere
  PROVE  fresh' \in Seq(Runs) /\ Listed(fresh') /\ answers' = answers
<1>1. CASE Dispatch
  BY <1>1 DEF Dispatch, TypeOK
<1>2. CASE Settle
  <2>1. PICK r \in Runs, outcome \in Outcomes :
          LET others == RemoveFirst(fresh, r)
          IN fresh' = IF outcome \in Success THEN Append(others, r) ELSE others
    BY <1>2 DEF Settle
  <2> QED BY <1>2, <2>1, RemoveFirstList, AppendList DEF Settle, TypeOK
<1>3. CASE Expire
  BY <1>3, RemoveAtList DEF Expire, TypeOK
<1> QED BY <1>1, <1>2, <1>3 DEF Elsewhere

(* Every table, request and answer keeps its type, and the list of runs     *)
(* that find_fresh_run may return never holds one twice, although a run    *)
(* can get a second outcome while it is in the list.                       *)
THEOREM TypeCorrect == Spec => []TypeOK
<1>1. Init => TypeOK
  <2> SUFFICES ASSUME Init PROVE TypeOK
    OBVIOUS
  <2>1. fresh \in Seq(Runs) /\ Listed(fresh)
    BY EmptySeq DEF Init, Listed
  <2> QED BY <2>1, TypedInit DEF Init, Typed, TypeOK
<1>2. TypeOK /\ Typed /\ [Next]_vars => TypeOK'
  <2> SUFFICES ASSUME TypeOK, Typed, [Next]_vars PROVE TypeOK'
    OBVIOUS
  <2>0. Typed'
    BY TypedStep
  <2>1. ASSUME NEW h \in Handlers, Serve(h) PROVE TypeOK'
    <3>1. fresh' = fresh /\ answers' \in [Keys -> SUBSET Answers]
      BY <2>1, ServeLists
    <3> QED BY <2>0, <3>1 DEF TypeOK, Typed
  <2>2. CASE Elsewhere
    <3>1. fresh' \in Seq(Runs) /\ Listed(fresh') /\ answers' = answers
      BY <2>2, ElsewhereLists
    <3> QED BY <2>0, <3>1 DEF TypeOK, Typed
  <2>3. CASE UNCHANGED vars
    BY <2>3 DEF vars, TypeOK
  <2> QED BY <2>1, <2>2, <2>3 DEF Next, Elsewhere
<1> QED BY <1>1, <1>2, TypedCorrect, PTL DEF Spec

-----------------------------------------------------------------------------
(* An idempotency key is never given to two runs (enqueue and the index     *)
(* research_runs_idem_idx), however requests repeat or race.               *)
THEOREM KeyIsUnique == Spec => []OneRunPerKey
<1>1. Init => OneRunPerKey
  BY DEF Init, OneRunPerKey, Exists, Lifecycle!Init
<1>2. Typed /\ OneRunPerKey /\ [Next]_vars => OneRunPerKey'
  <2> SUFFICES ASSUME Typed, OneRunPerKey, [Next]_vars PROVE OneRunPerKey'
    OBVIOUS
  <2>1. ASSUME NEW h \in Handlers, NEW r \in Runs, Inserts(h, r) PROVE OneRunPerKey'
    <3>1. /\ status' = [status EXCEPT ![r] = "queued"]
          /\ key' = [key EXCEPT ![r] = req[h].key]
          /\ WithKey(req[h].key) = {}
      BY <2>1 DEF Inserts, Accept
    <3>2. \A q \in Runs \ {r} : status'[q] = status[q] /\ key'[q] = key[q]
      BY <3>1 DEF Typed
    <3>3. key'[r] = req[h].key
      BY <3>1 DEF Typed
    <3>4. \A q \in Runs \ {r} : Exists(q) /\ key[q] = key'[r] => key'[r] = NoKey
      BY <3>1, <3>3 DEF WithKey
    <3> QED BY <3>2, <3>4 DEF OneRunPerKey, Exists
  <2>2. ASSUME NEW h \in Handlers, Serve(h) PROVE OneRunPerKey'
    <3>1. CASE UNCHANGED <<status, key>>
      BY <3>1 DEF OneRunPerKey, Exists
    <3> QED BY <2>1, <2>2, <3>1, ServeCases
  <2>3. CASE Elsewhere
    BY <2>3, ElsewhereKeeps DEF OneRunPerKey
  <2>4. CASE UNCHANGED vars
    BY <2>4 DEF vars, OneRunPerKey, Exists
  <2> QED BY <2>2, <2>3, <2>4 DEF Next, Elsewhere
<1> QED BY <1>1, <1>2, TypedCorrect, PTL DEF Spec

-----------------------------------------------------------------------------
LEMMA FiniteRows ==
  /\ IsFiniteSet(Created) /\ Cardinality(Created) \in Nat
  /\ IsFiniteSet(Admitted) /\ Cardinality(Admitted) \in Nat
  /\ Cardinality(Admitted) <= Cardinality(Handlers) /\ Cardinality(Handlers) \in Nat
<1>1. Created \subseteq Runs /\ Admitted \subseteq Handlers
  BY DEF Created, Admitted
<1> QED BY <1>1, RunsAssumption, HandlersAssumption, FS_Subset, FS_CardinalityType

LEMMA FiniteRowsNext ==
  /\ IsFiniteSet(Created') /\ Cardinality(Created') \in Nat
  /\ IsFiniteSet(Admitted') /\ Cardinality(Admitted') \in Nat
  /\ Cardinality(Admitted') <= Cardinality(Handlers)
<1>1. Created' \subseteq Runs /\ Admitted' \subseteq Handlers
  BY DEF Created, Admitted
<1> QED BY <1>1, RunsAssumption, HandlersAssumption, FS_Subset, FS_CardinalityType

(* A step that inserts no row keeps the count, unless it admits a handler  *)
(* while there are fewer runs than the quota.                              *)
LEMMA CountedWithoutInsert ==
  ASSUME Typed, Counted, NEW h \in Handlers, Serve(h), UNCHANGED <<status, key>>
  PROVE  Counted'
<1>0. Created' = Created
  BY DEF Created, Exists
<1>1. ASSUME Admitted' \subseteq Admitted PROVE Counted'
  <2>1. Cardinality(Admitted') <= Cardinality(Admitted)
    BY <1>1, FiniteRows, FS_Subset
  <2> HIDE DEF Created, Admitted
  <2> QED BY <1>0, <2>1, FiniteRows, FiniteRowsNext, QuotaAssumption DEF Counted
<1>2. CASE pc' = [pc EXCEPT ![h] = "idle"]
  BY <1>1, <1>2 DEF Admitted, Typed
<1>3. CASE pc[h] \in {"idle", "fresh"} /\ \E s \in {"fresh", "quota"} : pc' = [pc EXCEPT ![h] = s]
  BY <1>1, <1>3 DEF Admitted, Typed
<1>4. CASE pc[h] = "quota" /\ Cardinality(Created) < Quota /\ pc' = [pc EXCEPT ![h] = "key"]
  <2>1. Cardinality(Created) + Cardinality(Handlers) <= Quota + Cardinality(Handlers) - 1
    BY <1>4, FiniteRows, QuotaAssumption
  <2> QED BY <1>0, <2>1, FiniteRows, FiniteRowsNext, QuotaAssumption DEF Counted
<1>5. CASE pc[h] \in {"key", "active"} /\ \E s \in {"active", "insert"} : pc' = [pc EXCEPT ![h] = s]
  BY <1>1, <1>5 DEF Admitted, Typed
<1>6. ASSUME NEW r \in Runs, Inserts(h, r) PROVE FALSE
  BY <1>6, LifecycleTypes DEF Inserts, Accept, Exists, Typed
<1> QED BY <1>2, <1>3, <1>4, <1>5, <1>6, ServeCases

(* An INSERT turns one admitted handler into one row.                      *)
LEMMA CountedInsert ==
  ASSUME Typed, Counted, NEW h \in Handlers, NEW r \in Runs, Inserts(h, r)
  PROVE  Counted'
<1>1. /\ pc[h] = "insert" /\ status[r] = "none"
      /\ status' = [status EXCEPT ![r] = "queued"]
      /\ pc' = [pc EXCEPT ![h] = "idle"]
  BY DEF Inserts, Accept, Respond, Exists
<1>2. Created' = Created \cup {r} /\ r \notin Created
  BY <1>1 DEF Created, Exists, Typed
<1>3. Admitted' = Admitted \ {h} /\ h \in Admitted
  BY <1>1 DEF Admitted, Typed
<1>4. Cardinality(Created') = Cardinality(Created) + 1
  BY <1>2, FiniteRows, FS_AddElement
<1>5. Cardinality(Admitted') = Cardinality(Admitted) - 1
  BY <1>3, FiniteRows, FS_RemoveElement
<1> QED BY <1>4, <1>5, FiniteRows, QuotaAssumption DEF Counted

LEMMA CountedStep == Typed /\ Counted /\ [Next]_vars => Counted'
<1> SUFFICES ASSUME Typed, Counted, [Next]_vars PROVE Counted'
  OBVIOUS
<1>1. ASSUME NEW h \in Handlers, Serve(h) PROVE Counted'
  <2>1. CASE UNCHANGED <<status, key>>
    BY <1>1, <2>1, CountedWithoutInsert
  <2>2. ASSUME NEW r \in Runs, Inserts(h, r) PROVE Counted'
    BY <2>2, CountedInsert
  <2> QED BY <1>1, <2>1, <2>2, ServeCases
<1>2. CASE Elsewhere
  <2>1. Created' = Created /\ Admitted' = Admitted
    BY <1>2, ElsewhereKeeps DEF Admitted
  <2> QED BY <2>1 DEF Counted
<1>3. CASE UNCHANGED vars
  BY <1>3 DEF vars, Counted, Created, Exists, Admitted
<1> QED BY <1>1, <1>2, <1>3 DEF Next, Elsewhere

(* The monthly quota is exceeded by fewer runs than there are threads       *)
(* (_quota_used is read before the INSERT, without a lock).                *)
THEOREM QuotaNearlyHolds == Spec => []QuotaOvershootBounded
<1>1. Init => Counted
  <2> SUFFICES ASSUME Init PROVE Counted
    OBVIOUS
  <2>1. Created = {} /\ Admitted = {}
    BY DEF Init, Created, Exists, Admitted, Lifecycle!Init
  <2>2. Cardinality(Handlers) \in Nat /\ Cardinality(Handlers) # 0
    BY HandlersAssumption, FS_CardinalityType, FS_EmptySet
  <2> QED BY <2>1, <2>2, QuotaAssumption, FS_EmptySet DEF Counted
<1>2. Counted => QuotaOvershootBounded
  BY FiniteRows, QuotaAssumption DEF Counted, QuotaOvershootBounded
<1> QED BY <1>1, <1>2, CountedStep, TypedCorrect, PTL DEF Spec

=============================================================================
