-------------------------- MODULE Provenance_proofs --------------------------
(***************************************************************************)
(* Theorems about Provenance, for every set of runs and markets, every     *)
(* mapping of markets to Google Ads and every set of fixture files.        *)
(***************************************************************************)
EXTENDS Provenance, TLAPS

(* Every score names its vendor among the sources of its report.           *)
ScoresAreSourced ==
  \A r \in Runs : \A s \in Scored(r) :
    [signal |-> s, vendor |-> report[r].scored[s]] \in report[r].sources

(* A source of a report is a row that is still there: evidence only grows. *)
SourcesAreRows ==
  \A r \in Runs : \A x \in report[r].sources :
    \E e \in evidence[r] : e.signal = x.signal /\ e.vendor = x.vendor /\ e.status = "ok"

(* What succeeded covers half of the weight.                               *)
SuccessIsCovered ==
  \A r \in Runs : status[r] \in Success => 2 * CoveredWeight(Scored(r)) >= 100

Inv == TypeOK /\ ScoresAreSourced /\ SourcesAreRows /\ SuccessIsCovered

-----------------------------------------------------------------------------
(* What the collectors of a mode are and bring.                            *)

LEMMA CollectorVendors ==
  ASSUME NEW mode
  PROVE  build_collectors(mode) \in [SignalKey -> Vendors]
BY DEF build_collectors, Vendors, FIXTURE_VENDOR

LEMMA CollectedKinds ==
  ASSUME NEW mode, NEW m \in Markets, NEW found \in Collections(mode, m)
  PROVE  found \in [SignalKey -> Kinds]
<1>1. PICK live \in [DOMAIN live_sources(mode) -> {"ok", "absent", "raised"}] :
        found = [s \in SignalKey |-> IF s \in DOMAIN live THEN live[s] ELSE Files[m][s]]
  BY DEF Collections
<1>2. Files[m] \in [SignalKey -> Kinds]
  BY FilesAssumption
<1>3. QED
  BY <1>1, <1>2 DEF Kinds

LEMMA RowsStored ==
  ASSUME NEW vendor \in [SignalKey -> Vendors], NEW found \in [SignalKey -> Kinds]
  PROVE  /\ Stored(vendor, found) \subseteq Rows
         /\ \A s \in SignalKey : found[s] = "ok" =>
              \E e \in Stored(vendor, found) :
                e.signal = s /\ e.vendor = vendor[s] /\ e.status = "ok"
<1>1. Stored(vendor, found) \subseteq Rows
  BY DEF Stored, Rows, Kinds
<1>2. ASSUME NEW s \in SignalKey, found[s] = "ok"
      PROVE  \E e \in Stored(vendor, found) :
               e.signal = s /\ e.vendor = vendor[s] /\ e.status = "ok"
  <2>1. [signal |-> s, vendor |-> vendor[s], status |-> "ok"] \in Stored(vendor, found)
    BY <1>2 DEF Stored
  <2>2. QED
    BY <2>1
<1>3. QED
  BY <1>1, <1>2

\* The vendors the API requires in a mode are those its workers use in that mode.
LEMMA LiveSources ==
  ASSUME NEW mode \in Modes, DOMAIN live_sources(mode) # {}
  PROVE  /\ DOMAIN live_sources(mode) = LiveSignals
         /\ \A s \in LiveSignals : live_sources(mode)[s] = "google_ads"
<1>1. CASE mode = "hybrid"
  <2>1. {t \in SignalKey : build_collectors(mode)[t] # FIXTURE_VENDOR} = LiveSignals
    BY <1>1 DEF build_collectors, FIXTURE_VENDOR, LiveSignals, SignalKey
  <2>2. \A s \in LiveSignals : build_collectors(mode)[s] = "google_ads"
    BY <1>1 DEF build_collectors, LiveSignals, SignalKey
  <2>3. QED
    BY <2>1, <2>2 DEF live_sources
<1>2. CASE mode = "fixture"
  <2>1. {t \in SignalKey : build_collectors(mode)[t] # FIXTURE_VENDOR} = {}
    BY <1>2 DEF build_collectors, FIXTURE_VENDOR
  <2>2. QED
    BY <2>1 DEF live_sources
<1>3. QED
  BY <1>1, <1>2 DEF Modes

\* Without a live signal there is too little weight to score.
LEMMA LiveIsNeeded ==
  ASSUME NEW scored, 2 * CoveredWeight(scored) >= 100
  PROVE  scored \cap LiveSignals # {}
<1> SUFFICES ASSUME scored \cap LiveSignals = {}
             PROVE  2 * CoveredWeight(scored) < 100
  BY DEF CoveredWeight, WEIGHTS
<1>1. "demand" \notin scored /\ "customer_value" \notin scored /\ "advertising" \notin scored
  BY DEF LiveSignals
<1>2. QED
  BY <1>1 DEF CoveredWeight, WEIGHTS

-----------------------------------------------------------------------------
(* The invariant.                                                          *)

LEMMA InvInit == Init => Inv
<1> SUFFICES ASSUME Init
             PROVE  Inv
  OBVIOUS
<1>1. \A r \in Runs : Scored(r) = {} /\ report[r].sources = {} /\ status[r] = "none"
  BY DEF Init, Scored
<1>2. TypeOK
  BY MaxExecutionsAssumption DEF Init, TypeOK, Reports, Success
<1>3. QED
  BY <1>1, <1>2 DEF Inv, ScoresAreSourced, SourcesAreRows, SuccessIsCovered, Success

\* Publishing replaces a report by one that names all its vendors.
LEMMA PublishInv ==
  ASSUME Inv, NEW r \in Runs, NEW vendor \in [SignalKey -> Vendors],
         NEW found \in [SignalKey -> Kinds], executions < MaxExecutions,
         evidence' = [evidence EXCEPT ![r] = @ \cup Stored(vendor, found)],
         Publish(r, vendor, {s \in SignalKey : found[s] = "ok"}, Stored(vendor, found)),
         executions' = executions + 1
  PROVE  Inv'
<1> DEFINE rows == Stored(vendor, found)
           scored == {s \in SignalKey : found[s] = "ok"}
           sub == [s \in SignalKey |-> IF s \in scored THEN vendor[s] ELSE "none"]
           new == [scored |-> sub, sources |-> Sources(r, rows)]
<1>1. /\ rows \subseteq Rows
      /\ \A s \in scored : \E e \in rows : e.signal = s /\ e.vendor = vendor[s] /\ e.status = "ok"
  BY RowsStored
<1>2. /\ 2 * CoveredWeight(scored) >= 100
      /\ status' = [status EXCEPT ![r] = IF scored = SignalKey THEN "complete" ELSE "partial"]
      /\ report' = [report EXCEPT ![r] = new]
      /\ completed_at' = [completed_at EXCEPT ![r] = executions + 1]
  BY DEF Publish
<1>3. sub \in [SignalKey -> Vendors \cup {"none"}]
  OBVIOUS
<1>4. {s \in SignalKey : sub[s] # "none"} = scored
  BY DEF Vendors, FIXTURE_VENDOR
<1>5. \A s \in scored : sub[s] = vendor[s]
  OBVIOUS
<1> HIDE DEF rows, scored, sub
<1>6. evidence[r] \subseteq Rows /\ evidence' = [evidence EXCEPT ![r] = @ \cup rows]
  BY DEF Inv, TypeOK, rows
<1>7. Sources(r, rows) \subseteq [signal : SignalKey, vendor : Vendors]
  BY <1>1, <1>6 DEF Sources, Rows
<1>8. \A x \in Sources(r, rows) : \E e \in evidence[r] \cup rows :
        e.signal = x.signal /\ e.vendor = x.vendor /\ e.status = "ok"
  BY DEF Sources
<1>9. new \in Reports
  BY <1>3, <1>7 DEF Reports
<1>10. report'[r] = new /\ \A q \in Runs \ {r} : report'[q] = report[q]
  BY <1>2 DEF Inv, TypeOK
<1>11. evidence'[r] = evidence[r] \cup rows /\ \A q \in Runs \ {r} : evidence'[q] = evidence[q]
  BY <1>6 DEF Inv, TypeOK
<1>12. Scored(r)' = scored /\ \A q \in Runs \ {r} : Scored(q)' = Scored(q)
  BY <1>4, <1>10 DEF Scored
<1>13. TypeOK'
  <2>1. status' \in [Runs -> {"none", "queued", "failed"} \cup Success]
    BY <1>2 DEF Inv, TypeOK, Success
  <2>2. evidence' \in [Runs -> SUBSET Rows]
    BY <1>1, <1>6 DEF Inv, TypeOK
  <2>3. report' \in [Runs -> Reports]
    BY <1>2, <1>9 DEF Inv, TypeOK
  <2>4. executions' \in 0 .. MaxExecutions
    BY MaxExecutionsAssumption DEF Inv, TypeOK
  <2>5. completed_at' \in [Runs -> 0 .. MaxExecutions]
    BY <1>2, <2>4 DEF Inv, TypeOK
  <2>6. QED
    BY <2>1, <2>2, <2>3, <2>4, <2>5 DEF TypeOK
<1>14. ScoresAreSourced'
  <2>1. ASSUME NEW s \in scored
        PROVE  [signal |-> s, vendor |-> sub[s]] \in Sources(r, rows)
    <3>1. PICK e \in rows : e.signal = s /\ e.vendor = sub[s] /\ e.status = "ok"
      BY <1>1, <1>5
    <3>2. QED
      BY <3>1 DEF Sources
  <2>2. QED
    BY <1>10, <1>12, <2>1 DEF Inv, ScoresAreSourced
<1>15. SourcesAreRows'
  BY <1>8, <1>10, <1>11 DEF Inv, SourcesAreRows
<1>16. SuccessIsCovered'
  <2>1. \A q \in Runs \ {r} : status'[q] = status[q]
    BY <1>2 DEF Inv, TypeOK
  <2>2. QED
    BY <1>2, <1>12, <2>1 DEF Inv, SuccessIsCovered
<1>17. QED
  BY <1>13, <1>14, <1>15, <1>16 DEF Inv

\* A failure keeps the report, and evidence only grows.
LEMMA FailInv ==
  ASSUME Inv, NEW r \in Runs, NEW rows \in SUBSET Rows, Fail(r),
         evidence' = [evidence EXCEPT ![r] = @ \cup rows],
         executions' \in 0 .. MaxExecutions
  PROVE  Inv'
<1>1. /\ status' = [status EXCEPT ![r] = "failed"] /\ report' = report
      /\ completed_at' = [completed_at EXCEPT ![r] = 0]
  BY DEF Fail
<1>2. \A q \in Runs : Scored(q)' = Scored(q) /\ evidence[q] \subseteq evidence'[q]
  BY <1>1 DEF Scored, Inv, TypeOK
<1>3. TypeOK'
  <2>1. status' \in [Runs -> {"none", "queued", "failed"} \cup Success]
    BY <1>1 DEF Inv, TypeOK
  <2>2. evidence' \in [Runs -> SUBSET Rows]
    BY DEF Inv, TypeOK
  <2>3. completed_at' \in [Runs -> 0 .. MaxExecutions]
    BY <1>1, MaxExecutionsAssumption DEF Inv, TypeOK
  <2>4. QED
    BY <1>1, <2>1, <2>2, <2>3 DEF Inv, TypeOK
<1>4. ScoresAreSourced' /\ SourcesAreRows'
  BY <1>1, <1>2 DEF Inv, ScoresAreSourced, SourcesAreRows
<1>5. SuccessIsCovered'
  <2>1. \A q \in Runs : status'[q] \in Success => status[q] \in Success
    BY <1>1 DEF Inv, TypeOK, Success
  <2>2. QED
    BY <1>2, <2>1 DEF Inv, SuccessIsCovered
<1>6. QED
  BY <1>3, <1>4, <1>5 DEF Inv

LEMMA ExecuteInv ==
  ASSUME Inv, NEW r \in Runs, Execute(r)
  PROVE  Inv'
<1>1. PICK mode \in Modes : \E found \in Collections(mode, Market[r]) :
        /\ status[r] # "none" /\ executions < MaxExecutions
        /\ LET vendor == build_collectors(mode)
               rows == Stored(vendor, found)
               scored == {s \in SignalKey : found[s] = "ok"}
           IN /\ evidence' = [evidence EXCEPT ![r] = @ \cup rows]
              /\ Publish(r, vendor, scored, rows) \/ Decline(r, scored)
        /\ executions' = executions + 1
  BY DEF Execute
<1> DEFINE vendor == build_collectors(mode)
<1>2. PICK found \in Collections(mode, Market[r]) :
        /\ executions < MaxExecutions /\ executions' = executions + 1
        /\ evidence' = [evidence EXCEPT ![r] = @ \cup Stored(vendor, found)]
        /\ \/ Publish(r, vendor, {s \in SignalKey : found[s] = "ok"}, Stored(vendor, found))
           \/ Decline(r, {s \in SignalKey : found[s] = "ok"})
  BY <1>1
<1>3. Market[r] \in Markets
  BY DEF Markets
<1>4. found \in [SignalKey -> Kinds] /\ vendor \in [SignalKey -> Vendors]
  BY <1>3, CollectedKinds, CollectorVendors
<1> HIDE DEF vendor
<1>5. CASE Publish(r, vendor, {s \in SignalKey : found[s] = "ok"}, Stored(vendor, found))
  BY <1>2, <1>4, <1>5, PublishInv
<1>6. CASE Decline(r, {s \in SignalKey : found[s] = "ok"})
  <2>1. Fail(r)
    BY <1>6 DEF Decline
  <2>2. Stored(vendor, found) \subseteq Rows
    BY <1>4, RowsStored
  <2>3. executions' \in 0 .. MaxExecutions
    BY <1>2, MaxExecutionsAssumption DEF Inv, TypeOK
  <2>4. QED
    BY <1>2, <2>1, <2>2, <2>3, FailInv
<1>7. QED
  BY <1>2, <1>5, <1>6

LEMMA InvStep ==
  ASSUME Inv, [Next]_vars
  PROVE  Inv'
<1>1. ASSUME NEW r \in Runs, Execute(r)
      PROVE  Inv'
  BY <1>1, ExecuteInv
<1>2. ASSUME NEW r \in Runs, Abandon(r)
      PROVE  Inv'
  <2> DEFINE none == {}
  <2>1. evidence' = [evidence EXCEPT ![r] = @ \cup none] /\ none \in SUBSET Rows
    BY <1>2 DEF Abandon, Inv, TypeOK
  <2>2. Fail(r) /\ executions' \in 0 .. MaxExecutions
    BY <1>2 DEF Abandon, Inv, TypeOK
  <2> HIDE DEF none
  <2>3. QED
    BY <2>1, <2>2, FailInv
<1>3. ASSUME NEW m \in Markets, Request(m)
      PROVE  Inv'
  <2>1. PICK r \in Runs : status' = [status EXCEPT ![r] = "queued"]
    BY <1>3 DEF Request
  <2>2. evidence' = evidence /\ report' = report /\ completed_at' = completed_at
        /\ executions' = executions
    BY <1>3 DEF Request
  <2>3. \A q \in Runs : Scored(q)' = Scored(q)
    BY <2>2 DEF Scored
  <2>4. \A q \in Runs : status'[q] \in Success => status[q] \in Success
    BY <2>1 DEF Inv, TypeOK, Success
  <2>5. TypeOK'
    BY <2>1, <2>2 DEF Inv, TypeOK
  <2>6. QED
    BY <2>2, <2>3, <2>4, <2>5 DEF Inv, ScoresAreSourced, SourcesAreRows, SuccessIsCovered
<1>4. ASSUME Expire
      PROVE  Inv'
  <2>1. status' = status /\ evidence' = evidence /\ report' = report
        /\ executions' = executions
    BY <1>4 DEF Expire
  <2>2. completed_at' \in [Runs -> 0 .. MaxExecutions]
    BY <1>4, MaxExecutionsAssumption DEF Expire, Inv, TypeOK
  <2>3. \A q \in Runs : Scored(q)' = Scored(q)
    BY <2>1 DEF Scored
  <2>4. QED
    BY <2>1, <2>2, <2>3 DEF Inv, TypeOK, ScoresAreSourced, SourcesAreRows, SuccessIsCovered
<1>5. CASE UNCHANGED vars
  BY <1>5 DEF vars, Inv, TypeOK, ScoresAreSourced, SourcesAreRows, SuccessIsCovered, Scored
<1>6. QED
  BY <1>1, <1>2, <1>3, <1>4, <1>5 DEF Next

LEMMA InvCorrect == Spec => []Inv
BY InvInit, InvStep, PTL DEF Spec

\* The rows of the tables keep their types.
THEOREM TypeCorrect == Spec => []TypeOK
<1>1. Inv => TypeOK
  BY DEF Inv
<1>2. QED
  BY <1>1, InvCorrect, PTL

-----------------------------------------------------------------------------
(* What readers are told.                                                  *)

\* Who asks for live data is never handed example data in its place.
THEOREM ReuseLive == Spec => []ReuseIsLive
<1>1. Inv => ReuseIsLive
  <2> SUFFICES ASSUME Inv, NEW m \in Markets, NEW mode \in Modes,
                      NEW r \in find_fresh_run(m, live_sources(mode)),
                      DOMAIN live_sources(mode) # {}
               PROVE  /\ Scored(r) \cap DOMAIN live_sources(mode) # {}
                      /\ \A s \in Scored(r) \cap DOMAIN live_sources(mode) :
                           report[r].scored[s] = live_sources(mode)[s]
    BY DEF ReuseIsLive
  <2>1. r \in Runs /\ Reusable(r, live_sources(mode))
    BY DEF find_fresh_run
  <2>2. /\ DOMAIN live_sources(mode) = LiveSignals
        /\ \A s \in LiveSignals : live_sources(mode)[s] = "google_ads"
    BY LiveSources
  <2>3. status[r] \in Success
        /\ \A e \in evidence[r] : e.signal \in LiveSignals => e.vendor = "google_ads"
    BY <2>1, <2>2 DEF Reusable
  <2>4. Scored(r) \cap LiveSignals # {}
    BY <2>1, <2>3, LiveIsNeeded DEF Inv, SuccessIsCovered
  <2>5. ASSUME NEW s \in Scored(r) \cap LiveSignals
        PROVE  report[r].scored[s] = "google_ads"
    <3>1. [signal |-> s, vendor |-> report[r].scored[s]] \in report[r].sources
      BY <2>1 DEF Inv, ScoresAreSourced
    <3>2. \E e \in evidence[r] : e.signal = s /\ e.vendor = report[r].scored[s]
      BY <2>1, <3>1 DEF Inv, SourcesAreRows
    <3>3. QED
      BY <2>3, <3>2
  <2>6. QED
    BY <2>2, <2>4, <2>5
<1>2. QED
  BY <1>1, InvCorrect, PTL

\* The vendor of each score is among those its report page goes by.
LEMMA VendorIsShown ==
  ASSUME Inv, NEW r \in Runs, NEW s \in Scored(r)
  PROVE  /\ report[r].scored[s] \in VendorsOf(r, s)
         /\ report[r].scored[s] \in UNION {VendorsOf(r, t) : t \in Scored(r)}
<1>1. [signal |-> s, vendor |-> report[r].scored[s]] \in report[r].sources
  BY DEF Inv, ScoresAreSourced
<1>2. report[r].scored[s] \in VendorsOf(r, s)
  BY <1>1 DEF VendorsOf
<1>3. QED
  BY <1>2

\* No mixture of executions makes an example look live, or live data an example.
THEOREM LabelsHonest == Spec => []LabelsAreHonest
<1>1. Inv => LabelsAreHonest
  <2> SUFFICES ASSUME Inv, NEW r \in Runs, NEW s \in Scored(r)
               PROVE  /\ ReportMode(r) = "live" => report[r].scored[s] # FIXTURE_VENDOR
                      /\ ReportMode(r) = "example" => report[r].scored[s] = FIXTURE_VENDOR
                      /\ report[r].scored[s] = FIXTURE_VENDOR => IsExample(r, s)
    BY DEF LabelsAreHonest
  <2> DEFINE vendors == UNION {VendorsOf(r, t) : t \in Scored(r)}
  <2>1. report[r].scored[s] \in VendorsOf(r, s) /\ report[r].scored[s] \in vendors
    BY VendorIsShown
  <2>2. ReportMode(r) = _data_mode(vendors)
    BY DEF ReportMode
  <2> HIDE DEF vendors
  <2>3. QED
    BY <2>1, <2>2 DEF _data_mode, IsExample
<1>2. QED
  BY <1>1, InvCorrect, PTL

\* What the report page goes by is among what the list goes by.
LEMMA ListSeesReport ==
  ASSUME Inv, NEW r \in Runs
  PROVE  UNION {VendorsOf(r, s) : s \in Scored(r)} \subseteq ListVendors(r)
<1> SUFFICES ASSUME NEW s \in Scored(r), NEW v \in VendorsOf(r, s)
             PROVE  v \in ListVendors(r)
  OBVIOUS
<1>1. PICK x \in report[r].sources : x.vendor = v
  BY DEF VendorsOf
<1>2. \E e \in evidence[r] : e.vendor = v /\ e.status = "ok"
  BY <1>1 DEF Inv, SourcesAreRows
<1>3. QED
  BY <1>2 DEF ListVendors

\* The list never contradicts the report it links to.
THEOREM ListAgrees == Spec => []ListAgreesWithReport
<1>1. Inv => ListAgreesWithReport
  <2> SUFFICES ASSUME Inv, NEW r \in Runs, status[r] \in REPORT_STATUSES
               PROVE  /\ ListMode(r) \in {"live", "example"} => ReportMode(r) = ListMode(r)
                      /\ ReportMode(r) = "mixed" => ListMode(r) = "mixed"
    BY DEF ListAgreesWithReport
  <2> DEFINE shown == UNION {VendorsOf(r, s) : s \in Scored(r)}
             listed == ListVendors(r)
  <2>1. shown \subseteq listed
    BY ListSeesReport
  <2>2. shown # {}
    <3>1. 2 * CoveredWeight(Scored(r)) >= 100
      BY DEF Inv, SuccessIsCovered, REPORT_STATUSES
    <3>2. PICK s \in Scored(r) : TRUE
      BY <3>1, LiveIsNeeded
    <3>3. QED
      BY <3>2, VendorIsShown
  <2>3. ReportMode(r) = _data_mode(shown) /\ ListMode(r) = _data_mode(listed)
    BY DEF ReportMode, ListMode
  <2> HIDE DEF shown, listed
  <2>4. QED
    BY <2>1, <2>2, <2>3 DEF _data_mode
<1>2. QED
  BY <1>1, InvCorrect, PTL

=============================================================================
