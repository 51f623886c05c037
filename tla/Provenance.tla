------------------------------ MODULE Provenance ------------------------------
(***************************************************************************)
(* Where the data of a run comes from, and who is told: the collectors of  *)
(* engine/collectors, the vendors stored with their evidence, the reuse of *)
(* fresh runs by start_run, and the labels of the report page and the list *)
(* of runs (app/routes.py, api/routes/runs.py).                            *)
(*                                                                         *)
(* The API and every worker have a collector mode of their own, so each    *)
(* request and each execution brings one.  An execution is one step, as    *)
(* OutcomeSpec of ExecuteRun allows, and a run may be executed again, by a *)
(* worker in another mode.                                                 *)
(***************************************************************************)
EXTENDS Naturals

CONSTANTS
  Runs, Market,      \* ids of research_runs rows, and the market of each
  Mapped,            \* markets with a keyword and a geo target for Google Ads
  Files,             \* by market and signal: what its fixture file gives
  MaxExecutions      \* bound: how often runs are executed

SignalKey == {"demand", "competition", "advertising", "density",
              "customer_value", "trends"}

\* What a collector brings: usable data, data without a value to score, a row that
\* says absent or error, or, having raised, no row at all.
Kinds == {"ok", "empty", "absent", "error", "raised"}
Markets == {Market[r] : r \in Runs}

ASSUME FilesAssumption == Files \in [Markets -> [SignalKey -> Kinds]]
ASSUME MaxExecutionsAssumption == MaxExecutions \in Nat

VARIABLES
  status,        \* research_runs.status: in flight never, failed when cancelled
  evidence,      \* by run, its evidence rows
  report,        \* by run, its stored report
  completed_at,  \* by successful run, the execution that completed it last;
                 \* 0 once it is outside the freshness window
  executions     \* how many there were

vars == <<status, evidence, report, completed_at, executions>>

FIXTURE_VENDOR == "fixture"
Vendors == {FIXTURE_VENDOR, "google_ads"}
Success == {"complete", "partial"}
REPORT_STATUSES == Success
Modes == {"fixture", "hybrid"}

Rows == [signal : SignalKey, vendor : Vendors, status : {"ok", "absent", "error"}]

\* scored: the vendor each sub-score rests on, which the payload does not hold.
Reports == [scored : [SignalKey -> Vendors \cup {"none"}],
            sources : SUBSET [signal : SignalKey, vendor : Vendors]]

TypeOK ==
  /\ status \in [Runs -> {"none", "queued", "failed"} \cup Success]
  /\ evidence \in [Runs -> SUBSET Rows]
  /\ report \in [Runs -> Reports]
  /\ completed_at \in [Runs -> 0 .. MaxExecutions]
  /\ executions \in 0 .. MaxExecutions

Init ==
  /\ status = [r \in Runs |-> "none"]
  /\ evidence = [r \in Runs |-> {}]
  /\ report = [r \in Runs |-> [scored |-> [s \in SignalKey |-> "none"], sources |-> {}]]
  /\ completed_at = [r \in Runs |-> 0]
  /\ executions = 0

-----------------------------------------------------------------------------
(* The collectors.                                                         *)

LiveSignals == {"demand", "customer_value", "advertising"}

\* An unsupported mode raises, in the worker as in the API.
build_collectors(mode) ==
  [s \in SignalKey |-> IF mode = "hybrid" /\ s \in LiveSignals THEN "google_ads"
                       ELSE FIXTURE_VENDOR]

live_sources(mode) ==
  LET vendor == build_collectors(mode)
  IN [s \in {t \in SignalKey : vendor[t] # FIXTURE_VENDOR} |-> vendor[s]]

\* Google's answer for one keyword, when it has one; else the client or the
\* collector raises.
DemandKinds(m) == IF m \in Mapped THEN {"ok", "raised"} ELSE {"absent"}

\* It may know no competition index.
AdvertisingKinds(m) == IF m \in Mapped THEN {"ok", "absent", "raised"} ELSE {"absent"}

\* The service or too much of its basket may be without a price.
MIN_BASKET_SIZE == 8
CustomerValueKinds(m) ==
  IF m \in Mapped
  THEN {"raised"} \cup {IF priced /\ basket >= MIN_BASKET_SIZE THEN "ok" ELSE "absent" :
                          priced \in BOOLEAN, basket \in 0 .. 11}
  ELSE {"absent"}

LiveKinds(m) ==
  [demand |-> DemandKinds(m), advertising |-> AdvertisingKinds(m),
   customer_value |-> CustomerValueKinds(m)]

\* What the collectors of a mode may bring.
Collections(mode, m) ==
  {[s \in SignalKey |-> IF s \in DOMAIN live THEN live[s] ELSE Files[m][s]] :
     live \in {f \in [DOMAIN live_sources(mode) -> {"ok", "absent", "raised"}] :
                 \A s \in DOMAIN f : f[s] \in LiveKinds(m)[s]}}

\* Variant: the kind is stored for the status.
StoredVerbatim(vendor, found) ==
  {[signal |-> s, vendor |-> vendor[s], status |-> found[s]] :
     s \in {t \in SignalKey : found[t] # "raised"}}

Stored(vendor, found) ==
  {[signal |-> s, vendor |-> vendor[s],
    status |-> IF found[s] = "empty" THEN "ok" ELSE found[s]] :
     s \in {t \in SignalKey : found[t] # "raised"}}

-----------------------------------------------------------------------------
(* An execution.                                                           *)

WEIGHTS == [demand |-> 25, competition |-> 20, customer_value |-> 20,
            density |-> 15, advertising |-> 10, trends |-> 10]

CoveredWeight(scored) ==
  LET weight(s) == IF s \in scored THEN WEIGHTS[s] ELSE 0
  IN weight("demand") + weight("competition") + weight("advertising")
       + weight("density") + weight("customer_value") + weight("trends")

\* Every vendor with an ok row of this run, whichever execution stored it.
Sources(r, rows) ==
  {[signal |-> e.signal, vendor |-> e.vendor] :
     e \in {x \in evidence[r] \cup rows : x.status = "ok"}}

\* Variant: scores whatever there is.
PublishUncovered(r, vendor, scored, rows) ==
  /\ status' = [status EXCEPT ![r] = IF scored = SignalKey THEN "complete" ELSE "partial"]
  /\ report' = [report EXCEPT ![r] =
       [scored |-> [s \in SignalKey |-> IF s \in scored THEN vendor[s] ELSE "none"],
        sources |-> Sources(r, rows)]]
  /\ completed_at' = [completed_at EXCEPT ![r] = executions + 1]

Publish(r, vendor, scored, rows) ==
  /\ 2 * CoveredWeight(scored) >= 100
  /\ status' = [status EXCEPT ![r] = IF scored = SignalKey THEN "complete" ELSE "partial"]
  /\ report' = [report EXCEPT ![r] =
       [scored |-> [s \in SignalKey |-> IF s \in scored THEN vendor[s] ELSE "none"],
        sources |-> Sources(r, rows)]]
  /\ completed_at' = [completed_at EXCEPT ![r] = executions + 1]

\* No result: an older report stays.
Fail(r) ==
  /\ status' = [status EXCEPT ![r] = "failed"]
  /\ completed_at' = [completed_at EXCEPT ![r] = 0]
  /\ UNCHANGED report

\* Too little evidence to score.
Decline(r, scored) == 2 * CoveredWeight(scored) < 100 /\ Fail(r)

\* A run queued since makes the unique index refuse the market's older runs.
Execute(r) ==
  \E mode \in Modes : \E found \in Collections(mode, Market[r]) :
    /\ status[r] # "none" /\ executions < MaxExecutions
    /\ \A q \in Runs \ {r} : Market[q] = Market[r] => status[q] # "queued"
    /\ LET vendor == build_collectors(mode)
           rows == Stored(vendor, found)
           scored == {s \in SignalKey : found[s] = "ok"}
       IN /\ evidence' = [evidence EXCEPT ![r] = @ \cup rows]
          /\ Publish(r, vendor, scored, rows) \/ Decline(r, scored)
    /\ executions' = executions + 1

\* An exception of the worker, as in an unsupported mode, or a cancel.
Abandon(r) ==
  /\ status[r] # "none"
  /\ Fail(r)
  /\ UNCHANGED <<evidence, executions>>

-----------------------------------------------------------------------------
(* A request.                                                              *)

\* No evidence of a required signal comes from another vendor.
Reusable(r, required) ==
  /\ status[r] \in Success
  /\ \A e \in evidence[r] : e.signal \in DOMAIN required => e.vendor = required[e.signal]

\* The newest of them, if any.
find_fresh_run(m, required) ==
  LET found == {r \in Runs : /\ Market[r] = m /\ completed_at[r] > 0
                             /\ Reusable(r, required)}
  IN {r \in found : \A q \in found : completed_at[q] <= completed_at[r]}

\* A run is queued when none can be reused, or the refresh is forced.
Request(m) ==
  \E mode \in Modes, force_refresh \in BOOLEAN, r \in Runs :
    /\ force_refresh \/ find_fresh_run(m, live_sources(mode)) = {}
    /\ Market[r] = m /\ status[r] = "none"
    /\ \A q \in Runs : Market[q] = m => status[q] # "queued"
    /\ status' = [status EXCEPT ![r] = "queued"]
    /\ UNCHANGED <<evidence, report, completed_at, executions>>

\* A run leaves the window, and those completed before it with it.
Expire ==
  \E r \in Runs :
    /\ completed_at[r] > 0
    /\ completed_at' = [q \in Runs |-> IF completed_at[q] > completed_at[r]
                                      THEN completed_at[q] ELSE 0]
    /\ UNCHANGED <<status, evidence, report, executions>>

Next ==
  \/ \E r \in Runs : Execute(r) \/ Abandon(r)
  \/ \E m \in Markets : Request(m)
  \/ Expire

Spec == Init /\ [][Next]_vars

-----------------------------------------------------------------------------
(* What readers are told.                                                  *)

\* Variant: a live source makes the data live.
DataModeOptimistic(vendors) ==
  IF "google_ads" \in vendors THEN "live" ELSE "example"

_data_mode(vendors) ==
  IF vendors = {} \/ vendors = {FIXTURE_VENDOR} THEN "example"
  ELSE IF FIXTURE_VENDOR \in vendors THEN "mixed" ELSE "live"

\* The report page: a report is served whatever became of its run since.
VendorsOf(r, s) == {x.vendor : x \in {y \in report[r].sources : y.signal = s}}
Scored(r) == {s \in SignalKey : report[r].scored[s] # "none"}
ReportMode(r) == _data_mode(UNION {VendorsOf(r, s) : s \in Scored(r)})
IsExample(r, s) == FIXTURE_VENDOR \in VendorsOf(r, s)

\* Variant: the list looks at what may be live only.
ListVendorsOfLive(r) ==
  {e.vendor : e \in {x \in evidence[r] : x.status = "ok" /\ x.signal \in LiveSignals}}

\* The list of runs looks at all evidence, and labels successful runs only.
ListVendors(r) == {e.vendor : e \in {x \in evidence[r] : x.status = "ok"}}
ListMode(r) == _data_mode(ListVendors(r))

-----------------------------------------------------------------------------
\* Whoever expects live data is never handed example data for it: what is reused
\* scores at least one live signal, and each it scores from its live source.
\* Runs whose live collectors all raised store nothing that gives them away; the
\* coverage that scoring requires keeps them out.
ReuseIsLive ==
  \A m \in Markets, mode \in Modes :
    LET required == live_sources(mode)
    IN \A r \in find_fresh_run(m, required) : DOMAIN required # {} =>
         /\ Scored(r) \cap DOMAIN required # {}
         /\ \A s \in Scored(r) \cap DOMAIN required : report[r].scored[s] = required[s]

\* However executions in different modes mix in one run, a score that rests on
\* example data is never shown as live, nor one on live data as an example.
LabelsAreHonest ==
  \A r \in Runs :
    /\ ReportMode(r) = "live" => \A s \in Scored(r) : report[r].scored[s] # FIXTURE_VENDOR
    /\ ReportMode(r) = "example" => \A s \in Scored(r) : report[r].scored[s] = FIXTURE_VENDOR
    /\ \A s \in Scored(r) : report[r].scored[s] = FIXTURE_VENDOR => IsExample(r, s)

\* The list reads the rows, the report page what was stored of them: the list never
\* promises more than the report it links to says.
ListAgreesWithReport ==
  \A r \in Runs : status[r] \in REPORT_STATUSES =>
    /\ ListMode(r) \in {"live", "example"} => ReportMode(r) = ListMode(r)
    /\ ReportMode(r) = "mixed" => ListMode(r) = "mixed"
=============================================================================
