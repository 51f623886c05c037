------------------------------ MODULE Normalise ------------------------------
(***************************************************************************)
(* normalise of engine/signals/normalise.py, between the payloads of the   *)
(* collectors and compute of Scoring: how searches, advertisers, listings  *)
(* and prices become the readings of the six signals.                      *)
(*                                                                         *)
(* Payloads are merged already (_merge) and keep the keys the normalisers  *)
(* read, in integers: shares in hundredths, growth and slopes in           *)
(* thousandths, prices in cents, residents in thousands.  Ln is a table of *)
(* the natural logarithm.  Results are in Scoring's units.                 *)
(*                                                                         *)
(* A market's next run finds another payload for one signal, or none.      *)
(***************************************************************************)
EXTENDS Scoring

CONSTANTS
  Payloads,       \* by signal, what its collector may return
  Populations,    \* what locations.population may hold; 0 also stands for null
  Ln              \* natural logarithms, to one scale

Null == -1

ASSUME LnAssumption ==
  /\ Ln \in [DOMAIN Ln -> Nat] /\ DOMAIN Ln \subseteq Nat \ {0}
  /\ \A a, b \in DOMAIN Ln : a < b => Ln[a] < Ln[b]
  /\ {1, 2, 5, 61, 100, 400, 50000} \subseteq DOMAIN Ln
  /\ Ln[1] = 0

ASSUME PopulationsAssumption == Populations \subseteq Nat

VARIABLES
  collected,      \* the payloads of the latest run, by signal that has any
  population      \* of the market's location

marketVars == <<collected, population, signals, result>>

-----------------------------------------------------------------------------
get(p, key, default) == IF key \in DOMAIN p THEN p[key] ELSE default

\* The numbers a source gives: counts are not negative, a share is a share.
WellFormed(s, p) ==
  CASE s = "demand" -> get(p, "monthly_searches", 0) \in {0} \cup DOMAIN Ln
    [] s = "competition" ->
         /\ get(p, "aggregator_share", 50) \in 0 .. 100
         /\ get(p, "paid_slots", 0) \in Nat /\ get(p, "distinct_domains", 10) \in Nat
    [] s = "advertising" ->
         /\ {"competition_index", "advertiser_count"} \cap DOMAIN p # {}
         /\ get(p, "competition_index", Null) \in Nat \cup {Null}
         /\ get(p, "advertiser_count", 0) + 1 \in DOMAIN Ln
         /\ get(p, "advertiser_growth_90d", 0) \in Int
    [] s = "density" -> get(p, "business_count", 0) \in {0} \cup DOMAIN Ln
    [] s = "customer_value" ->
         /\ get(p, "cpc", 0) \in {0} \cup DOMAIN Ln
         /\ get(p, "cpc_basket_median", 0) \in {0} \cup DOMAIN Ln
    [] s = "trends" -> get(p, "yoy_slope", 0) \in Int

ASSUME PayloadsAssumption == \A s \in SignalKey : \A p \in Payloads[s] : WellFormed(s, p)

Clamp(v, lo, hi) == IF v < lo THEN lo ELSE IF v > hi THEN hi ELSE v
Points(v) == Clamp(v, 0, 10000)

LogScale(value, floor, ceiling) ==
  IF value <= floor THEN 0
  ELSE Points(Nearest(10000 * (Ln[value] - Ln[floor]), Ln[ceiling] - Ln[floor]))

reading(score, confidence, declining) ==
  [scored |-> TRUE, score |-> score, confidence |-> confidence, declining |-> declining]

Demand(p) == reading(LogScale(get(p, "monthly_searches", 0), 100, 50000), 900, FALSE)

\* Variant: a high sub-score for strong competition.
CompetitionInverted(p) ==
  LET difficulty == 50 * get(p, "aggregator_share", 50)
                    + 750 * Clamp(get(p, "paid_slots", 0), 0, 4)
                    + 200 * (10 - Clamp(get(p, "distinct_domains", 10), 0, 10))
  IN reading(Points(difficulty), 750, FALSE)

\* Higher is easier to enter.
Competition(p) ==
  LET difficulty == 50 * get(p, "aggregator_share", 50)
                    + 750 * Clamp(get(p, "paid_slots", 0), 0, 4)
                    + 200 * (10 - Clamp(get(p, "distinct_domains", 10), 0, 10))
  IN reading(Points(10000 - difficulty), 750, FALSE)

\* The inverted U over a position in thousandths, with its peak at 550.
Peak(position) ==
  LET distance == position - 550
  IN Points(Nearest(4 * (302500 - distance * distance), 121))

\* Variant: as sure as a count of advertisers.
SlotFillSure(p) ==
  IF p.competition_index = Null THEN unavailable
  ELSE reading(Peak(Clamp(10 * p.competition_index, 0, 1000)), 700, FALSE)

SlotFill(p) ==
  IF p.competition_index = Null THEN unavailable
  ELSE reading(Peak(Clamp(10 * p.competition_index, 0, 1000)), 600, FALSE)

Advertising(p) ==
  IF "competition_index" \in DOMAIN p /\ "advertiser_count" \notin DOMAIN p
  THEN SlotFill(p)
  ELSE LET growth == get(p, "advertiser_growth_90d", 0)
           position == Nearest(1000 * Ln[get(p, "advertiser_count", 0) + 1], Ln[61])
           momentum == Clamp(10 * growth, -1500, 1500)
       IN reading(Points(Peak(position) + momentum), 700, growth < -50)

\* Per 10,000 residents, half-saturated at 0.5; else by the count alone.
Density(p, residents) ==
  LET count == get(p, "business_count", 0)
  IN IF residents # 0
     THEN reading(Nearest(200000 * count, 20 * count + residents), 800, FALSE)
     ELSE reading(LogScale(count, 5, 400), 650, FALSE)

\* Variant: a price of zero scores zero.
CustomerValueOrZero(p) ==
  LET cpc == get(p, "cpc", 0)
      basket == get(p, "cpc_basket_median", 0)
  IN IF cpc <= 0 \/ basket <= 0 THEN reading(0, 450, FALSE)
     ELSE reading(Points(5000 + Nearest(3500 * (Ln[cpc] - Ln[basket]), Ln[2])), 450, FALSE)

CustomerValue(p) ==
  LET cpc == get(p, "cpc", 0)
      basket == get(p, "cpc_basket_median", 0)
  IN IF cpc <= 0 \/ basket <= 0 THEN unavailable
     ELSE reading(Points(5000 + Nearest(3500 * (Ln[cpc] - Ln[basket]), Ln[2])), 450, FALSE)

GRANULARITY_PENALTY == [city |-> 100, suburb |-> 100, admin1 |-> 80, country |-> 60]

\* Variant: a geography nobody named is taken for the market's own.
PenaltyTrusting(measured_at) == get(GRANULARITY_PENALTY, measured_at, 100)

Penalty(measured_at) == get(GRANULARITY_PENALTY, measured_at, 60)

Trends(p) ==
  LET slope == get(p, "yoy_slope", 0)
  IN reading(Points(5000 + 20 * slope), 7 * Penalty(get(p, "granularity", "unknown")),
             slope < -30)

normalise(s, p, residents) ==
  CASE s = "demand" -> Demand(p)
    [] s = "competition" -> Competition(p)
    [] s = "advertising" -> Advertising(p)
    [] s = "density" -> Density(p, residents)
    [] s = "customer_value" -> CustomerValue(p)
    [] s = "trends" -> Trends(p)

ASSUME ReadingsOfPayloads ==
  \A s \in SignalKey, residents \in Populations :
    \A p \in Payloads[s] : normalise(s, p, residents) \in Readings[s] \cup {unavailable}

NormaliseAll(payloads, residents) ==
  [s \in SignalKey |-> IF s \in DOMAIN payloads THEN normalise(s, payloads[s], residents)
                       ELSE unavailable]

-----------------------------------------------------------------------------
NoPayloads == [s \in {} |-> unavailable]

MarketInit ==
  /\ collected = NoPayloads
  /\ population \in Populations
  /\ signals = NormaliseAll(collected, population)
  /\ result = compute(signals)

Publish ==
  /\ signals' = NormaliseAll(collected', population')
  /\ result' = compute(signals')

\* The collector of one signal returns p.
Find(s) ==
  \E p \in Payloads[s] :
    /\ collected' = [t \in DOMAIN collected \cup {s} |-> IF t = s THEN p ELSE collected[t]]
    /\ UNCHANGED population
    /\ Publish

\* It returns nothing usable.
Lose(s) ==
  /\ s \in DOMAIN collected
  /\ collected' = [t \in DOMAIN collected \ {s} |-> collected[t]]
  /\ UNCHANGED population
  /\ Publish

MarketNext == \E s \in SignalKey : Find(s) \/ Lose(s)

MarketSpec == MarketInit /\ [][MarketNext]_marketVars

-----------------------------------------------------------------------------
Has(s) == s \in DOMAIN collected

\* Payload q speaks no worse for entering the market than p, key by key.
NoWorse(s, p, q) ==
  CASE s = "demand" -> get(q, "monthly_searches", 0) >= get(p, "monthly_searches", 0)
    [] s = "competition" ->
         /\ get(q, "aggregator_share", 50) <= get(p, "aggregator_share", 50)
         /\ get(q, "paid_slots", 0) <= get(p, "paid_slots", 0)
         /\ get(q, "distinct_domains", 10) >= get(p, "distinct_domains", 10)
    [] s = "advertising" ->
         /\ "advertiser_count" \in DOMAIN p /\ "advertiser_count" \in DOMAIN q
         /\ q.advertiser_count = p.advertiser_count
         /\ get(q, "advertiser_growth_90d", 0) >= get(p, "advertiser_growth_90d", 0)
    [] s = "density" -> get(q, "business_count", 0) >= get(p, "business_count", 0)
    [] s = "customer_value" ->
         /\ get(p, "cpc", 0) > 0 /\ get(q, "cpc_basket_median", 0) > 0
         /\ get(q, "cpc", 0) >= get(p, "cpc", 0)
         /\ get(q, "cpc_basket_median", 0) <= get(p, "cpc_basket_median", 0)
    [] s = "trends" ->
         /\ get(q, "yoy_slope", 0) >= get(p, "yoy_slope", 0)
         /\ Penalty(get(q, "granularity", "unknown")) = Penalty(get(p, "granularity", "unknown"))

\* From payload to verdict, through curve, rounding, renormalisation, threshold
\* and gates: better evidence of one kind never makes a market look worse.
BetterEvidenceNeverHurts ==
  [][\A s \in DOMAIN collected \cap DOMAIN collected' :
       /\ \A t \in SignalKey \ {s} : signals'[t] = signals[t]
       /\ NoWorse(s, collected[s], collected'[s])
       /\ Scored
       => /\ result'.score >= result.score
          /\ Rank[result'.verdict] >= Rank[result.verdict]]_marketVars

Priced(p) == get(p, "cpc", 0) > 0 /\ get(p, "cpc_basket_median", 0) > 0

\* Pursue is advised only where somebody was measured to pay: by bids with a
\* basket to compare them to, or by advertising that Google knew about.
PursueIsMeasured ==
  result.verdict = "pursue" =>
    \/ Has("customer_value") /\ Priced(collected["customer_value"])
    \/ /\ Has("advertising")
       /\ \/ "advertiser_count" \in DOMAIN collected["advertising"]
          \/ get(collected["advertising"], "competition_index", Null) # Null

\* Without the demand signal, confidence reaches its gate at exactly one point: all
\* five others are there, each at the surest its normaliser knows.  A competition
\* index in place of advertisers, a location without a population, a trend of the
\* state: any one of them rules Pursue out.
PursueWithoutDemandIsFull ==
  result.verdict = "pursue" /\ ~Has("demand") =>
    /\ Has("competition")
    /\ Has("advertising") /\ "advertiser_count" \in DOMAIN collected["advertising"]
    /\ Has("density") /\ population # 0
    /\ Has("customer_value") /\ Priced(collected["customer_value"])
    /\ Has("trends")
    /\ get(collected["trends"], "granularity", "unknown") \in {"city", "suburb"}

\* The geographies at least as coarse as g, the unnamed ones among them.
CoarserThan(g) ==
  CASE g \in {"city", "suburb"} -> {"city", "suburb", "admin1", "country", "unknown"}
    [] g = "admin1" -> {"admin1", "country", "unknown"}
    [] OTHER -> {"country", "unknown"}

\* The same trend, measured over a coarser or an unnamed geography, never makes
\* the whole surer.
CoarserTrendNeverSurer ==
  [][ /\ Has("trends") /\ Has("trends")'
      /\ \A t \in SignalKey \ {"trends"} : signals'[t] = signals[t]
      /\ get(collected'["trends"], "granularity", "unknown")
           \in CoarserThan(get(collected["trends"], "granularity", "unknown"))
      /\ Scored
      => /\ result'.verdict # "none" /\ result'.confidence <= result.confidence ]_marketVars
=============================================================================
