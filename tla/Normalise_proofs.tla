-------------------------- MODULE Normalise_proofs --------------------------
(***************************************************************************)
(* Proofs about Normalise, for every source that returns well-formed       *)
(* payloads and for every increasing table of logarithms: what is proved   *)
(* of Scoring holds of the verdicts a market's payloads lead to, and the   *)
(* curves carry comparisons of payloads over to comparisons of readings.   *)
(***************************************************************************)
EXTENDS Normalise, Scoring_proofs

Found ==
  /\ DOMAIN collected \subseteq SignalKey
  /\ \A s \in DOMAIN collected : collected[s] \in Payloads[s]
  /\ population \in Populations
  /\ signals = NormaliseAll(collected, population)

-----------------------------------------------------------------------------
(* The evidence of a market reaches its verdict through Scoring.           *)

LEMMA ReadingOf ==
  ASSUME NEW c, NEW n, NEW s \in SignalKey
  PROVE  NormaliseAll(c, n)[s] = IF s \in DOMAIN c THEN normalise(s, c[s], n) ELSE unavailable
BY DEF NormaliseAll

LEMMA FoundInit == MarketInit => Found
<1> SUFFICES ASSUME MarketInit
             PROVE  Found
  OBVIOUS
<1>1. DOMAIN collected = {} /\ population \in Populations
      /\ signals = NormaliseAll(collected, population)
  BY DEF MarketInit, NoPayloads
<1>2. QED
  BY <1>1 DEF Found

LEMMA FoundStep ==
  ASSUME Found, [MarketNext]_marketVars
  PROVE  Found'
<1>1. ASSUME NEW s \in SignalKey, Find(s)
      PROVE  Found'
  <2>1. PICK p \in Payloads[s] :
          /\ collected' = [t \in DOMAIN collected \cup {s} |-> IF t = s THEN p ELSE collected[t]]
          /\ UNCHANGED population
          /\ Publish
    BY <1>1 DEF Find
  <2>2. DOMAIN collected' \subseteq SignalKey
        /\ \A t \in DOMAIN collected' : collected'[t] \in Payloads[t]
    BY <2>1 DEF Found
  <2>3. QED
    BY <2>1, <2>2 DEF Found, Publish
<1>2. ASSUME NEW s \in SignalKey, Lose(s)
      PROVE  Found'
  <2>1. DOMAIN collected' \subseteq SignalKey
        /\ \A t \in DOMAIN collected' : collected'[t] \in Payloads[t]
    BY <1>2 DEF Lose, Found
  <2>2. QED
    BY <1>2, <2>1 DEF Lose, Publish, Found
<1>3. CASE UNCHANGED marketVars
  BY <1>3 DEF marketVars, Found, NormaliseAll
<1>4. QED
  BY <1>1, <1>2, <1>3 DEF MarketNext

LEMMA FoundCorrect == MarketSpec => []Found
BY FoundInit, FoundStep, PTL DEF MarketSpec

\* A step that publishes and touches at most the reading of s is a run of Scoring.
LEMMA OneReadingIsRun ==
  ASSUME Found', NEW s \in SignalKey, result' = compute(signals'),
         signals \in [SignalKey -> Normalised],
         \A t \in SignalKey \ {s} : signals'[t] = signals[t]
  PROVE  Run
<1>1. signals' = NormaliseAll(collected', population')
  BY DEF Found
<1>2. signals'[s] \in Readings[s] \cup {unavailable}
  BY <1>1, ReadingOf, ReadingsOfPayloads DEF Found
<1>3. DOMAIN signals' = SignalKey /\ signals' = [t \in SignalKey |-> signals'[t]]
  BY <1>1 DEF NormaliseAll
<1>4. signals' = [signals EXCEPT ![s] = signals'[s]]
  BY <1>3
<1>5. QED
  BY <1>2, <1>4 DEF Run

LEMMA StepIsRun ==
  ASSUME Found, Found', signals \in [SignalKey -> Normalised], [MarketNext]_marketVars
  PROVE  [Next]_vars
<1>1. /\ signals = NormaliseAll(collected, population)
      /\ signals' = NormaliseAll(collected', population')
  BY DEF Found
<1>2. ASSUME NEW s \in SignalKey, Find(s) \/ Lose(s)
      PROVE  Run
  <2>1. /\ population' = population /\ result' = compute(signals')
        /\ \A t \in SignalKey \ {s} : t \in DOMAIN collected' <=> t \in DOMAIN collected
        /\ \A t \in DOMAIN collected \ {s} : collected'[t] = collected[t]
    BY <1>2 DEF Find, Lose, Publish
  <2>2. \A t \in SignalKey \ {s} : signals'[t] = signals[t]
    BY <1>1, <2>1, ReadingOf
  <2>3. QED
    BY <2>1, <2>2, OneReadingIsRun
<1>3. CASE UNCHANGED marketVars
  BY <1>3 DEF marketVars, vars
<1>4. QED
  BY <1>2, <1>3 DEF MarketNext, Next

LEMMA MarketInitIsInit == MarketInit => Init
<1> SUFFICES ASSUME MarketInit
             PROVE  Init
  OBVIOUS
<1>1. signals = [s \in SignalKey |-> unavailable]
  BY DEF MarketInit, NoPayloads, NormaliseAll
<1>2. QED
  BY <1>1 DEF MarketInit, Init

LEMMA ReadingsAreTyped == Found => signals \in [SignalKey -> Normalised]
<1> SUFFICES ASSUME Found
             PROVE  signals \in [SignalKey -> Normalised]
  OBVIOUS
<1>1. unavailable \in Normalised
  BY DEF unavailable, Normalised, SubScore, Share
<1>2. \A s \in SignalKey : signals[s] \in Normalised
  BY <1>1, ReadingOf, ReadingsOfPayloads, ReadingsAssumption DEF Found
<1>3. QED
  BY <1>2 DEF Found, NormaliseAll

\* What is proved of Scoring's readings holds of those the collectors' payloads give.
LEMMA MarketIsScored == MarketSpec => Spec
<1>1. Found /\ Found' /\ [MarketNext]_marketVars => [Next]_vars
  BY ReadingsAreTyped, StepIsRun
<1>2. QED
  BY <1>1, MarketInitIsInit, FoundCorrect, PTL DEF MarketSpec, Spec

-----------------------------------------------------------------------------
(* Roundings and clamps keep order.                                        *)

LEMMA NearestInt ==
  ASSUME NEW a \in Int, NEW b \in Nat, b > 0
  PROVE  /\ Nearest(a, b) \in Int
         /\ 2 * b * Nearest(a, b) <= 2 * a + b
         /\ 2 * a + b < 2 * b * Nearest(a, b) + 2 * b
<1> DEFINE x == 2 * a + b
           y == 2 * b
<1>1. x \in Int /\ y \in Nat /\ y > 0
  OBVIOUS
<1>2. Nearest(a, b) = x \div y
  BY DEF Nearest
<1> HIDE DEF x, y
<1>3. x \div y \in Int /\ y * (x \div y) <= x /\ x < y * (x \div y) + y
  BY <1>1
<1>4. QED
  BY <1>2, <1>3 DEF x, y

\* Roundings of fractions are ordered as the fractions are.
LEMMA NearestOrder ==
  ASSUME NEW a \in Int, NEW b \in Nat, b > 0, NEW c \in Int, NEW d \in Nat, d > 0,
         a * d <= c * b
  PROVE  Nearest(a, b) <= Nearest(c, d)
<1> DEFINE p == Nearest(a, b)
           q == Nearest(c, d)
<1>1. p \in Int /\ 2 * b * p <= 2 * a + b
  BY NearestInt
<1>2. q \in Int /\ 2 * c + d < 2 * d * q + 2 * d
  BY NearestInt
<1> HIDE DEF p, q
<1>3. ASSUME p >= q + 1
      PROVE  FALSE
  <2>1. b * p >= b * (q + 1)
    BY <1>1, <1>2, <1>3
  <2>2. 2 * (b * q) + b <= 2 * a
    BY <1>1, <1>2, <2>1
  <2>3. 2 * c < 2 * (d * q) + d
    BY <1>2
  <2> DEFINE u == 2 * (b * q) + b
             v == 2 * (d * q) + d
  <2>4. u * d = v * b
    BY <1>2
  <2>5. u \in Int /\ v \in Int
    BY <1>2
  <2> HIDE DEF u, v
  <2>6. u * d <= (2 * a) * d
    BY <2>2, <2>5 DEF u
  <2>7. (2 * c) * b < v * b
    BY <2>3, <2>5 DEF v
  <2>8. QED
    BY <2>4, <2>5, <2>6, <2>7
<1>4. QED
  BY <1>1, <1>2, <1>3 DEF p, q

LEMMA ClampOrder ==
  ASSUME NEW x \in Int, NEW y \in Int, x <= y, NEW lo \in Int, NEW hi \in Int, lo <= hi
  PROVE  /\ Clamp(x, lo, hi) \in lo .. hi /\ Clamp(y, lo, hi) \in lo .. hi
         /\ Clamp(x, lo, hi) <= Clamp(y, lo, hi)
BY DEF Clamp

LEMMA PointsOrder ==
  ASSUME NEW x \in Int, NEW y \in Int, x <= y
  PROVE  Points(x) \in SubScore /\ Points(y) \in SubScore /\ Points(x) <= Points(y)
<1>1. Clamp(x, 0, 10000) \in SubScore
  BY DEF Clamp, SubScore
<1>2. Clamp(y, 0, 10000) \in SubScore
  BY DEF Clamp, SubScore
<1>3. Clamp(x, 0, 10000) <= Clamp(y, 0, 10000)
  BY DEF Clamp
<1>4. QED
  BY <1>1, <1>2, <1>3 DEF Points

LEMMA LnOrder ==
  ASSUME NEW v \in DOMAIN Ln, NEW w \in DOMAIN Ln, v <= w
  PROVE  Ln[v] \in Nat /\ Ln[w] \in Nat /\ v \in Nat /\ w \in Nat /\ Ln[v] <= Ln[w]
BY LnAssumption

LEMMA LogScaleOrder ==
  ASSUME NEW v \in {0} \cup DOMAIN Ln, NEW w \in {0} \cup DOMAIN Ln, v <= w,
         NEW f \in DOMAIN Ln, NEW c \in DOMAIN Ln, f < c
  PROVE  /\ LogScale(v, f, c) \in SubScore /\ LogScale(w, f, c) \in SubScore
         /\ LogScale(v, f, c) <= LogScale(w, f, c)
<1>1. /\ f \in Nat /\ f > 0 /\ Ln[f] \in Nat /\ Ln[c] \in Nat /\ Ln[f] < Ln[c]
      /\ v \in Nat /\ w \in Nat
  BY LnAssumption
<1> DEFINE span == Ln[c] - Ln[f]
           at(x) == Nearest(10000 * (Ln[x] - Ln[f]), span)
<1>2. span \in Nat /\ span > 0
  BY <1>1
<1>3. ASSUME NEW x \in {0} \cup DOMAIN Ln, ~(x <= f)
      PROVE  at(x) \in Int /\ LogScale(x, f, c) = Points(at(x)) /\ Ln[x] \in Nat
  <2>1. x \in DOMAIN Ln /\ Ln[x] \in Nat
    BY <1>1, <1>3, LnAssumption
  <2>2. 10000 * (Ln[x] - Ln[f]) \in Int
    BY <1>1, <2>1
  <2>3. at(x) \in Int
    <3> DEFINE a == 10000 * (Ln[x] - Ln[f])
    <3> HIDE DEF a, span
    <3>1. a \in Int
      BY <2>2 DEF a
    <3>2. Nearest(a, span) \in Int
      BY <1>2, <3>1, NearestInt
    <3>3. QED
      BY <3>2 DEF a
  <2>4. LogScale(x, f, c) = Points(at(x))
    BY <1>3 DEF LogScale, span
  <2>5. QED
    BY <2>1, <2>3, <2>4
<1>4. \A x \in {0} \cup DOMAIN Ln : x <= f => LogScale(x, f, c) = 0
  BY DEF LogScale
<1>5. 0 \in SubScore /\ \A x \in SubScore : x \in Nat
  BY DEF SubScore
<1> HIDE DEF at
<1>6. \A x \in {0} \cup DOMAIN Ln : LogScale(x, f, c) \in SubScore
  BY <1>3, <1>4, <1>5, PointsOrder
<1>7. CASE v <= f
  BY <1>4, <1>5, <1>6, <1>7
<1>8. CASE ~(v <= f)
  <2>1. ~(w <= f)
    BY <1>1, <1>8
  <2>2. v \in DOMAIN Ln /\ w \in DOMAIN Ln
    BY <1>1, <1>8, <2>1
  <2>3. Ln[v] <= Ln[w] /\ Ln[v] \in Nat /\ Ln[w] \in Nat
    BY <2>2, LnOrder
  <2> DEFINE a == 10000 * (Ln[v] - Ln[f])
             b == 10000 * (Ln[w] - Ln[f])
  <2>4. a \in Int /\ b \in Int /\ a <= b
    BY <1>1, <2>3
  <2>5. at(v) = Nearest(a, span) /\ at(w) = Nearest(b, span)
    BY DEF at
  <2> HIDE DEF a, b, span
  <2>6. a * span <= b * span
    BY <1>2, <2>4
  <2>7. at(v) <= at(w)
    BY <1>2, <2>4, <2>5, <2>6, NearestOrder
  <2>8. QED
    BY <1>3, <1>8, <2>1, <2>7, PointsOrder, <1>6
<1>9. QED
  BY <1>7, <1>8

-----------------------------------------------------------------------------
(* Signal by signal: a payload that is no worse gives a reading that is    *)
(* no worse.                                                               *)

\* Reading n is as sure as m, no lower, and declines only if m does.
NoLower(m, n) ==
  /\ m.scored /\ n.scored /\ n.score >= m.score /\ n.confidence = m.confidence
  /\ n.declining => m.declining

LEMMA SubScoreInt == \A x \in SubScore : x \in Int
BY DEF SubScore

LEMMA NoLowerReadings ==
  ASSUME NEW x, NEW y, y >= x, NEW c, NEW d \in BOOLEAN, NEW e \in BOOLEAN, e => d
  PROVE  NoLower(reading(x, c, d), reading(y, c, e))
<1>1. \A v, b : /\ reading(v, c, b).scored /\ reading(v, c, b).score = v
                /\ reading(v, c, b).confidence = c
  BY DEF reading
<1>2. (reading(x, c, d).declining <=> d) /\ (reading(y, c, e).declining <=> e)
  BY DEF reading
<1>3. QED
  BY <1>1, <1>2 DEF NoLower

LEMMA DemandBetter ==
  ASSUME NEW p, NEW q, WellFormed("demand", p), WellFormed("demand", q),
         NoWorse("demand", p, q)
  PROVE  NoLower(Demand(p), Demand(q))
<1> DEFINE v == get(p, "monthly_searches", 0)
           w == get(q, "monthly_searches", 0)
           floor == 100
           ceiling == 50000
<1>1. v \in {0} \cup DOMAIN Ln /\ w \in {0} \cup DOMAIN Ln /\ v <= w
  <2>1. \A n \in {0} \cup DOMAIN Ln : n \in Nat
    BY LnAssumption
  <2>2. QED
    BY <2>1 DEF WellFormed, NoWorse
<1>2. floor \in DOMAIN Ln /\ ceiling \in DOMAIN Ln
  BY LnAssumption
<1>3. floor < ceiling
  OBVIOUS
<1>4. /\ Demand(p) = reading(LogScale(v, floor, ceiling), 900, FALSE)
      /\ Demand(q) = reading(LogScale(w, floor, ceiling), 900, FALSE)
  BY DEF Demand
<1> HIDE DEF v, w, floor, ceiling
<1>5. LogScale(w, floor, ceiling) >= LogScale(v, floor, ceiling)
  BY <1>1, <1>2, <1>3, LogScaleOrder, SubScoreInt
<1>6. QED
  BY <1>4, <1>5 DEF NoLower, reading

\* Fewer aggregators, fewer advertisements and more domains are easier to enter.
LEMMA CompetitionBetter ==
  ASSUME NEW p, NEW q, WellFormed("competition", p), WellFormed("competition", q),
         NoWorse("competition", p, q)
  PROVE  NoLower(Competition(p), Competition(q))
<1> DEFINE share(x) == get(x, "aggregator_share", 50)
           slots(x) == Clamp(get(x, "paid_slots", 0), 0, 4)
           domains(x) == Clamp(get(x, "distinct_domains", 10), 0, 10)
           whole == 10000
           ease(x) == whole - (50 * share(x) + 750 * slots(x) + 200 * (10 - domains(x)))
<1>1. /\ share(p) \in Int /\ share(q) \in Int /\ share(q) <= share(p)
      /\ get(p, "paid_slots", 0) \in Nat /\ get(q, "paid_slots", 0) \in Nat
      /\ get(q, "paid_slots", 0) <= get(p, "paid_slots", 0)
      /\ get(p, "distinct_domains", 10) \in Nat /\ get(q, "distinct_domains", 10) \in Nat
      /\ get(p, "distinct_domains", 10) <= get(q, "distinct_domains", 10)
  BY DEF WellFormed, NoWorse
<1>2. slots(p) \in Int /\ slots(q) \in Int /\ slots(q) <= slots(p)
  BY <1>1 DEF Clamp
<1>3. domains(p) \in Int /\ domains(q) \in Int /\ domains(p) <= domains(q)
  BY <1>1 DEF Clamp
<1>4. /\ Competition(p) = reading(Points(ease(p)), 750, FALSE)
      /\ Competition(q) = reading(Points(ease(q)), 750, FALSE)
  BY DEF Competition
<1>5. whole \in Int
  OBVIOUS
<1> HIDE DEF share, slots, domains, whole
<1>6. ease(p) \in Int /\ ease(q) \in Int /\ ease(p) <= ease(q)
  BY <1>1, <1>2, <1>3, <1>5
<1> HIDE DEF ease
<1>7. Points(ease(q)) >= Points(ease(p))
  BY <1>6, PointsOrder, SubScoreInt
<1>8. QED
  BY <1>4, <1>7 DEF NoLower, reading

\* As many advertisers: the momentum decides.
LEMMA AdvertisingBetter ==
  ASSUME NEW p, NEW q, WellFormed("advertising", p), WellFormed("advertising", q),
         NoWorse("advertising", p, q)
  PROVE  NoLower(Advertising(p), Advertising(q))
<1> DEFINE growth(x) == get(x, "advertiser_growth_90d", 0)
           position == Nearest(1000 * Ln[get(p, "advertiser_count", 0) + 1], Ln[61])
           limit == 1500
           momentum(x) == Clamp(10 * growth(x), -limit, limit)
           bend == 302500
           distance == position - 550
           down(x) == growth(x) < -50
           peak == Nearest(4 * (bend - distance * distance), 121)
<1>1. /\ growth(p) \in Int /\ growth(q) \in Int /\ growth(p) <= growth(q)
      /\ get(p, "advertiser_count", 0) + 1 \in DOMAIN Ln
      /\ get(q, "advertiser_count", 0) = get(p, "advertiser_count", 0)
      /\ "advertiser_count" \in DOMAIN p /\ "advertiser_count" \in DOMAIN q
  BY DEF WellFormed, NoWorse, get
<1>2. /\ Advertising(p) = reading(Points(Peak(position) + momentum(p)), 700, down(p))
      /\ Advertising(q) = reading(Points(Peak(position) + momentum(q)), 700, down(q))
  BY <1>1 DEF Advertising
<1>3. Peak(position) = Points(peak)
  BY DEF Peak
<1>4. bend \in Int /\ limit \in Nat
  OBVIOUS
<1>5. (down(q) => down(p)) /\ down(p) \in BOOLEAN /\ down(q) \in BOOLEAN
  BY <1>1
<1> HIDE DEF growth, bend, limit, peak, down
<1>6. position \in Int
  <2> DEFINE a == 1000 * Ln[get(p, "advertiser_count", 0) + 1]
  <2>1. a \in Int /\ Ln[61] \in Nat /\ Ln[61] > 0
    BY <1>1, LnAssumption
  <2> HIDE DEF a
  <2>2. Nearest(a, Ln[61]) \in Int
    BY <2>1, NearestInt
  <2>3. QED
    BY <2>2 DEF a
<1> HIDE DEF position
<1>7. peak \in Int
  <2> DEFINE a == 4 * (bend - distance * distance)
             b == 121
  <2>1. a \in Int /\ b \in Nat /\ b > 0
    BY <1>4, <1>6
  <2> HIDE DEF a, b
  <2>2. Nearest(a, b) \in Int
    BY <2>1, NearestInt
  <2>3. QED
    BY <2>2 DEF a, b, peak
<1>8. Peak(position) \in Int
  BY <1>3, <1>7, PointsOrder, SubScoreInt
<1>9. momentum(p) \in Int /\ momentum(q) \in Int /\ momentum(p) <= momentum(q)
  BY <1>1, <1>4 DEF Clamp
<1> HIDE DEF momentum
<1>10. Points(Peak(position) + momentum(q)) >= Points(Peak(position) + momentum(p))
  BY <1>8, <1>9, PointsOrder, SubScoreInt
<1>11. QED
  BY <1>2, <1>5, <1>10, NoLowerReadings

\* More businesses for the same residents.
LEMMA DensityBetter ==
  ASSUME NEW p, NEW q, WellFormed("density", p), WellFormed("density", q),
         NoWorse("density", p, q), NEW n \in Nat
  PROVE  NoLower(Density(p, n), Density(q, n))
<1> DEFINE c == get(p, "business_count", 0)
           d == get(q, "business_count", 0)
<1>1. c \in {0} \cup DOMAIN Ln /\ d \in {0} \cup DOMAIN Ln /\ c \in Nat /\ d \in Nat /\ c <= d
  <2>1. \A x \in {0} \cup DOMAIN Ln : x \in Nat
    BY LnAssumption
  <2>2. QED
    BY <2>1 DEF WellFormed, NoWorse
<1>2. CASE n # 0
  <2> DEFINE k == 200000
             at(x) == Nearest(k * x, 20 * x + n)
  <2>1. /\ Density(p, n) = reading(at(c), 800, FALSE)
        /\ Density(q, n) = reading(at(d), 800, FALSE)
    BY <1>2 DEF Density
  <2>2. k \in Nat
    OBVIOUS
  <2> HIDE DEF c, d, k
  <2>3. at(c) \in Int /\ at(d) \in Int /\ at(c) <= at(d)
    <3> DEFINE kc == k * c
               kd == k * d
               bc == 20 * c + n
               bd == 20 * d + n
    <3>1. kc \in Int /\ kd \in Int /\ bc \in Nat /\ bd \in Nat /\ bc > 0 /\ bd > 0
      BY <1>1, <1>2, <2>2
    <3>2. kc * bd <= kd * bc
      <4>1. c * n <= d * n
        BY <1>1
      <4>2. k * (c * n) <= k * (d * n)
        BY <1>1, <2>2, <4>1
      <4>3. kc * bd = 20 * (k * (c * d)) + k * (c * n)
            /\ kd * bc = 20 * (k * (c * d)) + k * (d * n)
        BY <1>1, <2>2
      <4>4. k * (c * d) \in Int /\ k * (c * n) \in Int /\ k * (d * n) \in Int
        BY <1>1, <2>2
      <4>5. QED
        BY <4>2, <4>3, <4>4
    <3> HIDE DEF kc, kd, bc, bd
    <3>3. Nearest(kc, bc) \in Int /\ Nearest(kd, bd) \in Int
      BY <3>1, NearestInt
    <3>4. Nearest(kc, bc) <= Nearest(kd, bd)
      BY <3>1, <3>2, NearestOrder
    <3>5. QED
      BY <3>3, <3>4 DEF kc, kd, bc, bd
  <2> HIDE DEF at
  <2>4. QED
    BY <2>1, <2>3 DEF NoLower, reading
<1>3. CASE n = 0
  <2> DEFINE floor == 5
             ceiling == 400
  <2>1. /\ Density(p, n) = reading(LogScale(c, floor, ceiling), 650, FALSE)
        /\ Density(q, n) = reading(LogScale(d, floor, ceiling), 650, FALSE)
    BY <1>3 DEF Density
  <2>2. floor \in DOMAIN Ln /\ ceiling \in DOMAIN Ln
    BY LnAssumption
  <2>3. floor < ceiling
    OBVIOUS
  <2> HIDE DEF c, d, floor, ceiling
  <2>4. LogScale(d, floor, ceiling) >= LogScale(c, floor, ceiling)
    BY <1>1, <2>2, <2>3, LogScaleOrder, SubScoreInt
  <2>5. QED
    BY <2>1, <2>4 DEF NoLower, reading
<1>4. QED
  BY <1>2, <1>3

\* Higher bids against a basket that is no dearer.
LEMMA CustomerValueBetter ==
  ASSUME NEW p, NEW q, WellFormed("customer_value", p), WellFormed("customer_value", q),
         NoWorse("customer_value", p, q)
  PROVE  NoLower(CustomerValue(p), CustomerValue(q))
<1> DEFINE cpc(x) == get(x, "cpc", 0)
           basket(x) == get(x, "cpc_basket_median", 0)
           offset(x) == 3500 * (Ln[cpc(x)] - Ln[basket(x)])
           at(x) == 5000 + Nearest(offset(x), Ln[2])
<1>1. /\ cpc(p) \in DOMAIN Ln /\ cpc(q) \in DOMAIN Ln /\ cpc(p) <= cpc(q)
      /\ basket(p) \in DOMAIN Ln /\ basket(q) \in DOMAIN Ln /\ basket(q) <= basket(p)
      /\ cpc(p) > 0 /\ cpc(q) > 0 /\ basket(p) > 0 /\ basket(q) > 0
  <2>1. \A x \in {0} \cup DOMAIN Ln : x \in Nat
    BY LnAssumption
  <2>2. QED
    BY <2>1 DEF WellFormed, NoWorse
<1>2. /\ CustomerValue(p) = reading(Points(at(p)), 450, FALSE)
      /\ CustomerValue(q) = reading(Points(at(q)), 450, FALSE)
  <2>1. /\ ~(get(p, "cpc", 0) <= 0 \/ get(p, "cpc_basket_median", 0) <= 0)
        /\ ~(get(q, "cpc", 0) <= 0 \/ get(q, "cpc_basket_median", 0) <= 0)
    BY <1>1, LnAssumption
  <2>2. QED
    BY <2>1 DEF CustomerValue
<1>3. /\ Ln[cpc(p)] \in Nat /\ Ln[cpc(q)] \in Nat /\ Ln[cpc(p)] <= Ln[cpc(q)]
      /\ Ln[basket(p)] \in Nat /\ Ln[basket(q)] \in Nat /\ Ln[basket(q)] <= Ln[basket(p)]
  BY <1>1, LnOrder
<1>4. Ln[2] \in Nat /\ Ln[2] > 0
  BY LnAssumption
<1> HIDE DEF cpc, basket
<1>5. offset(p) \in Int /\ offset(q) \in Int /\ offset(p) <= offset(q)
  BY <1>3
<1> HIDE DEF offset
<1>6. offset(p) * Ln[2] <= offset(q) * Ln[2]
  BY <1>4, <1>5
<1>7. Nearest(offset(p), Ln[2]) \in Int /\ Nearest(offset(q), Ln[2]) \in Int
  BY <1>4, <1>5, NearestInt
<1>8. Nearest(offset(p), Ln[2]) <= Nearest(offset(q), Ln[2])
  BY <1>4, <1>5, <1>6, NearestOrder
<1>9. at(p) \in Int /\ at(q) \in Int /\ at(p) <= at(q)
  BY <1>7, <1>8
<1> HIDE DEF at
<1>10. Points(at(q)) >= Points(at(p))
  BY <1>9, PointsOrder, SubScoreInt
<1>11. QED
  BY <1>2, <1>10 DEF NoLower, reading

\* A steeper slope, measured as closely.
LEMMA TrendsBetter ==
  ASSUME NEW p, NEW q, WellFormed("trends", p), WellFormed("trends", q),
         NoWorse("trends", p, q)
  PROVE  NoLower(Trends(p), Trends(q))
<1> DEFINE slope(x) == get(x, "yoy_slope", 0)
           sure(x) == 7 * Penalty(get(x, "granularity", "unknown"))
           down(x) == slope(x) < -30
           at(x) == 5000 + 20 * slope(x)
<1>1. /\ slope(p) \in Int /\ slope(q) \in Int /\ slope(p) <= slope(q)
      /\ sure(q) = sure(p)
  BY DEF WellFormed, NoWorse
<1>2. /\ Trends(p) = reading(Points(at(p)), sure(p), down(p))
      /\ Trends(q) = reading(Points(at(q)), sure(q), down(q))
  BY DEF Trends
<1>3. (down(q) => down(p)) /\ down(p) \in BOOLEAN /\ down(q) \in BOOLEAN
  BY <1>1
<1> HIDE DEF slope, sure, down
<1>4. at(p) \in Int /\ at(q) \in Int /\ at(p) <= at(q)
  BY <1>1
<1> HIDE DEF at
<1>5. Points(at(q)) >= Points(at(p))
  BY <1>4, PointsOrder, SubScoreInt
<1>6. QED
  BY <1>1, <1>2, <1>3, <1>5, NoLowerReadings

LEMMA ReadingsOrdered ==
  ASSUME NEW s \in SignalKey, NEW p, NEW q, WellFormed(s, p), WellFormed(s, q),
         NoWorse(s, p, q), NEW n \in Nat
  PROVE  NoLower(normalise(s, p, n), normalise(s, q, n))
<1>1. CASE s = "demand"
  BY <1>1, DemandBetter DEF normalise
<1>2. CASE s = "competition"
  BY <1>2, CompetitionBetter DEF normalise
<1>3. CASE s = "advertising"
  BY <1>3, AdvertisingBetter DEF normalise
<1>4. CASE s = "density"
  BY <1>4, DensityBetter DEF normalise
<1>5. CASE s = "customer_value"
  BY <1>5, CustomerValueBetter DEF normalise
<1>6. CASE s = "trends"
  BY <1>6, TrendsBetter DEF normalise
<1>7. QED
  BY <1>1, <1>2, <1>3, <1>4, <1>5, <1>6 DEF SignalKey

-----------------------------------------------------------------------------
(* What a market's payloads lead to.                                       *)

LEMMA MarketPublished == MarketSpec => []Published
BY MarketIsScored, PublishedCorrect, PTL

LEMMA BetterEvidenceStep ==
  ASSUME Found, Found', Published, Published', NEW s \in DOMAIN collected \cap DOMAIN collected',
         population' = population,
         \A t \in SignalKey \ {s} : signals'[t] = signals[t],
         NoWorse(s, collected[s], collected'[s]), Scored
  PROVE  /\ result'.score >= result.score
         /\ Rank[result'.verdict] >= Rank[result.verdict]
<1> DEFINE p == collected[s]
           q == collected'[s]
<1>1. s \in SignalKey /\ p \in Payloads[s] /\ q \in Payloads[s] /\ population \in Nat
  BY PopulationsAssumption DEF Found
<1>2. WellFormed(s, p) /\ WellFormed(s, q)
  BY <1>1, PayloadsAssumption
<1>3. signals[s] = normalise(s, p, population) /\ signals'[s] = normalise(s, q, population)
  BY <1>1, ReadingOf DEF Found
<1> HIDE DEF p, q
<1>4. NoLower(normalise(s, p, population), normalise(s, q, population))
  BY <1>1, <1>2, ReadingsOrdered DEF p, q
<1>5. NoLower(signals[s], signals'[s])
  BY <1>3, <1>4
<1>6. QED
  BY <1>1, <1>5, BetterReadingStep DEF NoLower, Changed

\* Better evidence of one kind never makes a market look worse, for every payload,
\* every table of logarithms and every population.
THEOREM BetterEvidence == MarketSpec => BetterEvidenceNeverHurts
<1>1. Found /\ Found' /\ Published /\ Published' /\ [MarketNext]_marketVars =>
        \A s \in DOMAIN collected \cap DOMAIN collected' :
          /\ \A t \in SignalKey \ {s} : signals'[t] = signals[t]
          /\ NoWorse(s, collected[s], collected'[s])
          /\ Scored
          => /\ result'.score >= result.score
             /\ Rank[result'.verdict] >= Rank[result.verdict]
  <2>1. [MarketNext]_marketVars => population' = population
    BY DEF MarketNext, Find, Lose, marketVars
  <2>2. QED
    BY <2>1, BetterEvidenceStep
<1>2. QED
  BY <1>1, FoundCorrect, MarketPublished, PTL DEF MarketSpec, BetterEvidenceNeverHurts

LEMMA UnpricedIsUnscored ==
  ASSUME NEW p, get(p, "cpc", 0) <= 0 \/ get(p, "cpc_basket_median", 0) <= 0
  PROVE  CustomerValue(p) = unavailable
<1> DEFINE unpriced == get(p, "cpc", 0) <= 0 \/ get(p, "cpc_basket_median", 0) <= 0
           scored == reading(Points(5000 + Nearest(3500 * (Ln[get(p, "cpc", 0)]
                               - Ln[get(p, "cpc_basket_median", 0)]), Ln[2])), 450, FALSE)
<1>1. CustomerValue(p) = IF unpriced THEN unavailable ELSE scored
  BY DEF CustomerValue
<1> HIDE DEF scored
<1>2. QED
  BY <1>1

\* Pursue is advised only where bids, advertisers or a competition index were measured.
THEOREM PursueMeasured == MarketSpec => []PursueIsMeasured
<1>1. ASSUME Found, PursueIsEarned, result.verdict = "pursue"
      PROVE  PursueIsMeasured
  <2> DEFINE p == collected["customer_value"]
             q == collected["advertising"]
  <2>1. signals["advertising"].scored \/ signals["customer_value"].scored
    BY <1>1 DEF PursueIsEarned
  <2>2. ~unavailable.scored
    BY DEF unavailable
  <2>3. "customer_value" \in SignalKey /\ "advertising" \in SignalKey
    BY DEF SignalKey
  <2>4. CASE signals["customer_value"].scored
    <3>1. Has("customer_value") /\ CustomerValue(p).scored
      BY <1>1, <2>2, <2>3, <2>4, ReadingOf DEF Found, Has, normalise
    <3>2. WellFormed("customer_value", p)
      BY <1>1, <2>3, <3>1, PayloadsAssumption DEF Found, Has
    <3>3. ~(get(p, "cpc", 0) <= 0 \/ get(p, "cpc_basket_median", 0) <= 0)
      BY <2>2, <3>1, UnpricedIsUnscored
    <3>4. get(p, "cpc", 0) \in Int /\ get(p, "cpc_basket_median", 0) \in Int
      BY <3>2, LnAssumption DEF WellFormed
    <3>5. Priced(p)
      BY <3>3, <3>4 DEF Priced
    <3>6. QED
      BY <3>1, <3>5 DEF PursueIsMeasured
  <2>5. CASE signals["advertising"].scored
    <3>1. Has("advertising") /\ Advertising(q).scored
      BY <1>1, <2>2, <2>3, <2>5, ReadingOf DEF Found, Has, normalise
    <3>2. "advertiser_count" \in DOMAIN q \/ "competition_index" \in DOMAIN q
      BY <1>1, <2>3, <3>1, PayloadsAssumption DEF Found, Has, WellFormed
    <3>3. \/ "advertiser_count" \in DOMAIN q
          \/ get(q, "competition_index", Null) # Null
      <4>1. SUFFICES ASSUME "advertiser_count" \notin DOMAIN q, q.competition_index = Null
                     PROVE  Advertising(q) = unavailable
        BY <2>2, <3>1, <3>2 DEF get
      <4>2. QED
        BY <3>2, <4>1 DEF Advertising, SlotFill
    <3>4. QED
      BY <3>1, <3>3 DEF PursueIsMeasured
  <2>6. QED
    BY <2>1, <2>4, <2>5
<1>2. Found /\ PursueIsEarned => PursueIsMeasured
  BY <1>1 DEF PursueIsMeasured
<1>3. QED
  BY <1>2, FoundCorrect, MarketIsScored, PursueEarned, PTL

-----------------------------------------------------------------------------
(* Pursue without demand.                                                  *)

\* What a signal adds to the confidence of the whole.
Term(s) == IF signals[s].scored THEN Evidence(signals)[s] ELSE 0

LEMMA AbsentAddsNothing ==
  ASSUME Found, NEW s \in SignalKey, ~Has(s)
  PROVE  Term(s) = 0
<1>1. signals[s] = unavailable
  BY ReadingOf DEF Found, Has
<1>2. ~unavailable.scored
  BY DEF unavailable
<1>3. QED
  BY <1>1, <1>2 DEF Term

LEMMA SureTerm ==
  ASSUME Found, NEW s \in SignalKey, Has(s), NEW n, n = normalise(s, collected[s], population),
         n.scored
  PROVE  Term(s) = WEIGHTS[s] * n.confidence
<1>1. signals[s] = n
  BY ReadingOf DEF Found, Has
<1>2. Evidence(signals)[s] = WEIGHTS[s] * signals[s].confidence
  BY DEF Evidence
<1>3. QED
  BY <1>1, <1>2 DEF Term

LEMMA UnsureTerm ==
  ASSUME Found, NEW s \in SignalKey, Has(s),
         normalise(s, collected[s], population) = unavailable
  PROVE  Term(s) = 0
<1>1. signals[s] = unavailable
  BY ReadingOf DEF Found, Has
<1>2. ~unavailable.scored
  BY DEF unavailable
<1>3. QED
  BY <1>1, <1>2 DEF Term

LEMMA ReadingFields ==
  ASSUME NEW score, NEW confidence, NEW declining
  PROVE  /\ reading(score, confidence, declining).scored
         /\ reading(score, confidence, declining).confidence = confidence
BY DEF reading

LEMMA CompetitionAdds ==
  ASSUME Found
  PROVE  Term("competition") \in {0, 15000}
<1> DEFINE p == collected["competition"]
           n == Competition(p)
           score == Points(10000 - (50 * get(p, "aggregator_share", 50)
                      + 750 * Clamp(get(p, "paid_slots", 0), 0, 4)
                      + 200 * (10 - Clamp(get(p, "distinct_domains", 10), 0, 10))))
<1>1. "competition" \in SignalKey /\ WEIGHTS["competition"] = 20
  BY DEF SignalKey, WEIGHTS
<1>2. n.scored /\ n.confidence = 750
  <2>1. n = reading(score, 750, FALSE)
    BY DEF Competition
  <2> HIDE DEF score, n
  <2>2. QED
    BY <2>1 DEF reading
<1>3. n = normalise("competition", p, population)
  BY DEF normalise
<1> HIDE DEF n
<1>4. CASE Has("competition")
  <2>1. Term("competition") = WEIGHTS["competition"] * n.confidence
    BY <1>1, <1>2, <1>3, <1>4, SureTerm, Zenon
  <2>2. QED
    BY <1>1, <1>2, <2>1
<1>5. QED
  BY <1>1, <1>4, AbsentAddsNothing

LEMMA AdvertisingAdds ==
  ASSUME Found
  PROVE  \/ Term("advertising") \in {0, 6000}
         \/ /\ Term("advertising") = 7000 /\ Has("advertising")
            /\ "advertiser_count" \in DOMAIN collected["advertising"]
<1> DEFINE p == collected["advertising"]
           n == Advertising(p)
<1>1. "advertising" \in SignalKey /\ WEIGHTS["advertising"] = 10
  BY DEF SignalKey, WEIGHTS
<1>2. n = normalise("advertising", p, population)
  BY DEF normalise
<1>3. CASE ~Has("advertising")
  BY <1>1, <1>3, AbsentAddsNothing
<1>4. CASE Has("advertising") /\ "advertiser_count" \in DOMAIN p
  <2>1. n.scored /\ n.confidence = 700
    BY <1>4, ReadingFields DEF Advertising
  <2> HIDE DEF n
  <2>2. Term("advertising") = WEIGHTS["advertising"] * n.confidence
    BY <1>1, <1>2, <1>4, <2>1, SureTerm, Zenon
  <2>3. QED
    BY <1>1, <1>4, <2>1, <2>2
<1>5. CASE Has("advertising") /\ "advertiser_count" \notin DOMAIN p
  <2>1. "competition_index" \in DOMAIN p
    BY <1>1, <1>5, PayloadsAssumption DEF Found, Has, WellFormed
  <2> DEFINE score == Peak(Clamp(10 * p.competition_index, 0, 1000))
  <2>2. n = SlotFill(p)
    BY <1>5, <2>1 DEF Advertising
  <2>3. n = unavailable \/ (n.scored /\ n.confidence = 600)
    <3>1. n = IF p.competition_index = Null THEN unavailable ELSE reading(score, 600, FALSE)
      BY <2>2 DEF SlotFill
    <3> HIDE DEF score, n
    <3>2. QED
      BY <3>1 DEF reading
  <2> HIDE DEF n
  <2>4. CASE n = unavailable
    <3>1. normalise("advertising", p, population) = unavailable
      BY <1>2, <2>4
    <3>2. QED
      BY <1>1, <1>5, <3>1, UnsureTerm
  <2>5. CASE n.scored /\ n.confidence = 600
    <3>1. Term("advertising") = WEIGHTS["advertising"] * n.confidence
      BY <1>1, <1>2, <1>5, <2>5, SureTerm, Zenon
    <3>2. QED
      BY <1>1, <2>5, <3>1
  <2>6. QED
    BY <2>3, <2>4, <2>5
<1>6. QED
  BY <1>3, <1>4, <1>5

LEMMA DensityAdds ==
  ASSUME Found
  PROVE  \/ Term("density") \in {0, 9750}
         \/ Term("density") = 12000 /\ Has("density") /\ population # 0
<1> DEFINE p == collected["density"]
           n == Density(p, population)
           count == get(p, "business_count", 0)
           dense == Nearest(200000 * count, 20 * count + population)
           many == LogScale(count, 5, 400)
<1>1. "density" \in SignalKey /\ WEIGHTS["density"] = 15
  BY DEF SignalKey, WEIGHTS
<1>2. n = normalise("density", p, population)
  BY DEF normalise
<1>3. n.scored /\ n.confidence = IF population # 0 THEN 800 ELSE 650
  <2>1. n = IF population # 0 THEN reading(dense, 800, FALSE) ELSE reading(many, 650, FALSE)
    BY DEF Density
  <2> HIDE DEF dense, many, n
  <2>2. QED
    BY <2>1 DEF reading
<1> HIDE DEF n
<1>4. CASE Has("density")
  <2>1. Term("density") = WEIGHTS["density"] * n.confidence
    BY <1>1, <1>2, <1>3, <1>4, SureTerm, Zenon
  <2>2. QED
    BY <1>1, <1>3, <1>4, <2>1
<1>5. QED
  BY <1>1, <1>4, AbsentAddsNothing

LEMMA CustomerValueAdds ==
  ASSUME Found
  PROVE  \/ Term("customer_value") = 0
         \/ /\ Term("customer_value") = 9000 /\ Has("customer_value")
            /\ Priced(collected["customer_value"])
<1> DEFINE p == collected["customer_value"]
           n == CustomerValue(p)
<1>1. "customer_value" \in SignalKey /\ WEIGHTS["customer_value"] = 20
  BY DEF SignalKey, WEIGHTS
<1>2. n = normalise("customer_value", p, population)
  BY DEF normalise
<1>3. CASE ~Has("customer_value")
  BY <1>1, <1>3, AbsentAddsNothing
<1>4. CASE Has("customer_value")
  <2>1. get(p, "cpc", 0) \in Int /\ get(p, "cpc_basket_median", 0) \in Int
    <3>1. WellFormed("customer_value", p)
      BY <1>1, <1>4, PayloadsAssumption DEF Found, Has
    <3>2. QED
      BY <3>1, LnAssumption DEF WellFormed
  <2>2. CASE Priced(p)
    <3>1. ~(get(p, "cpc", 0) <= 0 \/ get(p, "cpc_basket_median", 0) <= 0)
      BY <2>1, <2>2 DEF Priced
    <3> DEFINE score == Points(5000 + Nearest(3500 * (Ln[get(p, "cpc", 0)]
                                 - Ln[get(p, "cpc_basket_median", 0)]), Ln[2]))
    <3>2. n.scored /\ n.confidence = 450
      <4>1. n = reading(score, 450, FALSE)
        BY <3>1 DEF CustomerValue
      <4> HIDE DEF score, n
      <4>2. QED
        BY <4>1 DEF reading
    <3> HIDE DEF n
    <3>3. Term("customer_value") = WEIGHTS["customer_value"] * n.confidence
      BY <1>1, <1>2, <1>4, <3>2, SureTerm, Zenon
    <3>4. QED
      BY <1>1, <1>4, <2>2, <3>2, <3>3
  <2>3. CASE ~Priced(p)
    <3>1. get(p, "cpc", 0) <= 0 \/ get(p, "cpc_basket_median", 0) <= 0
      BY <2>1, <2>3 DEF Priced
    <3>2. n = unavailable
      BY <3>1, UnpricedIsUnscored
    <3> HIDE DEF n
    <3>3. QED
      BY <1>1, <1>2, <1>4, <3>2, UnsureTerm, Zenon
  <2>4. QED
    BY <2>2, <2>3
<1>5. QED
  BY <1>3, <1>4

LEMMA PenaltyValues ==
  \A x : Penalty(x) = IF x \in {"city", "suburb"} THEN 100 ELSE IF x = "admin1" THEN 80 ELSE 60
<1>1. \A x : Penalty(x) = IF x \in {"city", "suburb", "admin1", "country"}
                           THEN GRANULARITY_PENALTY[x] ELSE 60
  BY DEF Penalty, get, GRANULARITY_PENALTY
<1>2. QED
  BY <1>1 DEF GRANULARITY_PENALTY

LEMMA TrendsAdd ==
  ASSUME Found
  PROVE  \/ Term("trends") \in {0, 4200, 5600}
         \/ /\ Term("trends") = 7000 /\ Has("trends")
            /\ get(collected["trends"], "granularity", "unknown") \in {"city", "suburb"}
<1> DEFINE g == get(collected["trends"], "granularity", "unknown")
           n == Trends(collected["trends"])
<1>1. "trends" \in SignalKey /\ WEIGHTS["trends"] = 10
  BY DEF SignalKey, WEIGHTS
<1>2. n = normalise("trends", collected["trends"], population)
  BY DEF normalise
<1>3. n.scored /\ n.confidence = 7 * Penalty(g)
  BY ReadingFields DEF Trends
<1> HIDE DEF n, g
<1>4. Penalty(g) \in {60, 80} \/ (Penalty(g) = 100 /\ g \in {"city", "suburb"})
  <2>1. Penalty(g) = IF g \in {"city", "suburb"} THEN 100 ELSE IF g = "admin1" THEN 80 ELSE 60
    BY PenaltyValues, Zenon
  <2>2. QED
    BY <2>1
<1>5. CASE Has("trends")
  <2>1. Term("trends") = WEIGHTS["trends"] * n.confidence
    BY <1>1, <1>2, <1>3, <1>5, SureTerm, Zenon
  <2>2. Term("trends") = 10 * (7 * Penalty(g))
    BY <1>1, <1>3, <2>1
  <2>3. QED
    BY <1>4, <1>5, <2>2 DEF g
<1>6. QED
  BY <1>1, <1>5, AbsentAddsNothing

\* Without demand, Pursue needs all five other signals at their surest: what they add
\* is then exactly the confidence gate, and a rounding could not make up for less.
THEOREM PursueWithoutDemand == MarketSpec => []PursueWithoutDemandIsFull
<1>1. ASSUME Found, Published, PursueIsEarned, result.verdict = "pursue", ~Has("demand")
      PROVE  PursueWithoutDemandIsFull
  <2>1. result.confidence = Confidence(signals)
    <3>1. ~Insufficient(signals)
      BY <1>1 DEF Published, compute
    <3>2. QED
      BY <1>1, <3>1 DEF Published, compute
  <2>2. Confidence(signals) >= 500
    BY <1>1, <2>1 DEF PursueIsEarned, CONFIDENCE_GATE
  <2>3. EvidenceWeight(signals) \in Nat
    BY <1>1, EvidenceType DEF Published
  <2>4. EvidenceWeight(signals) >= 49950
    <3>1. 2 * 100 * Nearest(EvidenceWeight(signals), 100) <= 2 * EvidenceWeight(signals) + 100
      BY <2>3, NearestType
    <3>2. Nearest(EvidenceWeight(signals), 100) >= 500
          /\ Nearest(EvidenceWeight(signals), 100) \in Int
      BY <2>2, <2>3, NearestType DEF Confidence, TotalWeight
    <3>3. QED
      BY <2>3, <3>1, <3>2
  <2>5. EvidenceWeight(signals) = Term("demand") + Term("competition") + Term("advertising")
          + Term("density") + Term("customer_value") + Term("trends")
    BY DEF EvidenceWeight, SumOfAvailable, Term
  <2>6. Term("demand") = 0
    BY <1>1, AbsentAddsNothing DEF SignalKey
  <2> DEFINE c == Term("competition")
             a == Term("advertising")
             d == Term("density")
             v == Term("customer_value")
             t == Term("trends")
  <2>7. /\ c \in {0, 15000} /\ a \in {0, 6000, 7000} /\ d \in {0, 9750, 12000}
        /\ v \in {0, 9000} /\ t \in {0, 4200, 5600, 7000}
    BY <1>1, CompetitionAdds, AdvertisingAdds, DensityAdds, CustomerValueAdds, TrendsAdd
  <2>8. c = 15000 /\ a = 7000 /\ d = 12000 /\ v = 9000 /\ t = 7000
    <3> HIDE DEF c, a, d, v, t
    <3>1. c + a + d + v + t >= 49950
      BY <2>4, <2>5, <2>6, <2>7 DEF c, a, d, v, t
    <3>2. QED
      BY <2>7, <3>1
  <2>9. Has("competition")
    BY <1>1, <2>8, AbsentAddsNothing DEF SignalKey
  <2>10. QED
    BY <1>1, <2>8, <2>9, AdvertisingAdds, DensityAdds, CustomerValueAdds, TrendsAdd
       DEF PursueWithoutDemandIsFull
<1>2. Found /\ Published /\ PursueIsEarned => PursueWithoutDemandIsFull
  BY <1>1 DEF PursueWithoutDemandIsFull
<1>3. QED
  BY <1>2, FoundCorrect, MarketPublished, MarketIsScored, PursueEarned, PTL

-----------------------------------------------------------------------------
(* The price of a coarse trend.                                            *)

LEMMA PenaltyOrder ==
  ASSUME NEW g, NEW h \in CoarserThan(g)
  PROVE  Penalty(g) \in Nat /\ Penalty(h) \in Nat /\ Penalty(h) <= Penalty(g) /\ Penalty(h) > 0
BY PenaltyValues DEF CoarserThan

\* The same signals, one of them less sure but not worthless.
LEMMA LessSure ==
  ASSUME NEW old \in [SignalKey -> Normalised], NEW new \in [SignalKey -> Normalised],
         \A t \in SignalKey : /\ new[t].scored = old[t].scored
                              /\ new[t].confidence <= old[t].confidence,
         new["trends"].scored, new["trends"].confidence > 0
  PROVE  /\ CoveredWeight(new) = CoveredWeight(old)
         /\ EvidenceWeight(new) > 0
         /\ Confidence(new) <= Confidence(old)
<1> DEFINE e == Evidence(old)
           f == Evidence(new)
<1>1. \A h : SumOfAvailable(new, h) = SumOfAvailable(old, h)
  BY DEF SumOfAvailable, SignalKey
<1>2. e \in [SignalKey -> Nat] /\ f \in [SignalKey -> Nat]
  BY EvidenceType
<1>3. /\ EvidenceWeight(old) = SumOfAvailable(old, e)
      /\ EvidenceWeight(new) = SumOfAvailable(old, f)
  BY <1>1 DEF EvidenceWeight
<1>4. \A t \in Available(old) : f[t] <= e[t]
  <2> SUFFICES ASSUME NEW t \in SignalKey
               PROVE  WEIGHTS[t] * new[t].confidence <= WEIGHTS[t] * old[t].confidence
    BY DEF Available, Evidence
  <2>1. new[t].confidence \in Nat /\ old[t].confidence \in Nat
        /\ new[t].confidence <= old[t].confidence
    BY FieldTypes
  <2>2. WEIGHTS[t] \in Nat
    BY DEF WEIGHTS, SignalKey
  <2>3. QED
    BY <2>1, <2>2
<1>5. SumOfAvailable(new, f) > 0
  <2> DEFINE term(t) == IF new[t].scored THEN f[t] ELSE 0
  <2>1. \A t \in SignalKey : term(t) \in Nat
    BY <1>2
  <2>2. term("trends") > 0
    <3>1. "trends" \in SignalKey /\ WEIGHTS["trends"] = 10
      BY DEF SignalKey, WEIGHTS
    <3>2. new["trends"].confidence \in Nat /\ new["trends"].scored
      BY <3>1, FieldTypes
    <3>3. f["trends"] = 10 * new["trends"].confidence
      BY <3>1 DEF Evidence
    <3>4. QED
      BY <3>2, <3>3
  <2>3. SumOfAvailable(new, f) = term("demand") + term("competition") + term("advertising")
          + term("density") + term("customer_value") + term("trends")
    BY DEF SumOfAvailable
  <2> HIDE DEF term
  <2>4. QED
    BY <2>1, <2>2, <2>3 DEF SignalKey
<1>6. SumOfAvailable(old, f) <= SumOfAvailable(old, e)
  <2> HIDE DEF e, f
  <2>1. QED
    BY <1>2, <1>4, SumMonotone
<1>7. EvidenceWeight(new) <= EvidenceWeight(old)
  BY <1>3, <1>6
<1>8. Confidence(new) <= Confidence(old)
  <2>1. EvidenceWeight(new) \in Nat /\ EvidenceWeight(old) \in Nat
        /\ TotalWeight \in Nat /\ TotalWeight > 0
    BY EvidenceType DEF TotalWeight
  <2>2. QED
    BY <1>7, <2>1, NearestMonotone DEF Confidence
<1>9. QED
  BY <1>1, <1>3, <1>5, <1>8 DEF CoveredWeight

LEMMA CoarserTrendStep ==
  ASSUME Found, Found', Published, Published', Has("trends"), Has("trends")',
         \A t \in SignalKey \ {"trends"} : signals'[t] = signals[t],
         get(collected'["trends"], "granularity", "unknown")
           \in CoarserThan(get(collected["trends"], "granularity", "unknown")),
         Scored
  PROVE  result'.verdict # "none" /\ result'.confidence <= result.confidence
<1> DEFINE g == get(collected["trends"], "granularity", "unknown")
           h == get(collected'["trends"], "granularity", "unknown")
<1>1. "trends" \in SignalKey
  BY DEF SignalKey
<1>2. signals["trends"] = Trends(collected["trends"])
      /\ signals'["trends"] = Trends(collected'["trends"])
  BY <1>1, ReadingOf DEF Found, Has, normalise
<1>3. /\ signals["trends"].scored /\ signals["trends"].confidence = 7 * Penalty(g)
      /\ signals'["trends"].scored /\ signals'["trends"].confidence = 7 * Penalty(h)
  BY <1>2 DEF Trends, reading
<1> HIDE DEF g, h
<1>4. Penalty(g) \in Nat /\ Penalty(h) \in Nat /\ Penalty(h) <= Penalty(g) /\ Penalty(h) > 0
  BY PenaltyOrder DEF g, h
<1>5. signals \in [SignalKey -> Normalised] /\ signals' \in [SignalKey -> Normalised]
      /\ result = compute(signals) /\ result' = compute(signals')
  BY DEF Published
<1>6. \A t \in SignalKey : signals[t].confidence \in Nat
  BY <1>5, FieldTypes
<1>7. \A t \in SignalKey : /\ signals'[t].scored = signals[t].scored
                           /\ signals'[t].confidence <= signals[t].confidence
  <2>1. ASSUME NEW t \in SignalKey \ {"trends"}
        PROVE  /\ signals'[t].scored = signals[t].scored
               /\ signals'[t].confidence <= signals[t].confidence
    BY <1>6
  <2>2. signals'["trends"].scored = signals["trends"].scored
    <3>1. signals["trends"].scored \in BOOLEAN /\ signals'["trends"].scored \in BOOLEAN
      BY <1>1, <1>5 DEF Normalised
    <3>2. QED
      BY <1>3, <3>1
  <2>3. signals'["trends"].confidence <= signals["trends"].confidence
    BY <1>3, <1>4
  <2>4. QED
    BY <2>1, <2>2, <2>3
<1>8. /\ CoveredWeight(signals') = CoveredWeight(signals)
      /\ EvidenceWeight(signals') > 0
      /\ Confidence(signals') <= Confidence(signals)
  BY <1>3, <1>4, <1>5, <1>7, LessSure
<1>9. ~Insufficient(signals)
  BY <1>5 DEF Scored, compute
<1>10. ~Insufficient(signals')
  <2>1. EvidenceWeight(signals') \in Nat
    BY <1>5, EvidenceType
  <2>2. QED
    BY <1>8, <1>9, <2>1 DEF Insufficient
<1>11. /\ result.confidence = Confidence(signals) /\ result'.confidence = Confidence(signals')
       /\ result'.verdict = ApplyGates(BaseVerdict(Composite(signals')),
                                       GatesApplied(signals', Confidence(signals')))
  BY <1>5, <1>9, <1>10 DEF compute
<1>12. result'.verdict \in Verdicts
  BY <1>11, BaseVerdictType, GatesLower
<1>13. QED
  BY <1>8, <1>11, <1>12 DEF Verdicts

\* A trend measured over a coarser or an unnamed geography never makes the whole surer.
THEOREM CoarserTrend == MarketSpec => CoarserTrendNeverSurer
<1>1. Found /\ Found' /\ Published /\ Published' =>
        (/\ Has("trends") /\ Has("trends")'
         /\ \A t \in SignalKey \ {"trends"} : signals'[t] = signals[t]
         /\ get(collected'["trends"], "granularity", "unknown")
              \in CoarserThan(get(collected["trends"], "granularity", "unknown"))
         /\ Scored
         => result'.verdict # "none" /\ result'.confidence <= result.confidence)
  BY CoarserTrendStep
<1>2. QED
  BY <1>1, FoundCorrect, MarketPublished, PTL DEF CoarserTrendNeverSurer
=============================================================================
