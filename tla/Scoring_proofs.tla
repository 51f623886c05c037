--------------------------- MODULE Scoring_proofs ---------------------------
(***************************************************************************)
(* Theorems about Scoring, for every set of readings.                      *)
(***************************************************************************)
EXTENDS Scoring, TLAPS

(* What is published is what compute returns for the evidence.             *)
Published ==
  /\ signals \in [SignalKey -> Normalised]
  /\ result = compute(signals)

THEOREM PublishedCorrect == Spec => []Published
<1>1. unavailable \in Normalised
  BY DEF unavailable, Normalised, SubScore, Share
<1>2. Init => Published
  BY <1>1 DEF Init, Published
<1>3. Published /\ [Next]_vars => Published'
  <2> SUFFICES ASSUME Published, [Next]_vars PROVE Published'
    OBVIOUS
  <2>1. CASE Run
    <3>0. PICK s \in SignalKey : \E n \in Readings[s] \cup {unavailable} :
            signals' = [signals EXCEPT ![s] = n] /\ result' = compute(signals')
      BY <2>1 DEF Run
    <3>1. PICK n \in Readings[s] \cup {unavailable} :
            signals' = [signals EXCEPT ![s] = n] /\ result' = compute(signals')
      BY <3>0
    <3>2. n \in Normalised
      BY <1>1, ReadingsAssumption
    <3>3. signals' \in [SignalKey -> Normalised]
      BY <3>1, <3>2 DEF Published
    <3> QED BY <3>1, <3>3 DEF Published
  <2>2. CASE UNCHANGED vars
    BY <2>2 DEF vars, Published
  <2> QED BY <2>1, <2>2 DEF Next
<1> QED BY <1>2, <1>3, PTL DEF Spec

-----------------------------------------------------------------------------
(* _cap, base verdict and gates.                                           *)

LEMMA BaseVerdictType == \A score : BaseVerdict(score) \in Verdicts
  BY DEF BaseVerdict, Verdicts

(* Whatever gates fire, the verdict does not rise.                         *)
LEMMA GatesLower ==
  ASSUME NEW v \in Verdicts, NEW gates
  PROVE  /\ ApplyGates(v, gates) \in Verdicts
         /\ Rank[ApplyGates(v, gates)] <= Rank[v]
<1>1. \A u \in Verdicts, c \in Verdicts :
        Cap(u, c) \in Verdicts /\ Rank[Cap(u, c)] <= Rank[u]
  BY DEF Cap, Rank, Verdicts
<1>2. \A u \in Verdicts : Rank[u] \in Int
  BY DEF Rank, Verdicts
<1> DEFINE floored == IF "G1_demand_floor_pass" \in gates THEN Cap(v, "pass") ELSE v
<1>3. floored \in Verdicts /\ Rank[floored] <= Rank[v]
  BY <1>1, <1>2 DEF Verdicts
<1> HIDE DEF floored
<1>4. Cap(floored, "watch") \in Verdicts /\ Rank[Cap(floored, "watch")] <= Rank[floored]
  BY <1>1, <1>3 DEF Verdicts
<1>5. ApplyGates(v, gates) = Cap(floored, "watch") \/ ApplyGates(v, gates) = floored
  BY DEF ApplyGates, floored
<1> QED BY <1>2, <1>3, <1>4, <1>5

(* A Pursue passed no gate.                                                *)
LEMMA PursueIsUngated ==
  ASSUME NEW v, NEW gates \in SUBSET Gates, ApplyGates(v, gates) = "pursue"
  PROVE  v = "pursue" /\ gates = {}
<1>1. \A u : Cap(u, "pass") # "pursue" /\ Cap(u, "watch") # "pursue"
  BY DEF Cap, Rank
<1> QED BY <1>1 DEF ApplyGates

-----------------------------------------------------------------------------
(* The published verdict never exceeds what the published score earns, for *)
(* every combination of evidence (_apply_gates).                           *)
THEOREM VerdictOnlyLowered == Spec => []GatesOnlyLower
<1>1. Published => GatesOnlyLower
  <2> SUFFICES ASSUME Published, Scored
               PROVE  Rank[result.verdict] <= Rank[BaseVerdict(result.score)]
    BY DEF GatesOnlyLower
  <2> DEFINE score == Composite(signals)
             gates == GatesApplied(signals, Confidence(signals))
  <2>1. ~Insufficient(signals)
    BY DEF Published, Scored, compute
  <2>2. result.verdict = ApplyGates(BaseVerdict(score), gates) /\ result.score = score
    BY <2>1 DEF Published, compute
  <2> HIDE DEF score, gates
  <2> QED BY <2>2, BaseVerdictType, GatesLower
<1> QED BY <1>1, PublishedCorrect, PTL

(* The weights and confidences that are summed are integers.               *)
LEMMA SumType ==
  ASSUME NEW sig \in [SignalKey -> Normalised], NEW f \in [SignalKey -> Nat]
  PROVE  SumOfAvailable(sig, f) \in Nat
<1> DEFINE term(s) == IF sig[s].scored THEN f[s] ELSE 0
<1>1. \A s \in SignalKey : term(s) \in Nat
  OBVIOUS
<1> HIDE DEF term
<1>2. SumOfAvailable(sig, f) = term("demand") + term("competition") + term("advertising")
        + term("density") + term("customer_value") + term("trends")
  BY DEF SumOfAvailable, term
<1> QED BY <1>1, <1>2 DEF SignalKey

LEMMA FieldTypes ==
  ASSUME NEW n \in Normalised
  PROVE  /\ n.score \in Nat /\ n.score <= 10000
         /\ n.confidence \in Nat /\ n.confidence <= 1000
<1>1. n.score \in SubScore /\ n.confidence \in Share
  BY DEF Normalised
<1>2. \A x \in SubScore : x \in Nat /\ x <= 10000
  BY DEF SubScore
<1>3. \A x \in Share : x \in Nat /\ x <= 1000
  BY DEF Share
<1> QED BY <1>1, <1>2, <1>3

LEMMA EvidenceType ==
  ASSUME NEW sig \in [SignalKey -> Normalised]
  PROVE  /\ Evidence(sig) \in [SignalKey -> Nat]
         /\ EvidenceWeight(sig) \in Nat
         /\ CoveredWeight(sig) \in Nat
<1>1. WEIGHTS \in [SignalKey -> Nat]
  BY DEF WEIGHTS, SignalKey
<1>2. \A s \in SignalKey : sig[s].confidence \in Nat
  BY FieldTypes
<1>3. Evidence(sig) \in [SignalKey -> Nat]
  BY <1>1, <1>2 DEF Evidence
<1> QED BY <1>1, <1>3, SumType DEF EvidenceWeight, CoveredWeight

(* Pursue needs the score, the confidence, monetisation evidence, a trend  *)
(* that does not fall and no low demand, whatever the evidence.            *)
THEOREM PursueEarned == Spec => []PursueIsEarned
<1>1. Published => PursueIsEarned
  <2> SUFFICES ASSUME Published, result.verdict = "pursue"
               PROVE  /\ result.score >= PURSUE_AT /\ result.confidence >= CONFIDENCE_GATE
                      /\ signals["advertising"].scored \/ signals["customer_value"].scored
                      /\ ~signals["trends"].declining
                      /\ signals["demand"].scored =>
                           signals["demand"].score >= DEMAND_CAP_FLOOR
    BY DEF PursueIsEarned
  <2> DEFINE score == Composite(signals)
             confidence == Confidence(signals)
             gates == GatesApplied(signals, confidence)
  <2>1. ~Insufficient(signals)
    BY DEF Published, compute
  <2>2. /\ ApplyGates(BaseVerdict(score), gates) = "pursue"
        /\ result.score = score /\ result.confidence = confidence
    BY <2>1 DEF Published, compute
  <2>3. gates \in SUBSET Gates
    BY DEF GatesApplied
  <2>4. BaseVerdict(score) = "pursue" /\ gates = {}
    BY <2>2, <2>3, PursueIsUngated
  <2>5. score >= PURSUE_AT
    BY <2>4 DEF BaseVerdict
  <2>6. confidence \in Int
    <3>1. signals \in [SignalKey -> Normalised]
      BY DEF Published
    <3>2. EvidenceWeight(signals) \in Nat
      BY <3>1, EvidenceType
    <3> QED BY <3>2 DEF Confidence, Nearest, TotalWeight
  <2> HIDE DEF score, confidence
  <2>7. confidence >= CONFIDENCE_GATE
    <3>1. "G2_low_confidence" \notin gates /\ "G2_low_confidence" \in Gates
      BY <2>4 DEF Gates
    <3>2. ~(confidence < CONFIDENCE_GATE)
      BY <3>1 DEF GatesApplied
    <3> QED BY <3>2, <2>6 DEF CONFIDENCE_GATE
  <2>8. signals["advertising"].scored \/ signals["customer_value"].scored
    <3>1. "G3_no_monetisation_evidence" \notin gates
            /\ "G3_no_monetisation_evidence" \in Gates
      BY <2>4 DEF Gates
    <3> QED BY <3>1 DEF GatesApplied
  <2>9. ~signals["trends"].declining
    <3>1. "G4_declining_trend" \notin gates /\ "G4_declining_trend" \in Gates
      BY <2>4 DEF Gates
    <3> QED BY <3>1 DEF GatesApplied
  <2>10. ASSUME signals["demand"].scored
         PROVE  signals["demand"].score >= DEMAND_CAP_FLOOR
    <3>1. /\ "G1_demand_floor_pass" \notin gates /\ "G1_demand_floor_pass" \in Gates
          /\ "G1_demand_floor_watch" \notin gates /\ "G1_demand_floor_watch" \in Gates
      BY <2>4 DEF Gates
    <3>2. signals["demand"].score \in Int
      <4>1. "demand" \in SignalKey /\ signals \in [SignalKey -> Normalised]
        BY DEF Published, SignalKey
      <4> QED BY <4>1, FieldTypes
    <3>3. /\ ~(signals["demand"].score < DEMAND_PASS_FLOOR)
          /\ ~(/\ signals["demand"].score >= DEMAND_PASS_FLOOR
               /\ signals["demand"].score < DEMAND_CAP_FLOOR)
      BY <2>10, <3>1 DEF GatesApplied
    <3> QED BY <3>2, <3>3 DEF DEMAND_PASS_FLOOR, DEMAND_CAP_FLOOR
  <2> QED BY <2>2, <2>5, <2>7, <2>8, <2>9, <2>10
<1> QED BY <1>1, PublishedCorrect, PTL

-----------------------------------------------------------------------------
(* Means: Nearest and sums over the available signals.                     *)

LEMMA NearestType ==
  ASSUME NEW a \in Nat, NEW b \in Nat, b > 0
  PROVE  /\ Nearest(a, b) \in Int
         /\ 2 * b * Nearest(a, b) <= 2 * a + b
         /\ 2 * a + b < 2 * b * Nearest(a, b) + 2 * b
<1> DEFINE x == 2 * a + b
           y == 2 * b
<1>1. x \in Int /\ y \in Nat /\ y > 0
  OBVIOUS
<1>2. Nearest(a, b) = x \div y
  BY DEF Nearest
<1> HIDE DEF x, y
<1>3. x \div y \in Int /\ y * (x \div y) <= x /\ x < y * (x \div y) + y
  BY <1>1
<1> QED BY <1>2, <1>3 DEF x, y

LEMMA NearestAtLeast ==
  ASSUME NEW a \in Nat, NEW b \in Nat, b > 0, NEW k \in Int, k * b <= a
  PROVE  k <= Nearest(a, b)
<1> DEFINE q == Nearest(a, b)
<1>1. q \in Int /\ 2 * a + b < 2 * b * q + 2 * b
  BY NearestType
<1> HIDE DEF q
<1>2. ASSUME q <= k - 1 PROVE FALSE
  <2>1. b * q <= b * (k - 1)
    BY <1>1, <1>2
  <2> QED BY <1>1, <2>1
<1> QED BY <1>1, <1>2 DEF q

LEMMA NearestAtMost ==
  ASSUME NEW a \in Nat, NEW b \in Nat, b > 0, NEW k \in Int, a <= k * b
  PROVE  Nearest(a, b) <= k
<1> DEFINE q == Nearest(a, b)
<1>1. q \in Int /\ 2 * b * q <= 2 * a + b
  BY NearestType
<1> HIDE DEF q
<1>2. ASSUME q >= k + 1 PROVE FALSE
  <2>1. b * q >= b * (k + 1)
    BY <1>1, <1>2
  <2> QED BY <1>1, <2>1
<1> QED BY <1>1, <1>2 DEF q

LEMMA SumMonotone ==
  ASSUME NEW sig \in [SignalKey -> Normalised],
         NEW f \in [SignalKey -> Nat], NEW g \in [SignalKey -> Nat],
         \A s \in Available(sig) : f[s] <= g[s]
  PROVE  SumOfAvailable(sig, f) <= SumOfAvailable(sig, g)
<1> DEFINE tf(s) == IF sig[s].scored THEN f[s] ELSE 0
           tg(s) == IF sig[s].scored THEN g[s] ELSE 0
<1>1. \A s \in SignalKey : tf(s) \in Nat /\ tg(s) \in Nat /\ tf(s) <= tg(s)
  BY DEF Available
<1> HIDE DEF tf, tg
<1>2. /\ SumOfAvailable(sig, f) = tf("demand") + tf("competition") + tf("advertising")
           + tf("density") + tf("customer_value") + tf("trends")
      /\ SumOfAvailable(sig, g) = tg("demand") + tg("competition") + tg("advertising")
           + tg("density") + tg("customer_value") + tg("trends")
  BY DEF SumOfAvailable, tf, tg
<1> QED BY <1>1, <1>2 DEF SignalKey

LEMMA SumScaled ==
  ASSUME NEW sig \in [SignalKey -> Normalised], NEW f \in [SignalKey -> Nat], NEW k \in Nat
  PROVE  /\ [s \in SignalKey |-> k * f[s]] \in [SignalKey -> Nat]
         /\ SumOfAvailable(sig, [s \in SignalKey |-> k * f[s]]) = k * SumOfAvailable(sig, f)
<1> DEFINE kf == [s \in SignalKey |-> k * f[s]]
           tf(s) == IF sig[s].scored THEN f[s] ELSE 0
           tk(s) == IF sig[s].scored THEN kf[s] ELSE 0
<1>1. \A s \in SignalKey : f[s] \in Nat /\ kf[s] = k * f[s] /\ kf[s] \in Nat
  OBVIOUS
<1>2. kf \in [SignalKey -> Nat]
  BY <1>1
<1> HIDE DEF kf
<1>3. \A s \in SignalKey : tf(s) \in Nat /\ tk(s) = k * tf(s)
  BY <1>1
<1> HIDE DEF tf, tk
<1>4. /\ SumOfAvailable(sig, f) = tf("demand") + tf("competition") + tf("advertising")
           + tf("density") + tf("customer_value") + tf("trends")
      /\ SumOfAvailable(sig, kf) = tk("demand") + tk("competition") + tk("advertising")
           + tk("density") + tk("customer_value") + tk("trends")
  BY DEF SumOfAvailable, tf, tk
<1>5. SumOfAvailable(sig, kf) = k * SumOfAvailable(sig, f)
  BY <1>3, <1>4 DEF SignalKey
<1> QED BY <1>2, <1>5 DEF kf

(* The summands of the composite.                                          *)
LEMMA ScoredType ==
  ASSUME NEW sig \in [SignalKey -> Normalised]
  PROVE  /\ [s \in SignalKey |-> sig[s].score * Evidence(sig)[s]] \in [SignalKey -> Nat]
         /\ ScoredWeight(sig) \in Nat
<1>1. \A s \in SignalKey : sig[s].score \in Nat
  BY FieldTypes
<1>2. [s \in SignalKey |-> sig[s].score * Evidence(sig)[s]] \in [SignalKey -> Nat]
  BY <1>1, EvidenceType
<1> QED BY <1>2, SumType DEF ScoredWeight

(* A bound on every available sub-score bounds the composite.              *)
LEMMA CompositeAtLeast ==
  ASSUME NEW sig \in [SignalKey -> Normalised], EvidenceWeight(sig) > 0,
         NEW k \in Nat, \A s \in Available(sig) : k <= sig[s].score
  PROVE  k <= Composite(sig)
<1> DEFINE e == Evidence(sig)
           g == [s \in SignalKey |-> sig[s].score * e[s]]
<1>1. e \in [SignalKey -> Nat] /\ g \in [SignalKey -> Nat]
  BY EvidenceType, ScoredType
<1>2. \A s \in SignalKey : sig[s].score \in Nat
  BY FieldTypes
<1> HIDE DEF e
<1>3. \A s \in Available(sig) : [t \in SignalKey |-> k * e[t]][s] <= g[s]
  <2> SUFFICES ASSUME NEW s \in Available(sig) PROVE k * e[s] <= sig[s].score * e[s]
    BY DEF Available
  <2>1. s \in SignalKey /\ e[s] \in Nat /\ sig[s].score \in Nat /\ k <= sig[s].score
    BY <1>1, <1>2 DEF Available
  <2> QED BY <2>1
<1> HIDE DEF g
<1>4. k * SumOfAvailable(sig, e) <= SumOfAvailable(sig, g)
  BY <1>1, <1>3, SumScaled, SumMonotone
<1>5. k * EvidenceWeight(sig) <= ScoredWeight(sig)
  BY <1>4 DEF EvidenceWeight, ScoredWeight, e, g
<1> QED BY <1>5, EvidenceType, ScoredType, NearestAtLeast DEF Composite

LEMMA CompositeAtMost ==
  ASSUME NEW sig \in [SignalKey -> Normalised], EvidenceWeight(sig) > 0,
         NEW k \in Nat, \A s \in Available(sig) : sig[s].score <= k
  PROVE  Composite(sig) <= k
<1> DEFINE e == Evidence(sig)
           g == [s \in SignalKey |-> sig[s].score * e[s]]
<1>1. e \in [SignalKey -> Nat] /\ g \in [SignalKey -> Nat]
  BY EvidenceType, ScoredType
<1>2. \A s \in SignalKey : sig[s].score \in Nat
  BY FieldTypes
<1> HIDE DEF e
<1>3. \A s \in Available(sig) : g[s] <= [t \in SignalKey |-> k * e[t]][s]
  <2> SUFFICES ASSUME NEW s \in Available(sig) PROVE sig[s].score * e[s] <= k * e[s]
    BY DEF Available
  <2>1. s \in SignalKey /\ e[s] \in Nat /\ sig[s].score \in Nat /\ sig[s].score <= k
    BY <1>1, <1>2 DEF Available
  <2> QED BY <2>1
<1> HIDE DEF g
<1>4. SumOfAvailable(sig, g) <= k * SumOfAvailable(sig, e)
  BY <1>1, <1>3, SumScaled, SumMonotone
<1>5. ScoredWeight(sig) <= k * EvidenceWeight(sig)
  BY <1>4 DEF EvidenceWeight, ScoredWeight, e, g
<1> QED BY <1>5, EvidenceType, ScoredType, NearestAtMost DEF Composite

LEMMA CompositeType ==
  ASSUME NEW sig \in [SignalKey -> Normalised], EvidenceWeight(sig) > 0
  PROVE  Composite(sig) \in Nat /\ Composite(sig) <= 10000
<1>1. Composite(sig) \in Int
  BY EvidenceType, ScoredType, NearestType DEF Composite
<1>2. \A s \in SignalKey : sig[s].score \in Nat /\ sig[s].score <= 10000
  BY FieldTypes
<1>3. \A s \in Available(sig) : sig[s].score <= 10000 /\ 0 <= sig[s].score
  BY <1>2 DEF Available
<1>4. 0 <= Composite(sig)
  BY <1>3, CompositeAtLeast
<1>5. Composite(sig) <= 10000
  BY <1>3, CompositeAtMost
<1> QED BY <1>1, <1>4, <1>5

(* The score lies between the lowest and the highest sub-score it is made   *)
(* of, rounding included: a missing signal does not drag it (compute).      *)
THEOREM ScoreIsWithinEvidence == Spec => []ScoreWithinEvidence
<1>1. Published => ScoreWithinEvidence
  <2> SUFFICES ASSUME Published, Scored
               PROVE  /\ \E s \in Available(signals) : signals[s].score <= result.score
                      /\ \E s \in Available(signals) : result.score <= signals[s].score
    BY DEF ScoreWithinEvidence
  <2> DEFINE score == Composite(signals)
  <2>1. ~Insufficient(signals) /\ result.score = score /\ signals \in [SignalKey -> Normalised]
    BY DEF Published, Scored, compute
  <2>2. EvidenceWeight(signals) > 0
    BY <2>1, EvidenceType DEF Insufficient
  <2>3. score \in Nat
    BY <2>1, <2>2, CompositeType
  <2>4. \A s \in Available(signals) : signals[s].score \in Nat
    BY <2>1, FieldTypes DEF Available
  <2>5. \E s \in Available(signals) : signals[s].score <= score
    <3> SUFFICES ASSUME \A s \in Available(signals) : ~(signals[s].score <= score)
                 PROVE  FALSE
      OBVIOUS
    <3>1. score + 1 <= score
      <4> HIDE DEF score
      <4>1. \A s \in Available(signals) : score + 1 <= signals[s].score
        BY <2>3, <2>4
      <4>2. score + 1 \in Nat
        BY <2>3
      <4> QED BY <2>1, <2>2, <4>1, <4>2, CompositeAtLeast DEF score
    <3> QED BY <2>3, <3>1
  <2>6. \E s \in Available(signals) : score <= signals[s].score
    <3> SUFFICES ASSUME \A s \in Available(signals) : ~(score <= signals[s].score)
                 PROVE  FALSE
      OBVIOUS
    <3>1. CASE score = 0
      <4>1. Available(signals) = {}
        BY <2>4, <3>1
      <4>2. \A s \in SignalKey : ~signals[s].scored
        BY <4>1 DEF Available
      <4>3. EvidenceWeight(signals) = 0
        BY <4>2 DEF EvidenceWeight, SumOfAvailable, SignalKey
      <4> QED BY <2>2, <4>3
    <3>2. CASE score > 0
      <4> HIDE DEF score
      <4>1. \A s \in Available(signals) : signals[s].score <= score - 1
        BY <2>3, <2>4
      <4>2. score - 1 \in Nat
        BY <2>3, <3>2
      <4>3. score <= score - 1
        BY <2>1, <2>2, <4>1, <4>2, CompositeAtMost DEF score
      <4> QED BY <2>3, <4>3
    <3> QED BY <2>3, <3>1, <3>2
  <2> QED BY <2>1, <2>5, <2>6
<1> QED BY <1>1, PublishedCorrect, PTL

(* Coverage and confidence are shares of the whole.                        *)
LEMMA ShareTypes ==
  ASSUME NEW sig \in [SignalKey -> Normalised]
  PROVE  /\ CoveredWeight(sig) <= 100
         /\ Confidence(sig) \in Nat /\ Confidence(sig) <= 1000
<1> DEFINE e == Evidence(sig)
           most == [s \in SignalKey |-> 1000 * WEIGHTS[s]]
<1>1. WEIGHTS \in [SignalKey -> Nat] /\ most \in [SignalKey -> Nat]
  BY DEF WEIGHTS, SignalKey
<1>2. CoveredWeight(sig) <= 100 /\ CoveredWeight(sig) \in Nat
  BY EvidenceType DEF CoveredWeight, SumOfAvailable, WEIGHTS
<1>3. \A s \in SignalKey : e[s] <= most[s]
  <2> SUFFICES ASSUME NEW s \in SignalKey
               PROVE  WEIGHTS[s] * sig[s].confidence <= 1000 * WEIGHTS[s]
    BY DEF Evidence
  <2>1. WEIGHTS[s] \in Nat /\ sig[s].confidence \in Nat /\ sig[s].confidence <= 1000
    BY <1>1, FieldTypes
  <2> QED BY <2>1
<1>4. EvidenceWeight(sig) <= 1000 * CoveredWeight(sig)
  <2>1. e \in [SignalKey -> Nat]
    BY EvidenceType
  <2> HIDE DEF e
  <2>2. SumOfAvailable(sig, e) <= SumOfAvailable(sig, most)
    BY <1>1, <1>3, <2>1, SumMonotone DEF Available
  <2>3. SumOfAvailable(sig, most) = 1000 * SumOfAvailable(sig, WEIGHTS)
    BY <1>1, SumScaled
  <2> QED BY <2>2, <2>3 DEF EvidenceWeight, CoveredWeight, e
<1>5. EvidenceWeight(sig) <= 1000 * 100 /\ EvidenceWeight(sig) \in Nat
  BY <1>2, <1>4, EvidenceType
<1>6. Confidence(sig) \in Int /\ 0 <= Confidence(sig) /\ Confidence(sig) <= 1000
  <2> DEFINE w == EvidenceWeight(sig)
  <2>1. w \in Nat /\ 0 * 100 <= w /\ w <= 1000 * 100
    BY <1>5
  <2>2. Confidence(sig) = Nearest(w, 100)
    BY DEF Confidence, TotalWeight
  <2> HIDE DEF w
  <2>3. 0 <= Nearest(w, 100)
    BY <2>1, NearestAtLeast
  <2>4. Nearest(w, 100) <= 1000
    BY <2>1, NearestAtMost
  <2>5. Nearest(w, 100) \in Int
    BY <2>1, NearestType
  <2> QED BY <2>2, <2>3, <2>4, <2>5
<1> QED BY <1>2, <1>6

-----------------------------------------------------------------------------
(* What is published decides.                                              *)

(* Pass is a score below Watch, or a demand below its floor.               *)
LEMMA PassIsEarned ==
  ASSUME NEW score, NEW gates \in SUBSET Gates
  PROVE  ApplyGates(BaseVerdict(score), gates) = "pass" <=>
           \/ ~(score >= PURSUE_AT) /\ ~(score >= WATCH_AT)
           \/ "G1_demand_floor_pass" \in gates
<1>1. \A u \in Verdicts : /\ Cap(u, "pass") = "pass"
                          /\ Cap(u, "watch") = "pass" <=> u = "pass"
  BY DEF Cap, Rank, Verdicts
<1>2. BaseVerdict(score) \in Verdicts /\ "pass" \in Verdicts
  BY BaseVerdictType DEF Verdicts
<1> QED BY <1>1, <1>2 DEF ApplyGates, BaseVerdict

(* And Pursue a score that reaches it, with no gate.                       *)
LEMMA PursueIsReached ==
  ASSUME NEW score, NEW gates \in SUBSET Gates
  PROVE  ApplyGates(BaseVerdict(score), gates) = "pursue" <=>
           score >= PURSUE_AT /\ gates = {}
<1>1. ASSUME ApplyGates(BaseVerdict(score), gates) = "pursue"
      PROVE  score >= PURSUE_AT /\ gates = {}
  <2>1. BaseVerdict(score) = "pursue" /\ gates = {}
    BY <1>1, PursueIsUngated
  <2> QED BY <2>1 DEF BaseVerdict
<1>2. ASSUME score >= PURSUE_AT, gates = {}
      PROVE  ApplyGates(BaseVerdict(score), gates) = "pursue"
  BY <1>2 DEF ApplyGates, BaseVerdict
<1> QED BY <1>1, <1>2

(* There is evidence to weigh when some available signal is trusted at all. *)
LEMMA WeightIsTrust ==
  ASSUME NEW sig \in [SignalKey -> Normalised]
  PROVE  EvidenceWeight(sig) > 0 <=> \E s \in Available(sig) : sig[s].confidence > 0
<1> DEFINE e == Evidence(sig)
           term(s) == IF sig[s].scored THEN e[s] ELSE 0
<1>1. \A s \in SignalKey : /\ sig[s].confidence \in Nat /\ WEIGHTS[s] \in Nat /\ WEIGHTS[s] > 0
                           /\ e[s] = WEIGHTS[s] * sig[s].confidence
  BY FieldTypes DEF Evidence, WEIGHTS, SignalKey
<1>2. \A s \in SignalKey : e[s] \in Nat /\ (e[s] > 0 <=> sig[s].confidence > 0)
  <2> SUFFICES ASSUME NEW s \in SignalKey
               PROVE  e[s] \in Nat /\ (e[s] > 0 <=> sig[s].confidence > 0)
    OBVIOUS
  <2> DEFINE w == WEIGHTS[s]
             c == sig[s].confidence
  <2>1. w \in Nat /\ w > 0 /\ c \in Nat /\ e[s] = w * c
    BY <1>1
  <2> HIDE DEF w, c, e
  <2>2. w * c \in Nat /\ (c > 0 => w * c > 0) /\ (c = 0 => w * c = 0)
    BY <2>1
  <2> QED BY <2>1, <2>2 DEF c
<1> HIDE DEF e
<1>3. \A s \in SignalKey : term(s) \in Nat /\ (term(s) > 0 <=> sig[s].scored /\ sig[s].confidence > 0)
  BY <1>2
<1>4. EvidenceWeight(sig) = term("demand") + term("competition") + term("advertising")
        + term("density") + term("customer_value") + term("trends")
  BY DEF EvidenceWeight, SumOfAvailable, e
<1> HIDE DEF term
<1>5. EvidenceWeight(sig) > 0 <=> \E s \in SignalKey : term(s) > 0
  BY <1>3, <1>4 DEF SignalKey
<1> QED BY <1>3, <1>5 DEF Available

(* The published coverage, score, confidence and gates decide the verdict, *)
(* for every reading: thresholds are compared with what is shown.          *)
THEOREM NumbersDecide == Spec => []VerdictMatchesNumbers
<1>1. Published => VerdictMatchesNumbers
  <2> SUFFICES ASSUME Published
               PROVE  VerdictMatchesNumbers
    OBVIOUS
  <2> DEFINE score == Composite(signals)
             confidence == Confidence(signals)
             gates == GatesApplied(signals, confidence)
  <2>1. /\ signals \in [SignalKey -> Normalised] /\ result = compute(signals)
        /\ CoveredWeight(signals) \in Nat /\ EvidenceWeight(signals) \in Nat
        /\ gates \in SUBSET Gates
    BY EvidenceType DEF Published, GatesApplied
  <2>2. Insufficient(signals) <=>
          \/ ~(10 * CoveredWeight(signals) >= 500)
          \/ ~\E s \in Available(signals) : signals[s].confidence > 0
    BY <2>1, WeightIsTrust DEF Insufficient, TotalWeight
  <2>3. result.coverage = 10 * CoveredWeight(signals)
    BY <2>1 DEF compute
  <2>4. CASE Insufficient(signals)
    <3>1. ~Scored
      BY <2>1, <2>4 DEF Scored, compute
    <3> QED BY <2>2, <2>3, <2>4, <3>1 DEF VerdictMatchesNumbers
  <2>5. CASE ~Insufficient(signals)
    <3>1. /\ result.verdict = ApplyGates(BaseVerdict(score), gates)
          /\ result.score = score /\ result.confidence = confidence /\ result.gates = gates
      BY <2>1, <2>5 DEF compute
    <3>2. confidence \in Int /\ score \in Int
      <4>1. EvidenceWeight(signals) > 0
        BY <2>1, <2>5 DEF Insufficient
      <4> QED BY <2>1, <4>1, CompositeType, ShareTypes
    <3>3. "G2_low_confidence" \in gates <=> confidence < CONFIDENCE_GATE
      BY DEF GatesApplied, Gates
    <3> HIDE DEF score, confidence, gates
    <3>4. ApplyGates(BaseVerdict(score), gates) \in Verdicts
      BY BaseVerdictType, GatesLower
    <3>5. Scored
      BY <3>1, <3>4 DEF Scored, Verdicts
    <3>6. result.verdict = "pursue" <=> score >= 7000 /\ gates = {}
      BY <2>1, <3>1, PursueIsReached DEF PURSUE_AT
    <3>7. result.verdict = "pass" <=> score < 4500 \/ "G1_demand_floor_pass" \in gates
      BY <2>1, <3>1, <3>2, PassIsEarned DEF PURSUE_AT, WATCH_AT
    <3> QED BY <2>2, <2>3, <2>5, <3>1, <3>3, <3>5, <3>6, <3>7
            DEF VerdictMatchesNumbers, CONFIDENCE_GATE
  <2> QED BY <2>4, <2>5
<1> QED BY <1>1, PublishedCorrect, PTL

-----------------------------------------------------------------------------
(* Types.                                                                  *)

LEMMA InSubScore == ASSUME NEW x \in Nat, x <= 10000 PROVE x \in SubScore
BY SMTT(60) DEF SubScore

LEMMA InShare == ASSUME NEW x \in Nat, x <= 1000 PROVE x \in Share
BY SMTT(60) DEF Share

(* Scores, confidences and coverage stay in the ranges the columns of       *)
(* signals and scores declare.                                              *)
THEOREM TypeCorrect == Spec => []TypeOK
<1>1. Published => TypeOK
  <2> SUFFICES ASSUME Published PROVE TypeOK
    OBVIOUS
  <2> DEFINE score == Composite(signals)
             confidence == Confidence(signals)
             covered == CoveredWeight(signals)
             gates == GatesApplied(signals, confidence)
             verdict == ApplyGates(BaseVerdict(score), gates)
  <2>1. signals \in [SignalKey -> Normalised]
    BY DEF Published
  <2>2. 10 * covered \in Share /\ 0 \in Share /\ 0 \in SubScore
    BY <2>1, ShareTypes, EvidenceType DEF Share, SubScore
  <2>3. CASE Insufficient(signals)
    <3>1. result = [verdict |-> "none", score |-> 0, confidence |-> 0,
                    coverage |-> 10 * covered, gates |-> {}]
      BY <2>3 DEF Published, compute
    <3> QED BY <2>1, <2>2, <3>1 DEF TypeOK
  <2>4. CASE ~Insufficient(signals)
    <3>1. result = [verdict |-> verdict, score |-> score, confidence |-> confidence,
                    coverage |-> 10 * covered, gates |-> gates]
      BY <2>4 DEF Published, compute
    <3>2. EvidenceWeight(signals) > 0
      BY <2>1, <2>4, EvidenceType DEF Insufficient
    <3>3. score \in SubScore /\ confidence \in Share
      <4>1. score \in Nat /\ score <= 10000
        BY <2>1, <3>2, CompositeType
      <4>2. confidence \in Nat /\ confidence <= 1000
        BY <2>1, ShareTypes
      <4> HIDE DEF score, confidence
      <4>3. score \in SubScore
        BY <4>1, InSubScore
      <4>4. confidence \in Share
        BY <4>2, InShare
      <4> QED BY <4>3, <4>4
    <3>4. gates \in SUBSET Gates
      BY DEF GatesApplied
    <3>5. verdict \in Verdicts
      BY BaseVerdictType, GatesLower
    <3> HIDE DEF score, confidence, covered, gates, verdict
    <3> QED BY <2>1, <2>2, <3>1, <3>3, <3>4, <3>5 DEF TypeOK
  <2> QED BY <2>3, <2>4
<1> QED BY <1>1, PublishedCorrect, PTL

-----------------------------------------------------------------------------
(* From one run of a market to the next.                                   *)

LEMMA NearestMonotone ==
  ASSUME NEW a \in Nat, NEW c \in Nat, a <= c, NEW b \in Nat, b > 0
  PROVE  Nearest(a, b) <= Nearest(c, b)
<1> DEFINE p == Nearest(a, b)
           q == Nearest(c, b)
<1>1. p \in Int /\ 2 * b * p <= 2 * a + b
  BY NearestType
<1>2. q \in Int /\ 2 * c + b < 2 * b * q + 2 * b
  BY NearestType
<1> HIDE DEF p, q
<1>3. ASSUME p >= q + 1 PROVE FALSE
  <2>1. b * p >= b * (q + 1)
    BY <1>1, <1>2, <1>3
  <2> QED BY <1>1, <1>2, <2>1
<1> QED BY <1>1, <1>2, <1>3 DEF p, q

(* A signal that is lost takes its weight with it.                         *)
LEMMA LosingASignal ==
  ASSUME NEW old \in [SignalKey -> Normalised], NEW new \in [SignalKey -> Normalised],
         NEW s \in SignalKey, \A t \in SignalKey \ {s} : new[t] = old[t],
         old[s].scored, ~new[s].scored
  PROVE  /\ CoveredWeight(new) < CoveredWeight(old)
         /\ EvidenceWeight(new) <= EvidenceWeight(old)
<1>1. ASSUME NEW f \in [SignalKey -> Nat], NEW g \in [SignalKey -> Nat],
             \A t \in SignalKey \ {s} : g[t] = f[t]
      PROVE  SumOfAvailable(new, g) + f[s] = SumOfAvailable(old, f)
  <2> DEFINE tf(t) == IF old[t].scored THEN f[t] ELSE 0
             tg(t) == IF new[t].scored THEN g[t] ELSE 0
  <2>1. \A t \in SignalKey : tf(t) \in Nat /\ tg(t) \in Nat
    OBVIOUS
  <2>2. \A t \in SignalKey \ {s} : tg(t) = tf(t)
    BY <1>1
  <2>3. tf(s) = f[s] /\ tg(s) = 0
    OBVIOUS
  <2> HIDE DEF tf, tg
  <2>4. /\ SumOfAvailable(old, f) = tf("demand") + tf("competition") + tf("advertising")
             + tf("density") + tf("customer_value") + tf("trends")
        /\ SumOfAvailable(new, g) = tg("demand") + tg("competition") + tg("advertising")
             + tg("density") + tg("customer_value") + tg("trends")
    BY DEF SumOfAvailable, tf, tg
  <2>5. tg(s) + f[s] = tf(s)
    BY <2>1, <2>3
  <2> QED BY <2>1, <2>2, <2>3, <2>4 DEF SignalKey
<1>2. WEIGHTS \in [SignalKey -> Nat] /\ WEIGHTS[s] > 0
  BY DEF WEIGHTS, SignalKey
<1>3. CoveredWeight(new) + WEIGHTS[s] = CoveredWeight(old)
  BY <1>1, <1>2 DEF CoveredWeight
<1>4. /\ Evidence(old) \in [SignalKey -> Nat] /\ Evidence(new) \in [SignalKey -> Nat]
      /\ \A t \in SignalKey \ {s} : Evidence(new)[t] = Evidence(old)[t]
  BY EvidenceType DEF Evidence
<1>5. EvidenceWeight(new) + Evidence(old)[s] = EvidenceWeight(old)
  BY <1>1, <1>4 DEF EvidenceWeight
<1>6. Evidence(old)[s] \in Nat
  BY <1>4
<1> QED BY <1>2, <1>3, <1>5, <1>6, EvidenceType

(* Losing a signal lowers the coverage, never raises the confidence, and   *)
(* never lets a market be scored that could not be scored with it.         *)
THEOREM LosingEvidence == Spec => LosingEvidenceShows
<1>1. Published /\ Published' =>
        \A s \in SignalKey :
          Changed(s) /\ signals[s].scored /\ ~signals'[s].scored =>
            /\ result'.coverage < result.coverage
            /\ result'.confidence <= result.confidence
            /\ result'.verdict # "none" => result.verdict # "none"
  <2> SUFFICES ASSUME Published, Published', NEW s \in SignalKey,
                      Changed(s), signals[s].scored, ~signals'[s].scored
               PROVE  /\ result'.coverage < result.coverage
                      /\ result'.confidence <= result.confidence
                      /\ result'.verdict # "none" => result.verdict # "none"
    OBVIOUS
  <2>1. /\ signals \in [SignalKey -> Normalised] /\ signals' \in [SignalKey -> Normalised]
        /\ result = compute(signals) /\ result' = compute(signals')
    BY DEF Published
  <2>2. /\ CoveredWeight(signals') < CoveredWeight(signals)
        /\ EvidenceWeight(signals') <= EvidenceWeight(signals)
        /\ CoveredWeight(signals') \in Nat /\ CoveredWeight(signals) \in Nat
        /\ EvidenceWeight(signals') \in Nat /\ EvidenceWeight(signals) \in Nat
    BY <2>1, LosingASignal, EvidenceType DEF Changed
  <2>3. Insufficient(signals) => Insufficient(signals')
    BY <2>2 DEF Insufficient, TotalWeight
  <2>4. \A sig : /\ compute(sig).coverage = 10 * CoveredWeight(sig)
                 /\ Insufficient(sig) => /\ compute(sig).confidence = 0
                                         /\ compute(sig).verdict = "none"
                 /\ ~Insufficient(sig) => compute(sig).confidence = Confidence(sig)
    BY DEF compute
  <2>5. result'.coverage < result.coverage
    BY <2>1, <2>2, <2>4
  <2>6. Confidence(signals') <= Confidence(signals)
        /\ Confidence(signals) \in Nat
    BY <2>1, <2>2, NearestMonotone, ShareTypes DEF Confidence, TotalWeight
  <2>7. result'.confidence <= result.confidence
    BY <2>1, <2>3, <2>4, <2>6
  <2>8. ~Insufficient(signals) => result.verdict # "none"
    <3>1. ~Insufficient(signals) =>
            result.verdict = ApplyGates(BaseVerdict(Composite(signals)),
                                        GatesApplied(signals, Confidence(signals)))
      BY <2>1 DEF compute
    <3>2. \A v \in Verdicts : v # "none"
      BY DEF Verdicts
    <3> QED BY <3>1, <3>2, BaseVerdictType, GatesLower
  <2> QED BY <2>1, <2>3, <2>4, <2>5, <2>7, <2>8
<1> QED BY <1>1, PublishedCorrect, PTL DEF LosingEvidenceShows

(* Fewer gates and a better base verdict cannot give a worse verdict.      *)
LEMMA GatesMonotone ==
  ASSUME NEW v \in Verdicts, NEW w \in Verdicts, Rank[v] <= Rank[w],
         NEW gates, NEW fewer, fewer \subseteq gates \/ "G1_demand_floor_pass" \in gates
  PROVE  Rank[ApplyGates(v, gates)] <= Rank[ApplyGates(w, fewer)]
<1>1. \A u \in Verdicts : Rank[u] \in Nat
  BY DEF Rank, Verdicts
<1>2. ApplyGates(v, gates) \in Verdicts /\ ApplyGates(w, fewer) \in Verdicts
  BY GatesLower
<1>3. CASE "G1_demand_floor_pass" \in gates
  <2>1. Cap(v, "pass") = "pass" /\ Cap("pass", "watch") = "pass"
    BY DEF Cap, Rank, Verdicts
  <2>2. ApplyGates(v, gates) = "pass"
    BY <1>3, <2>1 DEF ApplyGates
  <2>3. Rank["pass"] = 0
    BY DEF Rank
  <2> QED BY <1>1, <1>2, <2>2, <2>3
<1>4. CASE "G1_demand_floor_pass" \notin gates
  <2>1. fewer \subseteq gates /\ "G1_demand_floor_pass" \notin fewer
    BY <1>4
  <2>2. /\ Rank[Cap(v, "watch")] <= Rank[Cap(w, "watch")]
        /\ Rank[Cap(v, "watch")] <= Rank[w]
    BY DEF Cap, Rank, Verdicts
  <2>3. /\ ApplyGates(v, gates) = IF gates # {} THEN Cap(v, "watch") ELSE v
        /\ ApplyGates(w, fewer) = IF fewer # {} THEN Cap(w, "watch") ELSE w
    BY <1>4, <2>1 DEF ApplyGates
  <2> QED BY <2>1, <2>2, <2>3
<1> QED BY <1>3, <1>4

LEMMA BaseVerdictMonotone ==
  ASSUME NEW x \in Nat, NEW y \in Nat, x <= y
  PROVE  Rank[BaseVerdict(x)] <= Rank[BaseVerdict(y)]
  BY DEF BaseVerdict, Rank, PURSUE_AT, WATCH_AT

(* The same signals, as sure as before, none of them lower.                *)
LEMMA BetterReading ==
  ASSUME NEW old \in [SignalKey -> Normalised], NEW new \in [SignalKey -> Normalised],
         \A t \in SignalKey : /\ new[t].scored = old[t].scored
                              /\ new[t].confidence = old[t].confidence
                              /\ new[t].score >= old[t].score
  PROVE  /\ Insufficient(new) = Insufficient(old)
         /\ Confidence(new) = Confidence(old)
         /\ EvidenceWeight(old) > 0 => Composite(old) <= Composite(new)
<1>1. Evidence(new) = Evidence(old)
  BY DEF Evidence
<1>2. \A f : SumOfAvailable(new, f) = SumOfAvailable(old, f)
  BY DEF SumOfAvailable, SignalKey
<1>3. EvidenceWeight(new) = EvidenceWeight(old) /\ CoveredWeight(new) = CoveredWeight(old)
  BY <1>1, <1>2 DEF EvidenceWeight, CoveredWeight
<1> DEFINE e == Evidence(old)
           f == [t \in SignalKey |-> old[t].score * e[t]]
           g == [t \in SignalKey |-> new[t].score * e[t]]
<1>4. /\ e \in [SignalKey -> Nat]
      /\ f \in [SignalKey -> Nat] /\ g \in [SignalKey -> Nat]
  BY <1>1, EvidenceType, ScoredType
<1>5. \A t \in SignalKey : old[t].score \in Nat /\ new[t].score \in Nat
  BY FieldTypes
<1> HIDE DEF e
<1>6. \A t \in Available(old) : f[t] <= g[t]
  <2> SUFFICES ASSUME NEW t \in SignalKey PROVE old[t].score * e[t] <= new[t].score * e[t]
    BY DEF Available
  <2>1. /\ e[t] \in Nat /\ old[t].score \in Nat /\ new[t].score \in Nat
        /\ old[t].score <= new[t].score
    BY <1>4, <1>5
  <2> QED BY <2>1
<1> HIDE DEF f, g
<1>7. SumOfAvailable(old, f) <= SumOfAvailable(old, g)
  BY <1>4, <1>6, SumMonotone
<1>8. ScoredWeight(old) = SumOfAvailable(old, f) /\ ScoredWeight(new) = SumOfAvailable(old, g)
  BY <1>1, <1>2 DEF ScoredWeight, e, f, g
<1>9. ScoredWeight(old) <= ScoredWeight(new)
  BY <1>7, <1>8
<1>10. ASSUME EvidenceWeight(old) > 0 PROVE Composite(old) <= Composite(new)
  BY <1>3, <1>9, <1>10, EvidenceType, ScoredType, NearestMonotone DEF Composite
<1> QED BY <1>3, <1>10 DEF Insufficient, Confidence

(* One step of it.                                                         *)
LEMMA BetterReadingStep ==
  Published /\ Published' =>
    \A s \in SignalKey :
      /\ Changed(s) /\ Scored /\ signals[s].scored /\ signals'[s].scored
      /\ signals'[s].score >= signals[s].score
      /\ signals'[s].confidence = signals[s].confidence
      /\ signals'[s].declining => signals[s].declining
      => /\ result'.score >= result.score
         /\ Rank[result'.verdict] >= Rank[result.verdict]
<1> SUFFICES ASSUME Published, Published', NEW s \in SignalKey,
                    Changed(s), Scored, signals[s].scored, signals'[s].scored,
                    signals'[s].score >= signals[s].score,
                    signals'[s].confidence = signals[s].confidence,
                    signals'[s].declining => signals[s].declining
             PROVE  /\ result'.score >= result.score
                    /\ Rank[result'.verdict] >= Rank[result.verdict]
  OBVIOUS
<1> DEFINE old == signals
           new == signals'
           gates == GatesApplied(old, Confidence(old))
           fewer == GatesApplied(new, Confidence(new))
<1>1. /\ old \in [SignalKey -> Normalised] /\ new \in [SignalKey -> Normalised]
      /\ result = compute(old) /\ result' = compute(new)
  BY DEF Published
<1>2. \A t \in SignalKey : old[t].score \in Nat /\ new[t].score \in Nat
  BY <1>1, FieldTypes
<1>3. \A t \in SignalKey : /\ old[t].scored \in BOOLEAN /\ new[t].scored \in BOOLEAN
                           /\ old[t].declining \in BOOLEAN
  BY <1>1 DEF Normalised
<1>4. \A t \in SignalKey : /\ new[t].scored = old[t].scored
                           /\ new[t].confidence = old[t].confidence
                           /\ new[t].score >= old[t].score
                           /\ new[t].declining => old[t].declining
  BY <1>2, <1>3 DEF Changed
<1>5. /\ Insufficient(new) = Insufficient(old) /\ Confidence(new) = Confidence(old)
      /\ EvidenceWeight(old) > 0 => Composite(old) <= Composite(new)
  BY <1>1, <1>4, BetterReading
<1>6. ~Insufficient(old) /\ ~Insufficient(new)
  BY <1>1, <1>5 DEF Scored, compute
<1>7. /\ result.score = Composite(old) /\ result'.score = Composite(new)
      /\ result.verdict = ApplyGates(BaseVerdict(Composite(old)), gates)
      /\ result'.verdict = ApplyGates(BaseVerdict(Composite(new)), fewer)
  BY <1>1, <1>6 DEF compute
<1>8. EvidenceWeight(old) > 0 /\ EvidenceWeight(new) > 0
  BY <1>1, <1>6, EvidenceType DEF Insufficient
<1>9. /\ Composite(old) \in Nat /\ Composite(new) \in Nat
      /\ Composite(old) <= Composite(new)
  BY <1>1, <1>5, <1>8, CompositeType
<1>10. fewer \subseteq gates \/ "G1_demand_floor_pass" \in gates
  <2>1. "demand" \in SignalKey /\ "trends" \in SignalKey
        /\ "advertising" \in SignalKey /\ "customer_value" \in SignalKey
    BY DEF SignalKey
  <2>2. CASE old["demand"].scored /\ old["demand"].score < DEMAND_PASS_FLOOR
    BY <2>2 DEF GatesApplied, Gates
  <2>3. CASE ~(old["demand"].scored /\ old["demand"].score < DEMAND_PASS_FLOOR)
    BY <1>2, <1>4, <1>5, <2>1, <2>3
       DEF GatesApplied, DEMAND_PASS_FLOOR, DEMAND_CAP_FLOOR
  <2> QED BY <2>2, <2>3
<1> HIDE DEF old, new, gates, fewer
<1>11. Rank[BaseVerdict(Composite(old))] <= Rank[BaseVerdict(Composite(new))]
  BY <1>9, BaseVerdictMonotone
<1>12. Rank[ApplyGates(BaseVerdict(Composite(old)), gates)]
         <= Rank[ApplyGates(BaseVerdict(Composite(new)), fewer)]
  BY <1>10, <1>11, BaseVerdictType, GatesMonotone
<1>13. \A u \in Verdicts : Rank[u] \in Nat
  BY DEF Rank, Verdicts
<1>14. result.verdict \in Verdicts /\ result'.verdict \in Verdicts
  BY <1>7, BaseVerdictType, GatesLower
<1> QED BY <1>7, <1>9, <1>12, <1>13, <1>14

(* A better reading of one signal never worsens the score or the verdict.  *)
THEOREM BetterReadings == Spec => BetterReadingNeverHurts
BY BetterReadingStep, PublishedCorrect, PTL DEF BetterReadingNeverHurts
=============================================================================
