------------------------------- MODULE Scoring -------------------------------
(***************************************************************************)
(* compute of engine/signals/score.py: the composite score, its confidence *)
(* and the gated verdict of a market, from its six normalised signals.     *)
(*                                                                         *)
(* Sub-scores and scores are in hundredths, as they are rounded and stored;*)
(* confidences and coverage are in thousandths, weights in hundredths.  The*)
(* code computes in doubles and rounds with round(); here the quotients are*)
(* exact and a tie is rounded up.                                          *)
(*                                                                         *)
(* The state is the evidence of a market's latest run and its score.  From *)
(* one run to the next one signal changes, so that properties can compare  *)
(* what the same market gets with better, worse or no evidence.            *)
(***************************************************************************)
EXTENDS Integers

CONSTANT Readings    \* what normalise() may return for each signal

SignalKey == {"demand", "competition", "advertising", "density",
              "customer_value", "trends"}

SubScore == 0 .. 10000
Share == 0 .. 1000

\* declining: the band.  It matters for trends only.
Normalised == [scored : BOOLEAN, score : SubScore, confidence : Share,
               declining : BOOLEAN]

unavailable == [scored |-> FALSE, score |-> 0, confidence |-> 0, declining |-> FALSE]

ASSUME ReadingsAssumption == Readings \in [SignalKey -> SUBSET Normalised]

WEIGHTS == [demand |-> 25, competition |-> 20, customer_value |-> 20,
            density |-> 15, advertising |-> 10, trends |-> 10]
TotalWeight == 100

PURSUE_AT == 7000
WATCH_AT == 4500
DEMAND_CAP_FLOOR == 3000
DEMAND_PASS_FLOOR == 1500
CONFIDENCE_GATE == 500

VARIABLES signals, result

vars == <<signals, result>>

Verdicts == {"pass", "watch", "pursue"}
Rank == [pass |-> 0, watch |-> 1, pursue |-> 2]
Gates == {"G1_demand_floor_pass", "G1_demand_floor_watch", "G2_low_confidence",
          "G3_no_monetisation_evidence", "G4_declining_trend"}

-----------------------------------------------------------------------------
\* Gates only ever lower a verdict.
Cap(verdict, ceiling) == IF Rank[verdict] <= Rank[ceiling] THEN verdict ELSE ceiling

\* The gates that fire, each for its own condition.
GatesApplied(sig, confidence) ==
  LET demand == sig["demand"]
  IN {g \in Gates :
        \/ /\ g = "G1_demand_floor_pass"
           /\ demand.scored /\ demand.score < DEMAND_PASS_FLOOR
        \/ /\ g = "G1_demand_floor_watch"
           /\ demand.scored /\ demand.score >= DEMAND_PASS_FLOOR
           /\ demand.score < DEMAND_CAP_FLOOR
        \/ /\ g = "G2_low_confidence" /\ confidence < CONFIDENCE_GATE
        \/ /\ g = "G3_no_monetisation_evidence"
           /\ ~sig["advertising"].scored /\ ~sig["customer_value"].scored
        \/ /\ g = "G4_declining_trend" /\ sig["trends"].declining}

\* Every gate but the lower demand floor caps at Watch.
ApplyGates(verdict, gates) ==
  LET floored == IF "G1_demand_floor_pass" \in gates THEN Cap(verdict, "pass") ELSE verdict
  IN IF gates \ {"G1_demand_floor_pass"} # {} THEN Cap(floored, "watch") ELSE floored

\* Variant: a score on a threshold does not reach it.
BaseVerdictAbove(score) ==
  IF score > PURSUE_AT THEN "pursue" ELSE IF score > WATCH_AT THEN "watch" ELSE "pass"

BaseVerdict(score) ==
  IF score >= PURSUE_AT THEN "pursue" ELSE IF score >= WATCH_AT THEN "watch" ELSE "pass"

-----------------------------------------------------------------------------
Nearest(a, b) == (2 * a + b) \div (2 * b)

Available(sig) == {s \in SignalKey : sig[s].scored}

\* The sum of f over the available signals.
SumOfAvailable(sig, f) ==
  LET term(s) == IF sig[s].scored THEN f[s] ELSE 0
  IN term("demand") + term("competition") + term("advertising")
       + term("density") + term("customer_value") + term("trends")

CoveredWeight(sig) == SumOfAvailable(sig, WEIGHTS)

\* Importance times confidence.
Evidence(sig) == [s \in SignalKey |-> WEIGHTS[s] * sig[s].confidence]
EvidenceWeight(sig) == SumOfAvailable(sig, Evidence(sig))

ScoredWeight(sig) ==
  SumOfAvailable(sig, [s \in SignalKey |-> sig[s].score * Evidence(sig)[s]])

\* Variant: divided by the weight of all signals.
CompositeOverAll(sig) == Nearest(ScoredWeight(sig), 1000 * TotalWeight)

\* Renormalised over what exists.
Composite(sig) == Nearest(ScoredWeight(sig), EvidenceWeight(sig))

\* Variant: relative to the signals that exist, not to all of them.
ConfidenceOfAvailable(sig) == Nearest(EvidenceWeight(sig), CoveredWeight(sig))

Confidence(sig) == Nearest(EvidenceWeight(sig), TotalWeight)

\* InsufficientEvidence: coverage below 0.5, or no confidence in any of it.
Insufficient(sig) == 2 * CoveredWeight(sig) < TotalWeight \/ EvidenceWeight(sig) <= 0

compute(sig) ==
  IF Insufficient(sig)
  THEN [verdict |-> "none", score |-> 0, confidence |-> 0,
        coverage |-> 10 * CoveredWeight(sig), gates |-> {}]
  ELSE LET score == Composite(sig)
           confidence == Confidence(sig)
           gates == GatesApplied(sig, confidence)
       IN [verdict |-> ApplyGates(BaseVerdict(score), gates), score |-> score,
           confidence |-> confidence, coverage |-> 10 * CoveredWeight(sig),
           gates |-> gates]

Init ==
  /\ signals = [s \in SignalKey |-> unavailable]
  /\ result = compute(signals)

\* The market's next run, whose evidence differs in one signal.
Run ==
  \E s \in SignalKey : \E n \in Readings[s] \cup {unavailable} :
    /\ signals' = [signals EXCEPT ![s] = n]
    /\ result' = compute(signals')

Next == Run

Spec == Init /\ [][Next]_vars

-----------------------------------------------------------------------------
TypeOK ==
  /\ signals \in [SignalKey -> Normalised]
  /\ result \in [verdict : Verdicts \cup {"none"}, score : SubScore,
                 confidence : Share, coverage : Share, gates : SUBSET Gates]

Scored == result.verdict # "none"

\* What is published decides: a market is scored from half the weight on, if any
\* of it is trusted, and whoever reads score, confidence and gates arrives at the
\* verdict.  A score that shows 70.00 or 45.00 has reached it, although the mean it
\* is rounded from may not have, and so has a confidence that shows 0.500.
VerdictMatchesNumbers ==
  /\ Scored <=> /\ result.coverage >= 500
                /\ \E s \in Available(signals) : signals[s].confidence > 0
  /\ Scored =>
       /\ result.verdict = "pursue" <=> result.score >= 7000 /\ result.gates = {}
       /\ result.verdict = "pass" <=>
            result.score < 4500 \/ "G1_demand_floor_pass" \in result.gates
       /\ "G2_low_confidence" \in result.gates <=> result.confidence < 500

\* The published verdict is never better than what the published score earns:
\* every gate lowers, whatever the order and number of those that fire.
GatesOnlyLower ==
  Scored => Rank[result.verdict] <= Rank[BaseVerdict(result.score)]

\* Pursue is never advised on thin evidence, without a sign that the market
\* monetises, against a falling trend or on demand known to be low.
PursueIsEarned ==
  result.verdict = "pursue" =>
    /\ result.score >= PURSUE_AT /\ result.confidence >= CONFIDENCE_GATE
    /\ signals["advertising"].scored \/ signals["customer_value"].scored
    /\ ~signals["trends"].declining
    /\ signals["demand"].scored => signals["demand"].score >= DEMAND_CAP_FLOOR

\* The score is a mean of the evidence: it lies between the lowest and the
\* highest sub-score, rounding included, so missing signals do not drag it down.
ScoreWithinEvidence ==
  Scored =>
    /\ \E s \in Available(signals) : signals[s].score <= result.score
    /\ \E s \in Available(signals) : result.score <= signals[s].score

\* The step changes signal s only.
Changed(s) == \A t \in SignalKey \ {s} : signals'[t] = signals[t]

\* A better reading of one signal, as sure as the old one, never worsens the
\* score or the verdict.
BetterReadingNeverHurts ==
  [][\A s \in SignalKey :
       /\ Changed(s) /\ Scored /\ signals[s].scored /\ signals'[s].scored
       /\ signals'[s].score >= signals[s].score
       /\ signals'[s].confidence = signals[s].confidence
       /\ signals'[s].declining => signals[s].declining
       => /\ result'.score >= result.score
          /\ Rank[result'.verdict] >= Rank[result.verdict]]_vars

\* Losing a signal never makes a market look better evidenced: confidence and
\* coverage fall, and what could not be scored still cannot.
LosingEvidenceShows ==
  [][\A s \in SignalKey :
       Changed(s) /\ signals[s].scored /\ ~signals'[s].scored =>
         /\ result'.coverage < result.coverage
         /\ result'.confidence <= result.confidence
         /\ result'.verdict # "none" => result.verdict # "none"]_vars
=============================================================================
