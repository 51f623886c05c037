----------------------------- MODULE MCNormalise -----------------------------
(***************************************************************************)
(* Payloads on both sides of what the normalisers and the gates tell       *)
(* apart; the logarithms are in thousandths.  With a competition of middle *)
(* strength some means of the sub-scores fall just short of 70 and of 45   *)
(* and are rounded up to them.                                             *)
(***************************************************************************)
EXTENDS Normalise, Sequences

LnTable ==
  LET at == <<1, 2, 5, 15, 61, 100, 128, 200, 254, 400, 710, 12400, 50000, 90000>>
      ln == <<0, 693, 1609, 2708, 4111, 4605, 4852, 5298, 5537, 5991, 6565, 9425, 10820, 11408>>
  IN [n \in {at[i] : i \in 1 .. Len(at)} |-> ln[CHOOSE i \in 1 .. Len(at) : at[i] = n]]

PayloadsOfSignals ==
  [demand |-> [monthly_searches : {0, 254, 90000}],
   competition |-> [aggregator_share : {100}, paid_slots : {6}, distinct_domains : {3}]
                     \cup [aggregator_share : {0}, paid_slots : {0}, distinct_domains : {12}]
                     \cup [aggregator_share : {36}, paid_slots : {3}, distinct_domains : {7}],
   advertising |-> [competition_index : {Null, 55}]
                     \cup [advertiser_count : {14}, advertiser_growth_90d : {-51, 180}],
   density |-> [business_count : {0, 128}],
   customer_value |-> [cpc : {200, 12400}, cpc_basket_median : {710}]
                        \cup {[cpc |-> 0, cpc_basket_median |-> 710],
                              [cpc |-> 12400, cpc_basket_median |-> 0]},
   trends |-> [yoy_slope : {-31, 120}, granularity : {"city", "admin1"}]
                \cup [yoy_slope : {120}]]

ReadingsFound ==
  [s \in SignalKey |-> {normalise(s, p, n) : p \in PayloadsOfSignals[s], n \in {0, 2600}}]
=============================================================================
