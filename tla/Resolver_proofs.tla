--------------------------- MODULE Resolver_proofs ---------------------------
(***************************************************************************)
(* Theorems about Resolver, for every taxonomy, every similarity of texts  *)
(* and any number of handlers.                                             *)
(***************************************************************************)
EXTENDS Resolver, FiniteSetTheorems, TLAPS

(* What a handler holds at each statement.                                 *)
Holds(h) ==
  /\ pc[h] \in {"idle", "lookup", "match", "bykey", "market", "insert"} =>
       newMarket[h] = NoMarket
  /\ pc[h] \in {"lookup", "match", "alias"} => req[h] \in Inputs
  /\ pc[h] \in {"market", "insert", "alias", "commit"} =>
       found[h] \in Pair /\ conf[h] >= resolution_min_confidence
  /\ newMarket[h] # NoMarket => newMarket[h] = found[h]
  /\ pc[h] \in {"alias", "commit"} => found[h] \in markets \/ newMarket[h] = found[h]

(* The alias row it has written is the committed one with one hit more.    *)
Writes(h) ==
  newAlias[h] # NoAlias =>
    /\ pc[h] = "commit" /\ req[h] \in Inputs
    /\ newAlias[h] = Upserted(req[h], found[h], conf[h])

(* A row of market_aliases is written by one open transaction at a time.   *)
Exclusive ==
  \A g, h \in Handlers :
    newAlias[g] # NoAlias /\ newAlias[h] # NoAlias /\ req[g] = req[h] => g = h

Working == \A h \in Handlers : Holds(h) /\ Writes(h)

IInv == TypeOK /\ Working /\ Exclusive /\ MarketsAreReal /\ HitsAreResolutions

LEMMA InitInv == Init => IInv
<1> SUFFICES ASSUME Init PROVE IInv
  OBVIOUS
<1>1. TypeOK
  <2>1. markets \subseteq Pair /\ services \subseteq Services /\ locations \subseteq Locations
    BY TaxonomyAssumption DEF Init, Pair
  <2> QED BY <2>1 DEF Init, TypeOK, Statements, Share
<1>2. Working /\ Exclusive
  BY DEF Init, Working, Holds, Writes, Exclusive
<1>3. MarketsAreReal /\ HitsAreResolutions
  BY DEF Init, MarketsAreReal, HitsAreResolutions
<1> QED BY <1>1, <1>2, <1>3 DEF IInv

-----------------------------------------------------------------------------
(* Rows.                                                                   *)

LEMMA UpsertedIsAlias ==
  ASSUME TypeOK, NEW i \in Inputs, NEW p \in Pair, NEW c \in Share
  PROVE  Upserted(i, p, c) \in Alias
<1>1. CASE aliases[i] = NoAlias
  BY <1>1 DEF Upserted, Alias
<1>2. CASE aliases[i] # NoAlias
  <2>1. aliases[i] \in Alias
    BY <1>2 DEF TypeOK
  <2> QED BY <1>2, <2>1 DEF Upserted, Alias
<1> QED BY <1>1, <1>2

LEMMA ShareIsNat == ASSUME NEW x \in Share PROVE x \in Nat
BY DEF Share

LEMMA PairConfIsShare ==
  ASSUME NEW i \in Inputs, NEW p \in Pair
  PROVE  /\ PairConf(i, p) \in Share
         /\ PairConf(i, p) = ServiceConf[i][p[1]] \/ PairConf(i, p) = LocationConf[i][p[2]]
         /\ PairConf(i, p) <= ServiceConf[i][p[1]] /\ PairConf(i, p) <= LocationConf[i][p[2]]
<1> DEFINE s == ServiceConf[i][p[1]]
           l == LocationConf[i][p[2]]
<1>1. s \in Share /\ l \in Share
  BY ConfidenceAssumption DEF Pair
<1> HIDE DEF s, l
<1>2. s \in Nat /\ l \in Nat
  BY <1>1, ShareIsNat
<1>3. PairConf(i, p) = IF s <= l THEN s ELSE l
  BY DEF PairConf, s, l
<1>4. /\ PairConf(i, p) \in Share
      /\ PairConf(i, p) = s \/ PairConf(i, p) = l
  BY <1>1, <1>3
<1>5. PairConf(i, p) <= s /\ PairConf(i, p) <= l
  BY <1>2, <1>3
<1> QED BY <1>4, <1>5 DEF s, l

-----------------------------------------------------------------------------
(* A text is matched only to a market whose halves both stand out           *)
(* (the two gates of resolve, which compare pairs).                        *)

LEMMA AcceptedHalvesStandOut ==
  ASSUME TypeOK, NEW i \in Inputs, NEW p \in Candidates, Accepted(i, p)
  PROVE  LET S == ServiceConf[i] L == LocationConf[i]
         IN /\ S[p[1]] >= resolution_min_confidence /\ L[p[2]] >= resolution_min_confidence
            /\ \A t \in services \ {p[1]} : S[t] + resolution_ambiguity_margin <= S[p[1]]
            /\ \A m \in locations \ {p[2]} : L[m] + resolution_ambiguity_margin <= L[p[2]]
<1> DEFINE S == ServiceConf[i]
           L == LocationConf[i]
<1>0. p \in Pair /\ p = <<p[1], p[2]>> /\ p[1] \in services /\ p[2] \in locations
  BY DEF TypeOK, Pair, Candidates
<1>1. /\ PairConf(i, p) <= S[p[1]] /\ PairConf(i, p) <= L[p[2]]
      /\ PairConf(i, p) \in Nat /\ S[p[1]] \in Nat /\ L[p[2]] \in Nat
  <2>1. /\ PairConf(i, p) \in Share
        /\ PairConf(i, p) <= S[p[1]] /\ PairConf(i, p) <= L[p[2]]
    BY <1>0, PairConfIsShare
  <2>2. S[p[1]] \in Share /\ L[p[2]] \in Share
    BY <1>0, ConfidenceAssumption DEF Pair
  <2> HIDE DEF S, L
  <2> QED BY <2>1, <2>2, ShareIsNat
<1>2. PairConf(i, p) >= 750 /\ \A q \in Candidates \ {p} : PairConf(i, q) + 150 <= PairConf(i, p)
  BY DEF Accepted, resolution_min_confidence, resolution_ambiguity_margin
<1>3. ASSUME NEW t \in services \ {p[1]} PROVE S[t] + 150 <= S[p[1]]
  <2> DEFINE q == <<t, p[2]>>
  <2>1. q \in Candidates \ {p} /\ q \in Pair /\ q[1] = t /\ q[2] = p[2]
    BY <1>0, <1>3 DEF Candidates, Pair, TypeOK
  <2>2. PairConf(i, q) + 150 <= PairConf(i, p)
    BY <1>2, <2>1
  <2>3. PairConf(i, q) = S[t] \/ PairConf(i, q) = L[p[2]]
    BY <2>1, PairConfIsShare
  <2>4. S[t] \in Share
    BY <2>1, ConfidenceAssumption DEF Pair
  <2>5. S[t] \in Nat
    BY <2>4, ShareIsNat
  <2>6. PairConf(i, q) \in Nat
    BY <2>1, PairConfIsShare, ShareIsNat
  <2> HIDE DEF q, S, L
  <2> QED BY <1>1, <2>2, <2>3, <2>5, <2>6
<1>4. ASSUME NEW m \in locations \ {p[2]} PROVE L[m] + 150 <= L[p[2]]
  <2> DEFINE q == <<p[1], m>>
  <2>1. q \in Candidates \ {p} /\ q \in Pair /\ q[1] = p[1] /\ q[2] = m
    BY <1>0, <1>4 DEF Candidates, Pair, TypeOK
  <2>2. PairConf(i, q) + 150 <= PairConf(i, p)
    BY <1>2, <2>1
  <2>3. PairConf(i, q) = L[m] \/ PairConf(i, q) = S[p[1]]
    BY <2>1, PairConfIsShare
  <2>4. L[m] \in Share
    BY <2>1, ConfidenceAssumption DEF Pair
  <2>5. L[m] \in Nat
    BY <2>4, ShareIsNat
  <2>6. PairConf(i, q) \in Nat
    BY <2>1, PairConfIsShare, ShareIsNat
  <2> HIDE DEF q, S, L
  <2> QED BY <1>1, <2>2, <2>3, <2>5, <2>6
<1> QED
  BY <1>1, <1>2, <1>3, <1>4 DEF resolution_min_confidence, resolution_ambiguity_margin

-----------------------------------------------------------------------------
(* Steps.                                                                  *)

(* A step of one handler that commits nothing and holds no alias row keeps *)
(* the invariant when it keeps the types and what that handler holds.      *)
LEMMA LocalStep ==
  ASSUME IInv, NEW h \in Handlers, TypeOK', Holds(h)',
         UNCHANGED <<markets, aliases, resolved>>,
         newAlias'[h] = NoAlias,
         \A g \in Handlers \ {h} :
           /\ pc'[g] = pc[g] /\ req'[g] = req[g] /\ found'[g] = found[g]
           /\ conf'[g] = conf[g] /\ newMarket'[g] = newMarket[g] /\ newAlias'[g] = newAlias[g],
         \A g \in Handlers : answer'[g] = answer[g] \/ answer'[g].kind # "resolved"
  PROVE  IInv'
<1>1. ASSUME NEW g \in Handlers PROVE Holds(g)' /\ Writes(g)'
  <2>1. CASE g = h
    BY <2>1 DEF Writes
  <2>2. CASE g # h
    BY <2>2 DEF IInv, Working, Holds, Writes, Upserted
  <2> QED BY <2>1, <2>2
<1>2. Exclusive'
  BY DEF IInv, Exclusive
<1>3. MarketsAreReal'
  BY DEF IInv, MarketsAreReal
<1>4. HitsAreResolutions'
  BY DEF IInv, HitsAreResolutions
<1> QED BY <1>1, <1>2, <1>3, <1>4 DEF IInv, Working

(* A response that is no resolution ends the transaction and writes nothing. *)
LEMMA RefusalInv ==
  ASSUME IInv, NEW h \in Handlers, NEW kind \in {"unknown", "ambiguous", "error"},
         NEW S \in SUBSET Pair, Respond(h, kind, S), UNCHANGED tables
  PROVE  IInv'
<1>1. TypeOK'
  BY DEF IInv, TypeOK, Respond, tables, taxonomy, Statements, Share
<1>2. Holds(h)'
  BY DEF IInv, TypeOK, Respond, Holds
<1>3. newAlias'[h] = NoAlias
  BY DEF IInv, TypeOK, Respond
<1>4. \A g \in Handlers : answer'[g] = answer[g] \/ answer'[g].kind # "resolved"
  BY DEF IInv, TypeOK, Respond
<1>5. \A g \in Handlers \ {h} :
        /\ pc'[g] = pc[g] /\ req'[g] = req[g] /\ found'[g] = found[g]
        /\ conf'[g] = conf[g] /\ newMarket'[g] = newMarket[g] /\ newAlias'[g] = newAlias[g]
  BY DEF IInv, TypeOK, Respond
<1> QED BY <1>1, <1>2, <1>3, <1>4, <1>5, LocalStep DEF tables

(* Going on with the same or another market, before any alias row is written. *)
LEMMA SettledInv ==
  ASSUME IInv, NEW h \in Handlers, NEW to \in Statements, GoOn(h, to),
         pc[h] \notin {"idle", "commit"},
         NEW p \in Pair \cup {NoMarket}, NEW c \in Share,
         NEW m \in Pair \cup {NoMarket},
         found' = [found EXCEPT ![h] = p], conf' = [conf EXCEPT ![h] = c],
         newMarket' = [newMarket EXCEPT ![h] = m], UNCHANGED newAlias,
         to \in {"match", "market", "insert"} => m = NoMarket,
         to \in {"match", "alias"} => req[h] \in Inputs,
         to \in {"match", "market", "insert", "alias", "commit"},
         to # "match" => p \in Pair /\ c >= resolution_min_confidence,
         m # NoMarket => m = p,
         to \in {"alias", "commit"} => p \in markets \/ m = p
  PROVE  IInv'
<1>1. TypeOK'
  BY DEF IInv, TypeOK, GoOn, tables, taxonomy
<1>2. Holds(h)'
  BY DEF IInv, TypeOK, GoOn, Holds, tables
<1>3. newAlias'[h] = NoAlias
  BY DEF IInv, Working, Writes
<1>4. \A g \in Handlers \ {h} :
        /\ pc'[g] = pc[g] /\ req'[g] = req[g] /\ found'[g] = found[g]
        /\ conf'[g] = conf[g] /\ newMarket'[g] = newMarket[g] /\ newAlias'[g] = newAlias[g]
  BY DEF IInv, TypeOK, GoOn
<1>5. UNCHANGED <<markets, aliases, resolved, answer>>
  BY DEF GoOn, tables
<1> QED BY <1>1, <1>2, <1>3, <1>4, <1>5, LocalStep

LEMMA SettleInv ==
  ASSUME IInv, NEW h \in Handlers, NEW p \in Pair, NEW c \in Share,
         c >= resolution_min_confidence, NEW to \in {"market", "alias", "commit"},
         pc[h] \in {"lookup", "match", "bykey"}, SettleOn(h, p, c, to),
         to = "alias" => req[h] \in Inputs, to \in {"alias", "commit"} => p \in markets
  PROVE  IInv'
<1>1. newMarket[h] = NoMarket
  BY DEF IInv, Working, Holds
<1>2. newMarket' = [newMarket EXCEPT ![h] = NoMarket]
  BY <1>1 DEF SettleOn, IInv, TypeOK
<1>3. to \in Statements /\ NoMarket \in Pair \cup {NoMarket} /\ p \in Pair \cup {NoMarket}
  BY DEF Statements
<1>4. /\ GoOn(h, to) /\ UNCHANGED newAlias /\ pc[h] \notin {"idle", "commit"} /\ to # "match"
      /\ found' = [found EXCEPT ![h] = p] /\ conf' = [conf EXCEPT ![h] = c]
      /\ to \in {"match", "market", "insert", "alias", "commit"}
  BY DEF SettleOn
<1> QED BY <1>2, <1>3, <1>4, SettledInv

LEMMA ReceiveInv ==
  ASSUME IInv, NEW h \in Handlers, Receive(h)
  PROVE  IInv'
<1>1. TypeOK'
  <2>1. req' \in [Handlers -> Inputs \cup Pair \cup {NoMarket}] /\ pc' \in [Handlers -> Statements]
    <3>1. CASE \E i \in Inputs : req' = [req EXCEPT ![h] = i] /\ pc' = [pc EXCEPT ![h] = "lookup"]
      BY <3>1 DEF IInv, TypeOK, Statements
    <3>2. CASE \E p \in Pair : req' = [req EXCEPT ![h] = p] /\ pc' = [pc EXCEPT ![h] = "bykey"]
      BY <3>2 DEF IInv, TypeOK, Statements
    <3> QED BY <3>1, <3>2 DEF Receive
  <2>2. received' \in Nat
    BY DEF IInv, TypeOK, Receive
  <2>3. UNCHANGED <<taxonomy, tables, found, conf, newMarket, newAlias, answer>>
    BY DEF Receive
  <2> QED BY <2>1, <2>2, <2>3 DEF IInv, TypeOK, tables, taxonomy
<1>2. Holds(h)'
  BY DEF IInv, TypeOK, Working, Receive, Holds
<1>3. newAlias'[h] = NoAlias
  BY DEF IInv, Working, Writes, Receive
<1>4. \A g \in Handlers \ {h} :
        /\ pc'[g] = pc[g] /\ req'[g] = req[g] /\ found'[g] = found[g]
        /\ conf'[g] = conf[g] /\ newMarket'[g] = newMarket[g] /\ newAlias'[g] = newAlias[g]
  BY DEF IInv, TypeOK, Receive
<1>5. UNCHANGED <<markets, aliases, resolved, answer>>
  BY DEF Receive, tables
<1> QED BY <1>1, <1>2, <1>3, <1>4, <1>5, LocalStep

LEMMA LookupAliasInv ==
  ASSUME IInv, NEW h \in Handlers, LookupAlias(h)
  PROVE  IInv'
<1> PICK i \in Inputs :
      /\ pc[h] = "lookup" /\ req[h] = i
      /\ \/ aliases[i] # NoAlias /\ SettleOn(h, aliases[i].market, aliases[i].confidence, "alias")
         \/ aliases[i] = NoAlias /\ GoOn(h, "match") /\ UNCHANGED <<found, conf, newMarket, newAlias>>
  BY DEF LookupAlias
<1>1. CASE aliases[i] # NoAlias /\ SettleOn(h, aliases[i].market, aliases[i].confidence, "alias")
  <2>1. aliases[i] \in Alias
    BY <1>1 DEF IInv, TypeOK
  <2>2. aliases[i].market \in Pair /\ aliases[i].confidence \in Share
    BY <2>1 DEF Alias
  <2>3. aliases[i].market \in markets /\ aliases[i].confidence >= resolution_min_confidence
    BY <1>1 DEF IInv, MarketsAreReal
  <2> QED BY <1>1, <2>2, <2>3, SettleInv
<1>2. CASE aliases[i] = NoAlias /\ GoOn(h, "match") /\ UNCHANGED <<found, conf, newMarket, newAlias>>
  <2>1. newMarket[h] = NoMarket
    BY DEF IInv, Working, Holds
  <2>2. /\ found' = [found EXCEPT ![h] = found[h]] /\ conf' = [conf EXCEPT ![h] = conf[h]]
        /\ newMarket' = [newMarket EXCEPT ![h] = NoMarket]
        /\ found[h] \in Pair \cup {NoMarket} /\ conf[h] \in Share
    BY <1>2, <2>1 DEF IInv, TypeOK
  <2>3. "match" \in Statements /\ NoMarket \in Pair \cup {NoMarket}
    BY DEF Statements
  <2>4. /\ GoOn(h, "match") /\ UNCHANGED newAlias /\ req[h] \in Inputs
        /\ pc[h] \notin {"idle", "commit"}
    BY <1>2
  <2> QED BY <2>2, <2>3, <2>4, SettledInv
<1> QED BY <1>1, <1>2

LEMMA MatchInv ==
  ASSUME IInv, NEW h \in Handlers, Match(h)
  PROVE  IInv'
<1> PICK i \in Inputs :
      /\ pc[h] = "match" /\ req[h] = i
      /\ \/ \E p \in Candidates : Plausible(i) /\ Accepted(i, p) /\ SettleOn(h, p, PairConf(i, p), "market")
         \/ /\ Plausible(i) /\ ~\E p \in Candidates : Accepted(i, p)
            /\ \E S \in Shortlists(i) : Respond(h, "ambiguous", S)
            /\ UNCHANGED tables
         \/ ~Plausible(i) /\ Respond(h, "unknown", {}) /\ UNCHANGED tables
  BY DEF Match
<1>0. Candidates \subseteq Pair
  BY DEF IInv, TypeOK, Candidates, Pair
<1>1. ASSUME NEW p \in Candidates, Accepted(i, p), SettleOn(h, p, PairConf(i, p), "market")
      PROVE  IInv'
  <2>1. p \in Pair /\ PairConf(i, p) \in Share
    BY <1>0, PairConfIsShare
  <2>2. PairConf(i, p) >= resolution_min_confidence
    BY <1>1 DEF Accepted
  <2> QED BY <1>1, <2>1, <2>2, SettleInv
<1>2. ASSUME NEW S \in Shortlists(i), Respond(h, "ambiguous", S), UNCHANGED tables
      PROVE  IInv'
  <2>1. S \in SUBSET Pair
    BY <1>0 DEF Shortlists, TopFour
  <2> QED BY <1>2, <2>1, RefusalInv
<1>3. ASSUME Respond(h, "unknown", {}), UNCHANGED tables
      PROVE  IInv'
  BY <1>3, RefusalInv
<1> QED BY <1>1, <1>2, <1>3

LEMMA LookupKeyInv ==
  ASSUME IInv, NEW h \in Handlers, LookupKey(h)
  PROVE  IInv'
<1> PICK p \in Pair :
      /\ pc[h] = "bykey" /\ req[h] = p
      /\ \/ p \in markets /\ SettleOn(h, p, 1000, "commit")
         \/ p \notin markets /\ p \in Candidates /\ SettleOn(h, p, 1000, "market")
         \/ p \notin markets \cup Candidates /\ Respond(h, "unknown", {}) /\ UNCHANGED tables
  BY DEF LookupKey
<1>1. 1000 \in Share /\ 1000 >= resolution_min_confidence
  BY DEF Share, resolution_min_confidence
<1>2. CASE p \in markets /\ SettleOn(h, p, 1000, "commit")
  BY <1>1, <1>2, SettleInv
<1>3. CASE SettleOn(h, p, 1000, "market")
  BY <1>1, <1>3, SettleInv
<1>4. CASE Respond(h, "unknown", {}) /\ UNCHANGED tables
  BY <1>4, RefusalInv
<1> QED BY <1>2, <1>3, <1>4

LEMMA GetMarketInv ==
  ASSUME IInv, NEW h \in Handlers, GetMarket(h)
  PROVE  IInv'
<1> DEFINE to == IF found[h] \in markets THEN AfterMarket(h) ELSE "insert"
<1>1. /\ pc[h] = "market" /\ GoOn(h, to)
      /\ UNCHANGED <<found, conf, newMarket, newAlias>>
  BY DEF GetMarket
<1>2. /\ to \in {"insert", "alias", "commit"} /\ to \in Statements
      /\ to = "alias" => req[h] \in Inputs
      /\ to # "insert" => found[h] \in markets
  BY DEF AfterMarket, Statements
<1>3. /\ newMarket[h] = NoMarket /\ found[h] \in Pair
      /\ conf[h] \in Share /\ conf[h] >= resolution_min_confidence
  BY <1>1 DEF IInv, TypeOK, Working, Holds
<1>4. /\ found' = [found EXCEPT ![h] = found[h]] /\ conf' = [conf EXCEPT ![h] = conf[h]]
      /\ newMarket' = [newMarket EXCEPT ![h] = NoMarket]
  BY <1>1, <1>3 DEF IInv, TypeOK
<1>5. /\ pc[h] \notin {"idle", "commit"} /\ UNCHANGED newAlias /\ GoOn(h, to)
      /\ to \in {"match", "market", "insert", "alias", "commit"} /\ to # "match"
      /\ to \in {"match", "alias"} => req[h] \in Inputs
      /\ to \in {"alias", "commit"} => found[h] \in markets
      /\ found[h] \in Pair \cup {NoMarket} /\ NoMarket \in Pair \cup {NoMarket}
  BY <1>1, <1>2, <1>3
<1> HIDE DEF to
<1> QED BY <1>2, <1>3, <1>4, <1>5, SettledInv

LEMMA CreateMarketInv ==
  ASSUME IInv, NEW h \in Handlers, CreateMarket(h)
  PROVE  IInv'
<1>1. ASSUME pc[h] = "insert", newMarket' = [newMarket EXCEPT ![h] = found[h]],
             GoOn(h, AfterMarket(h)), UNCHANGED <<found, conf, newAlias>>
      PROVE  IInv'
  <2> DEFINE to == AfterMarket(h)
  <2>1. /\ to \in {"alias", "commit"} /\ to \in Statements
        /\ to = "alias" => req[h] \in Inputs
    BY DEF AfterMarket, Statements
  <2>2. found[h] \in Pair /\ conf[h] \in Share /\ conf[h] >= resolution_min_confidence
    BY <1>1 DEF IInv, TypeOK, Working, Holds
  <2>3. found' = [found EXCEPT ![h] = found[h]] /\ conf' = [conf EXCEPT ![h] = conf[h]]
    BY <1>1 DEF IInv, TypeOK
  <2>4. /\ GoOn(h, to) /\ UNCHANGED newAlias
        /\ pc[h] \notin {"idle", "commit"} /\ to # "match"
        /\ to \notin {"match", "market", "insert"}
        /\ newMarket' = [newMarket EXCEPT ![h] = found[h]]
        /\ found[h] \in Pair \cup {NoMarket}
    BY <1>1, <2>1, <2>2
  <2>5. \A m \in Pair : m # NoMarket
    BY NoMarketAssumption
  <2> HIDE DEF to
  <2> QED BY <2>1, <2>2, <2>3, <2>4, <2>5, SettledInv
<1>2. ASSUME Respond(h, "error", {}), UNCHANGED tables
      PROVE  IInv'
  BY <1>2, RefusalInv
<1> QED BY <1>1, <1>2 DEF CreateMarket

LEMMA AbortInv ==
  ASSUME IInv, NEW h \in Handlers, Abort(h)
  PROVE  IInv'
BY RefusalInv DEF Abort

LEMMA SeedInv ==
  ASSUME IInv, Seed
  PROVE  IInv'
<1>1. services' \subseteq Services /\ locations' \subseteq Locations
  BY DEF IInv, TypeOK, Seed
<1>2. UNCHANGED <<tables, pc, req, found, conf, newMarket, newAlias, answer, received>>
  BY DEF Seed
<1>3. TypeOK'
  BY <1>1, <1>2 DEF IInv, TypeOK, tables
<1>4. Working' /\ Exclusive'
  BY <1>2 DEF IInv, Working, Holds, Writes, Upserted, Exclusive, tables
<1>5. MarketsAreReal' /\ HitsAreResolutions'
  BY <1>2 DEF IInv, MarketsAreReal, HitsAreResolutions, tables
<1> QED BY <1>3, <1>4, <1>5 DEF IInv

LEMMA RecordAliasInv ==
  ASSUME IInv, NEW h \in Handlers, RecordAlias(h)
  PROVE  IInv'
<1> PICK i \in Inputs :
      /\ pc[h] = "alias" /\ req[h] = i
      /\ \A g \in Handlers \ {h} : ~HeldAlias(g, i)
      /\ newAlias' = [newAlias EXCEPT ![h] = Upserted(i, found[h], conf[h])]
      /\ GoOn(h, "commit") /\ UNCHANGED <<found, conf, newMarket>>
  BY DEF RecordAlias
<1>1. found[h] \in Pair /\ conf[h] \in Share
  BY DEF IInv, TypeOK, Working, Holds
<1>2. Upserted(i, found[h], conf[h]) \in Alias
  BY <1>1, UpsertedIsAlias DEF IInv
<1>3. /\ UNCHANGED <<taxonomy, tables, req, found, conf, newMarket, answer, received>>
      /\ pc' = [pc EXCEPT ![h] = "commit"]
  BY DEF GoOn
<1>4. TypeOK'
  BY <1>2, <1>3 DEF IInv, TypeOK, tables, taxonomy, Statements
<1>5. newAlias'[h] = Upserted(i, found[h], conf[h]) /\ pc'[h] = "commit"
  BY <1>3 DEF IInv, TypeOK
<1>6. \A g \in Handlers \ {h} : newAlias'[g] = newAlias[g] /\ pc'[g] = pc[g]
  BY <1>3 DEF IInv, TypeOK
<1>7. ASSUME NEW g \in Handlers PROVE Holds(g)' /\ Writes(g)'
  <2>1. CASE g = h
    BY <1>3, <1>5, <2>1 DEF IInv, Working, Holds, Writes, Upserted, tables
  <2>2. CASE g # h
    BY <1>3, <1>6, <2>2 DEF IInv, Working, Holds, Writes, Upserted, tables
  <2> QED BY <2>1, <2>2
<1>8. Exclusive'
  BY <1>3, <1>6 DEF IInv, Exclusive, HeldAlias
<1>9. MarketsAreReal' /\ HitsAreResolutions'
  BY <1>3 DEF IInv, MarketsAreReal, HitsAreResolutions, tables
<1> QED BY <1>4, <1>7, <1>8, <1>9 DEF IInv, Working

LEMMA CommitInv ==
  ASSUME IInv, NEW h \in Handlers, Commit(h)
  PROVE  IInv'
<1>1. /\ pc[h] = "commit" /\ found[h] \in Pair /\ conf[h] >= resolution_min_confidence
      /\ newMarket[h] # NoMarket => newMarket[h] = found[h]
      /\ found[h] \in markets \/ newMarket[h] = found[h]
  BY DEF Commit, IInv, Working, Holds
<1>2. /\ markets' = markets \cup ({newMarket[h]} \ {NoMarket})
      /\ aliases' = [i \in Inputs |-> IF HeldAlias(h, i) THEN newAlias[h] ELSE aliases[i]]
      /\ resolved' = [i \in Inputs |-> IF HeldAlias(h, i) THEN resolved[i] + 1 ELSE resolved[i]]
      /\ Respond(h, "resolved", {found[h]})
  BY DEF Commit
<1>3. markets \subseteq markets' /\ found[h] \in markets' /\ markets' \subseteq Pair
  BY <1>1, <1>2, NoMarketAssumption DEF IInv, TypeOK
<1>4. TypeOK'
  <2>1. aliases' \in [Inputs -> Alias \cup {NoAlias}] /\ resolved' \in [Inputs -> Nat]
    BY <1>2 DEF IInv, TypeOK
  <2>2. /\ pc' \in [Handlers -> Statements] /\ req' \in [Handlers -> Inputs \cup Pair \cup {NoMarket}]
        /\ found' \in [Handlers -> Pair \cup {NoMarket}] /\ conf' \in [Handlers -> Share]
        /\ newMarket' \in [Handlers -> Pair \cup {NoMarket}]
        /\ newAlias' \in [Handlers -> Alias \cup {NoAlias}]
        /\ UNCHANGED <<services, locations, received>>
    BY <1>2 DEF IInv, TypeOK, Respond, Statements, Share, taxonomy
  <2>3. answer' \in [Handlers -> [kind : {"none", "resolved", "unknown", "ambiguous", "error"},
                                  markets : SUBSET Pair]]
    BY <1>1, <1>2 DEF IInv, TypeOK, Respond
  <2> QED BY <1>3, <2>1, <2>2, <2>3 DEF IInv, TypeOK
<1>5. /\ pc'[h] = "idle" /\ newMarket'[h] = NoMarket /\ newAlias'[h] = NoAlias
      /\ answer'[h].markets = {found[h]}
  BY <1>2 DEF IInv, TypeOK, Respond
<1>6. \A g \in Handlers \ {h} :
        /\ pc'[g] = pc[g] /\ req'[g] = req[g] /\ found'[g] = found[g] /\ conf'[g] = conf[g]
        /\ newMarket'[g] = newMarket[g] /\ newAlias'[g] = newAlias[g] /\ answer'[g] = answer[g]
  BY <1>2 DEF IInv, TypeOK, Respond
\* The rows of other texts, and so those other handlers have written, stay.
<1>7. ASSUME NEW g \in Handlers, g # h, newAlias[g] # NoAlias
      PROVE  aliases'[req[g]] = aliases[req[g]]
  <2>1. req[g] \in Inputs
    BY <1>7 DEF IInv, Working, Writes
  <2>2. ~HeldAlias(h, req[g])
    BY <1>7 DEF IInv, Exclusive, HeldAlias
  <2> QED BY <1>2, <2>1, <2>2
<1>8. ASSUME NEW g \in Handlers PROVE Holds(g)' /\ Writes(g)'
  <2>1. CASE g = h
    BY <1>5, <2>1 DEF Holds, Writes
  <2>2. CASE g # h
    <3>1. Holds(g)'
      BY <1>3, <1>6, <2>2 DEF IInv, Working, Holds
    <3>2. Writes(g)'
      <4>1. SUFFICES ASSUME newAlias[g] # NoAlias
                     PROVE  /\ pc'[g] = "commit" /\ req'[g] \in Inputs
                            /\ newAlias'[g] = Upserted(req[g], found[g], conf[g])'
        BY <1>6, <2>2 DEF Writes, Upserted
      <4>2. /\ pc[g] = "commit" /\ req[g] \in Inputs
            /\ newAlias[g] = Upserted(req[g], found[g], conf[g])
        BY <4>1 DEF IInv, Working, Writes
      <4>3. Upserted(req[g], found[g], conf[g])' = Upserted(req[g], found[g], conf[g])
        BY <1>6, <1>7, <2>2, <4>1 DEF Upserted
      <4> QED BY <1>6, <2>2, <4>2, <4>3
    <3> QED BY <3>1, <3>2
  <2> QED BY <2>1, <2>2
<1>9. Exclusive'
  BY <1>5, <1>6 DEF IInv, Exclusive
\* The row that is committed.
<1>10. ASSUME NEW i \in Inputs, HeldAlias(h, i)
       PROVE  /\ aliases'[i] = Upserted(i, found[h], conf[h]) /\ aliases'[i] # NoAlias
              /\ resolved'[i] = resolved[i] + 1
  BY <1>2, <1>10 DEF HeldAlias, IInv, Working, Writes
<1>11. ASSUME NEW i \in Inputs, ~HeldAlias(h, i)
       PROVE  aliases'[i] = aliases[i] /\ resolved'[i] = resolved[i]
  BY <1>2, <1>11
<1>12. ASSUME NEW i \in Inputs, aliases'[i] # NoAlias
       PROVE  aliases'[i].market \in markets' /\ aliases'[i].confidence >= resolution_min_confidence
  <2>1. CASE HeldAlias(h, i) /\ aliases[i] = NoAlias
    <3>1. aliases'[i] = [market |-> found[h], confidence |-> conf[h], hits |-> 1]
      BY <1>10, <2>1 DEF Upserted
    <3> QED BY <1>1, <1>3, <3>1
  <2>2. CASE HeldAlias(h, i) /\ aliases[i] # NoAlias
    <3>1. aliases[i] \in Alias
      BY <2>2 DEF IInv, TypeOK
    <3>2. aliases'[i].market = aliases[i].market /\ aliases'[i].confidence = aliases[i].confidence
      BY <1>10, <2>2, <3>1 DEF Upserted, Alias
    <3> QED BY <1>3, <2>2, <3>2 DEF IInv, MarketsAreReal
  <2>3. CASE ~HeldAlias(h, i)
    BY <1>3, <1>11, <1>12, <2>3 DEF IInv, MarketsAreReal
  <2> QED BY <2>1, <2>2, <2>3
<1>13. MarketsAreReal'
  <2>1. ASSUME NEW g \in Handlers, answer'[g].kind = "resolved"
        PROVE  answer'[g].markets \subseteq markets'
    BY <1>3, <1>5, <1>6, <2>1 DEF IInv, MarketsAreReal
  <2> QED BY <1>12, <2>1 DEF MarketsAreReal
<1>14. ASSUME NEW i \in Inputs
       PROVE  resolved'[i] = IF aliases'[i] = NoAlias THEN 0 ELSE aliases'[i].hits
  <2>0. resolved[i] = IF aliases[i] = NoAlias THEN 0 ELSE aliases[i].hits
    BY DEF IInv, HitsAreResolutions
  <2>1. CASE HeldAlias(h, i) /\ aliases[i] = NoAlias
    <3>1. aliases'[i] = [market |-> found[h], confidence |-> conf[h], hits |-> 1]
      BY <1>10, <2>1 DEF Upserted
    <3>2. resolved'[i] = 1
      BY <1>10, <2>0, <2>1
    <3> QED BY <1>10, <2>1, <3>1, <3>2
  <2>2. CASE HeldAlias(h, i) /\ aliases[i] # NoAlias
    <3>1. aliases[i] \in Alias
      BY <2>2 DEF IInv, TypeOK
    <3>2. aliases'[i].hits = aliases[i].hits + 1
      BY <1>10, <2>2, <3>1 DEF Upserted, Alias
    <3> QED BY <1>10, <2>0, <2>2, <3>2
  <2>3. CASE ~HeldAlias(h, i)
    BY <1>11, <2>0, <2>3
  <2> QED BY <2>1, <2>2, <2>3
<1>15. HitsAreResolutions'
  BY <1>14 DEF HitsAreResolutions
<1> QED BY <1>4, <1>8, <1>9, <1>13, <1>15 DEF IInv, Working

LEMMA StutterInv == IInv /\ UNCHANGED vars => IInv'
<1> SUFFICES ASSUME IInv, UNCHANGED vars PROVE IInv'
  OBVIOUS
<1>1. TypeOK'
  BY DEF IInv, TypeOK, vars, tables, taxonomy
<1>2. Working' /\ Exclusive'
  BY DEF IInv, Working, Holds, Writes, Upserted, Exclusive, vars, tables, taxonomy
<1>3. MarketsAreReal' /\ HitsAreResolutions'
  BY DEF IInv, MarketsAreReal, HitsAreResolutions, vars, tables
<1> QED BY <1>1, <1>2, <1>3 DEF IInv

(* Every reachable state satisfies the inductive invariant: handlers hold  *)
(* what their next statement of resolve or resolve_by_key relies on.       *)
THEOREM Inductive == Spec => []IInv
<1>1. IInv /\ Next => IInv'
  BY ReceiveInv, LookupAliasInv, MatchInv, LookupKeyInv, GetMarketInv, CreateMarketInv,
     RecordAliasInv, CommitInv, AbortInv, SeedInv DEF Next, Resolve
<1>2. IInv /\ [Next]_vars => IInv'
  BY <1>1, StutterInv
<1> QED BY InitInv, <1>2, PTL DEF Spec

(* The rows and the locals of resolve keep their types.                    *)
THEOREM TypeCorrect == Spec => []TypeOK
<1>1. IInv => TypeOK
  BY DEF IInv
<1> QED BY Inductive, <1>1, PTL

(* An alias and an answer name a committed market, and no alias was        *)
(* recorded below resolve's gate.                                          *)
THEOREM MarketsReal == Spec => []MarketsAreReal
<1>1. IInv => MarketsAreReal
  BY DEF IInv
<1> QED BY Inductive, <1>1, PTL

(* hit_count, as _record_alias keeps it, loses no resolution and counts no *)
(* request that failed.                                                    *)
THEOREM HitsExact == Spec => []HitsAreResolutions
<1>1. IInv => HitsAreResolutions
  BY DEF IInv
<1> QED BY Inductive, <1>1, PTL

-----------------------------------------------------------------------------
(* Once a text has an alias it keeps its market: _record_alias never       *)
(* updates market_id, and no transaction holds a row made before the       *)
(* alias was committed.                                                    *)
THEOREM AliasStable == Spec => AliasIsStable
<1>1. ASSUME IInv, [Next]_vars, NEW i \in Inputs, aliases[i] # NoAlias
      PROVE  aliases'[i] # NoAlias /\ aliases'[i].market = aliases[i].market
  <2>1. CASE UNCHANGED aliases
    BY <1>1, <2>1
  <2>2. ASSUME NEW h \in Handlers, Commit(h)
        PROVE  aliases'[i] # NoAlias /\ aliases'[i].market = aliases[i].market
    <3>1. aliases' = [j \in Inputs |-> IF HeldAlias(h, j) THEN newAlias[h] ELSE aliases[j]]
      BY <2>2 DEF Commit
    <3>2. CASE ~HeldAlias(h, i)
      BY <1>1, <3>1, <3>2
    <3>3. CASE HeldAlias(h, i)
      <4>1. newAlias[h] # NoAlias /\ newAlias[h] = Upserted(i, found[h], conf[h])
        BY <1>1, <3>3 DEF HeldAlias, IInv, Working, Writes
      <4>2. aliases[i] \in Alias
        BY <1>1 DEF IInv, TypeOK
      <4>3. Upserted(i, found[h], conf[h]).market = aliases[i].market
        BY <1>1, <4>2 DEF Upserted, Alias
      <4> QED BY <3>1, <3>3, <4>1, <4>3
    <3> QED BY <3>2, <3>3
  <2>3. ASSUME NEW h \in Handlers, ~Commit(h), Receive(h) \/ Resolve(h) \/ Abort(h)
        PROVE  UNCHANGED aliases
    <3>1. CASE Receive(h)
      BY <3>1 DEF Receive, tables
    <3>2. CASE Abort(h)
      BY <3>2 DEF Abort, tables
    <3>3. CASE LookupAlias(h)
      BY <3>3 DEF LookupAlias, SettleOn, GoOn, tables
    <3>4. CASE Match(h)
      BY <3>4 DEF Match, SettleOn, GoOn, tables
    <3>5. CASE LookupKey(h)
      BY <3>5 DEF LookupKey, SettleOn, GoOn, tables
    <3>6. CASE GetMarket(h)
      BY <3>6 DEF GetMarket, GoOn, tables
    <3>7. CASE CreateMarket(h)
      BY <3>7 DEF CreateMarket, GoOn, tables
    <3>8. CASE RecordAlias(h)
      BY <3>8 DEF RecordAlias, GoOn, tables
    <3> QED BY <2>3, <3>1, <3>2, <3>3, <3>4, <3>5, <3>6, <3>7, <3>8 DEF Resolve
  <2>4. CASE Seed
    BY <2>1, <2>4 DEF Seed, tables
  <2>5. CASE UNCHANGED vars
    BY <2>1, <2>5 DEF vars, tables
  <2> QED BY <1>1, <2>1, <2>2, <2>3, <2>4, <2>5 DEF Next
<1>2. IInv /\ [Next]_vars =>
        [\A i \in Inputs : aliases[i] # NoAlias =>
           aliases'[i] # NoAlias /\ aliases'[i].market = aliases[i].market]_vars
  BY <1>1
<1> QED BY Inductive, <1>2, PTL DEF Spec, AliasIsStable

-----------------------------------------------------------------------------
StandOut(h) ==
  LET S == ServiceConf[req[h]] L == LocationConf[req[h]]
      s == found'[h][1] l == found'[h][2]
  IN /\ S[s] >= resolution_min_confidence /\ L[l] >= resolution_min_confidence
     /\ \A t \in services \ {s} : S[t] + resolution_ambiguity_margin <= S[s]
     /\ \A m \in locations \ {l} : L[m] + resolution_ambiguity_margin <= L[l]

(* A text is matched to a market only when each half stands out by itself, *)
(* though resolve's two gates compare pairs: a rival of one half makes a   *)
(* rival pair with the other.                                              *)
THEOREM NoGuess == Spec => NoSilentGuess
<1>1. ASSUME IInv, [Next]_vars, NEW h \in Handlers, pc[h] = "match", pc'[h] = "market"
      PROVE  StandOut(h)
  <2>1. ASSUME NEW g \in Handlers, Receive(g) \/ Resolve(g) \/ Abort(g)
        PROVE  Match(h)
    <3>1. Match(g) => g = h
      BY <1>1 DEF Match, SettleOn, GoOn, Respond, IInv, TypeOK
    <3>2. ~Receive(g) /\ ~Abort(g) /\ ~Commit(g)
      BY <1>1 DEF Receive, Abort, Commit, Respond, IInv, TypeOK
    <3>3. ~LookupAlias(g)
      BY <1>1 DEF LookupAlias, SettleOn, GoOn, IInv, TypeOK
    <3>4. ~LookupKey(g)
      BY <1>1 DEF LookupKey, SettleOn, GoOn, Respond, IInv, TypeOK
    <3>5. ~GetMarket(g) /\ ~CreateMarket(g) /\ ~RecordAlias(g)
      BY <1>1 DEF GetMarket, CreateMarket, RecordAlias, GoOn, Respond, IInv, TypeOK
    <3> QED BY <2>1, <3>1, <3>2, <3>3, <3>4, <3>5 DEF Resolve
  <2>2. ~Seed /\ ~UNCHANGED vars
    BY <1>1 DEF Seed, vars
  <2>3. Match(h)
    BY <1>1, <2>1, <2>2 DEF Next
  <2>4. PICK i \in Inputs, p \in Candidates :
          req[h] = i /\ Accepted(i, p) /\ SettleOn(h, p, PairConf(i, p), "market")
    BY <1>1, <2>3 DEF Match, Respond, IInv, TypeOK
  <2>5. found'[h] = p
    BY <1>1, <2>4 DEF SettleOn, IInv, TypeOK
  <2> QED BY <1>1, <2>4, <2>5, AcceptedHalvesStandOut DEF StandOut, IInv
<1>2. IInv /\ [Next]_vars =>
        [\A h \in Handlers : pc[h] = "match" /\ pc'[h] = "market" => StandOut(h)]_vars
  BY <1>1
<1>3. NoSilentGuess <=>
        [][\A h \in Handlers : pc[h] = "match" /\ pc'[h] = "market" => StandOut(h)]_vars
  BY DEF NoSilentGuess, StandOut
<1> QED BY Inductive, <1>2, <1>3, PTL DEF Spec
-----------------------------------------------------------------------------
(* What a refusal for ambiguity offers.                                    *)

LEMMA FourBestAreCandidates ==
  ASSUME TypeOK, NEW i \in Inputs, NEW T \in TopFour(i)
  PROVE  /\ IsFiniteSet(T) /\ T \subseteq Candidates
         /\ Candidates # {} => T # {}
         /\ T # Candidates => Cardinality(T) = 4
<1>1. IsFiniteSet(Candidates)
  <2>1. services \in SUBSET Services /\ locations \in SUBSET Locations
    BY DEF TypeOK
  <2>2. IsFiniteSet(services) /\ IsFiniteSet(locations)
    BY <2>1, TaxonomyAssumption, FS_Subset
  <2> QED BY <2>2, FS_Product DEF Candidates
<1>2. /\ T \in SUBSET Candidates
      /\ Cardinality(T) = IF Cardinality(Candidates) <= 4 THEN Cardinality(Candidates) ELSE 4
  BY DEF TopFour
<1>3. IsFiniteSet(T) /\ (Cardinality(Candidates) = Cardinality(T) => Candidates = T)
  BY <1>1, <1>2, FS_Subset
<1>4. Cardinality(Candidates) \in Nat
  BY <1>1, FS_CardinalityType
<1>5. T = {} => Cardinality(Candidates) = 0
  BY <1>2, <1>4, FS_EmptySet
<1> QED BY <1>1, <1>2, <1>3, <1>4, <1>5, FS_EmptySet

\* A pair above the floor brings one above it into the shortlist.
LEMMA ShortlistReachesFloor ==
  ASSUME TypeOK, NEW i \in Inputs, NEW T \in TopFour(i), NEW q \in Candidates, NEW U,
         U \subseteq T, q \in T => q \in U, q \notin T => U # {},
         PairConf(i, q) >= resolution_unknown_floor
  PROVE  \E r \in U : PairConf(i, r) >= resolution_unknown_floor
<1>1. CASE q \in T
  BY <1>1
<1>2. CASE q \notin T
  <2>1. PICK r \in U : r \in T
    BY <1>2
  <2>2. PairConf(i, q) <= PairConf(i, r)
    BY <1>2, <2>1 DEF TopFour
  <2>3. T \subseteq Pair /\ q \in Pair
    BY FourBestAreCandidates DEF TypeOK, Candidates, Pair
  <2>4. PairConf(i, r) \in Nat /\ PairConf(i, q) \in Nat
    BY <2>1, <2>3, PairConfIsShare, ShareIsNat
  <2> HIDE DEF PairConf
  <2> QED BY <2>2, <2>4 DEF resolution_unknown_floor
<1> QED BY <1>1, <1>2

LEMMA ShortlistOffersChoice ==
  ASSUME TypeOK, NEW i \in Inputs, Plausible(i),
         ~\E p \in Candidates : Accepted(i, p), NEW S \in Shortlists(i)
  PROVE  /\ S # {}
         /\ (\E p \in S : PairConf(i, p) >= resolution_min_confidence) => Cardinality(S) > 1
<1>1. PICK T \in TopFour(i) : S = {p \in T : PairConf(i, p) >= resolution_unknown_floor}
  BY DEF Shortlists
<1>2. /\ IsFiniteSet(T) /\ T \subseteq Candidates
      /\ Candidates # {} => T # {}
      /\ T # Candidates => Cardinality(T) = 4
  BY FourBestAreCandidates
<1>3. \A p \in Candidates : PairConf(i, p) \in Nat
  BY PairConfIsShare, ShareIsNat DEF TypeOK, Candidates, Pair
<1>4. S # {}
  <2>1. PICK s \in services, l \in locations :
          ServiceConf[i][s] >= resolution_unknown_floor /\ LocationConf[i][l] >= resolution_unknown_floor
    BY DEF Plausible
  <2> DEFINE c == <<s, l>>
  <2>2. c \in Candidates /\ c[1] = s /\ c[2] = l
    BY DEF Candidates
  <2>3. c \in Pair
    BY <2>2 DEF TypeOK, Candidates, Pair
  <2>4. PairConf(i, c) = ServiceConf[i][s] \/ PairConf(i, c) = LocationConf[i][l]
    BY <2>2, <2>3, PairConfIsShare
  <2>5. PairConf(i, c) >= resolution_unknown_floor
    BY <2>1, <2>4
  <2> HIDE DEF c
  <2>6. \E r \in T : PairConf(i, r) >= resolution_unknown_floor
    BY <1>2, <2>2, <2>5, ShortlistReachesFloor
  <2> QED BY <1>1, <2>6
<1>5. ASSUME NEW p \in S, PairConf(i, p) >= resolution_min_confidence
      PROVE  Cardinality(S) > 1
  <2>1. p \in Candidates /\ p \in T
    BY <1>1, <1>2
  <2>2. PICK q \in Candidates \ {p} :
          ~(PairConf(i, q) + resolution_ambiguity_margin <= PairConf(i, p))
    BY <1>5, <2>1 DEF Accepted
  <2>3. PairConf(i, q) >= resolution_unknown_floor
    <3>1. PairConf(i, q) \in Nat /\ PairConf(i, p) \in Nat
      BY <1>3, <2>1
    <3> HIDE DEF PairConf
    <3> QED BY <1>5, <2>2, <3>1
            DEF resolution_unknown_floor, resolution_min_confidence, resolution_ambiguity_margin
  <2> DEFINE U == T \ {p}
  <2>4. q \notin T => U # {}
    <3>1. SUFFICES ASSUME q \notin T PROVE U # {}
      OBVIOUS
    <3>2. Cardinality(T) = 4
      BY <1>2, <3>1
    <3>3. Cardinality(T \ {p}) = Cardinality(T) - 1
      BY <1>2, <2>1, FS_RemoveElement
    <3> QED BY <3>2, <3>3, FS_EmptySet
  <2>5. U \subseteq T /\ (q \in T => q \in U)
    OBVIOUS
  <2> HIDE DEF U
  <2>6. PICK r \in U : PairConf(i, r) >= resolution_unknown_floor
    BY <2>3, <2>4, <2>5, ShortlistReachesFloor
  <2>7. r \in S \ {p}
    BY <1>1, <2>6 DEF U
  <2>8. S \in SUBSET T
    BY <1>1
  <2>9. IsFiniteSet(S)
    BY <1>2, <2>8, FS_Subset
  <2>10. IsFiniteSet(S \ {p}) /\ Cardinality(S \ {p}) = Cardinality(S) - 1
    BY <2>9, FS_RemoveElement
  <2>11. Cardinality(S \ {p}) # 0
    BY <2>7, <2>10, FS_EmptySet
  <2>12. Cardinality(S) \in Nat /\ Cardinality(S \ {p}) \in Nat
    BY <2>9, <2>10, FS_CardinalityType
  <2> QED BY <2>10, <2>11, <2>12
<1> QED BY <1>4, <1>5

OffersChoice(h) ==
  /\ answer'[h].markets # {}
  /\ (\E p \in answer'[h].markets : PairConf(req[h], p) >= resolution_min_confidence) =>
       Cardinality(answer'[h].markets) > 1

(* A refusal for ambiguity offers a pair, and two when the best is good    *)
(* enough (the shortlist of resolve): the rival that stopped the best one  *)
(* is above the floor, because the floor is the threshold less the margin, *)
(* and either it is among the four or three others as good are.            *)
THEOREM RefusalsOfferChoice == Spec => RefusalOffersChoice
<1>1. ASSUME IInv, [Next]_vars, NEW h \in Handlers,
             pc[h] = "match", answer'[h].kind = "ambiguous", pc'[h] = "idle"
      PROVE  OffersChoice(h)
  <2>1. ASSUME NEW g \in Handlers, Receive(g) \/ Resolve(g) \/ Abort(g)
        PROVE  Match(h)
    <3>1. Match(g) => g = h
      BY <1>1 DEF Match, SettleOn, GoOn, Respond, IInv, TypeOK
    <3>2. ~Receive(g) /\ ~Commit(g)
      BY <1>1 DEF Receive, Commit, Respond, IInv, TypeOK
    <3>3. ~Abort(g)
      BY <1>1 DEF Abort, Respond, IInv, TypeOK
    <3>4. ~LookupAlias(g)
      BY <1>1 DEF LookupAlias, SettleOn, GoOn, IInv, TypeOK
    <3>5. ~LookupKey(g)
      BY <1>1 DEF LookupKey, SettleOn, GoOn, Respond, IInv, TypeOK
    <3>6. ~GetMarket(g) /\ ~CreateMarket(g) /\ ~RecordAlias(g)
      BY <1>1 DEF GetMarket, CreateMarket, RecordAlias, GoOn, Respond, IInv, TypeOK
    <3> QED BY <2>1, <3>1, <3>2, <3>3, <3>4, <3>5, <3>6 DEF Resolve
  <2>2. ~Seed /\ ~UNCHANGED vars
    BY <1>1 DEF Seed, vars
  <2>3. Match(h)
    BY <1>1, <2>1, <2>2 DEF Next
  <2>4. PICK i \in Inputs :
          /\ req[h] = i /\ Plausible(i) /\ ~\E p \in Candidates : Accepted(i, p)
          /\ \E S \in Shortlists(i) : Respond(h, "ambiguous", S)
    BY <1>1, <2>3 DEF Match, SettleOn, GoOn, Respond, IInv, TypeOK
  <2>5. PICK S \in Shortlists(i) : Respond(h, "ambiguous", S)
    BY <2>4
  <2>6. answer'[h].markets = S
    BY <1>1, <2>5 DEF Respond, IInv, TypeOK
  <2>7. /\ S # {}
        /\ (\E p \in S : PairConf(i, p) >= resolution_min_confidence) => Cardinality(S) > 1
    BY <1>1, <2>4, ShortlistOffersChoice DEF IInv
  <2> QED BY <2>4, <2>6, <2>7 DEF OffersChoice
<1>2. IInv /\ [Next]_vars =>
        [\A h \in Handlers : pc[h] = "match" /\ answer'[h].kind = "ambiguous" /\ pc'[h] = "idle" =>
           OffersChoice(h)]_vars
  BY <1>1
<1>3. RefusalOffersChoice <=>
        [][\A h \in Handlers : pc[h] = "match" /\ answer'[h].kind = "ambiguous" /\ pc'[h] = "idle" =>
             OffersChoice(h)]_vars
  BY DEF RefusalOffersChoice, OffersChoice
<1> QED BY Inductive, <1>2, <1>3, PTL DEF Spec

-----------------------------------------------------------------------------
(* What readers see.                                                       *)

\* The row a transaction has written is still the next one when it commits, and its
\* market is there: a commit is a resolution of MarketBook.
LEMMA CommitResolves ==
  ASSUME IInv, NEW h \in Handlers, Commit(h)
  PROVE  Book!Next
<1> DEFINE p == found[h]
<1>1. /\ p \in Pair /\ conf[h] \in Share /\ conf[h] >= resolution_min_confidence
      /\ p \in markets \/ newMarket[h] = p
      /\ newMarket[h] # NoMarket => newMarket[h] = p
  BY DEF Commit, IInv, TypeOK, Working, Holds
<1>2. /\ markets' = markets \cup ({newMarket[h]} \ {NoMarket})
      /\ aliases' = [i \in Inputs |-> IF HeldAlias(h, i) THEN newAlias[h] ELSE aliases[i]]
      /\ resolved' = [i \in Inputs |-> IF HeldAlias(h, i) THEN resolved[i] + 1 ELSE resolved[i]]
  BY DEF Commit
<1>3. p # NoMarket
  BY <1>1, NoMarketAssumption
<1>4. markets' = markets \cup {p}
  BY <1>1, <1>2, <1>3
<1>5. aliases \in [Inputs -> Alias \cup {NoAlias}] /\ resolved \in [Inputs -> Nat]
  BY DEF IInv, TypeOK
<1> HIDE DEF p
<1>6. CASE newAlias[h] = NoAlias
  <2>1. aliases' = aliases /\ resolved' = resolved
    BY <1>2, <1>5, <1>6 DEF HeldAlias
  <2>2. Book!ResolveKey(p)
    BY <1>4, <2>1 DEF Book!ResolveKey
  <2> QED BY <1>1, <2>2 DEF Book!Next, p
<1>7. CASE newAlias[h] # NoAlias
  <2> DEFINE i == req[h]
  <2>1. i \in Inputs /\ newAlias[h] = Upserted(i, p, conf[h])
    BY <1>7 DEF IInv, Working, Writes, p
  <2>2. aliases' = [aliases EXCEPT ![i] = newAlias[h]]
        /\ resolved' = [resolved EXCEPT ![i] = @ + 1]
    BY <1>2, <1>5, <1>7, <2>1 DEF HeldAlias
  <2> HIDE DEF i
  <2>3. CASE aliases[i] = NoAlias
    <3>1. aliases' = [aliases EXCEPT ![i] =
                        [market |-> p, confidence |-> conf[h], hits |-> 1]]
      BY <2>1, <2>2, <2>3 DEF Upserted
    <3>2. Book!FirstResolve(i, p, conf[h])
      BY <1>4, <2>2, <2>3, <3>1 DEF Book!FirstResolve
    <3>3. conf[h] \in resolution_min_confidence .. 1000
      BY <1>1 DEF Share, resolution_min_confidence
    <3> QED BY <1>1, <2>1, <3>2, <3>3 DEF Book!Next, p
  <2>4. CASE aliases[i] # NoAlias
    <3>1. aliases' = [aliases EXCEPT ![i].hits = @ + 1]
      BY <2>1, <2>2, <2>4 DEF Upserted
    <3>2. Book!ResolveAgain(i, p)
      BY <1>4, <2>2, <2>4, <3>1 DEF Book!ResolveAgain
    <3> QED BY <1>1, <2>1, <3>2 DEF Book!Next, p
  <2> QED BY <2>3, <2>4
<1> QED BY <1>6, <1>7

\* However requests interleave, wait and roll back, the tables change as MarketBook
\* says: by whole resolutions, one after the other.
THEOREM ImplementsBook == Spec => BookSpec
<1>1. Init => Book!Init
  BY DEF Init, Book!Init
<1>2. ASSUME IInv, [Next]_vars
      PROVE  [Book!Next]_(Book!book)
  <2>1. ASSUME NEW h \in Handlers, Commit(h)
        PROVE  Book!Next
    BY <1>2, <2>1, CommitResolves
  <2>2. ASSUME NEW h \in Handlers, Receive(h) \/ Resolve(h) \/ Abort(h), ~Commit(h)
        PROVE  UNCHANGED tables
    BY <2>2 DEF Receive, Resolve, Abort, LookupAlias, Match, LookupKey, GetMarket,
       CreateMarket, RecordAlias, SettleOn, GoOn, tables
  <2>3. Seed \/ UNCHANGED vars => UNCHANGED tables
    BY DEF Seed, vars
  <2>4. UNCHANGED tables => UNCHANGED Book!book
    BY DEF tables, Book!book
  <2> QED BY <1>2, <2>1, <2>2, <2>3, <2>4 DEF Next, Resolve
<1> QED BY <1>1, <1>2, Inductive, PTL DEF Spec, BookSpec, Book!Spec
=============================================================================
