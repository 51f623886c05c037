------------------------------ MODULE Resolver ------------------------------
(***************************************************************************)
(* engine/markets/resolver.py: free text, or a market_key a client picked, *)
(* to one market, or a refusal.  resolve runs inside the transaction of    *)
(* POST /markets/resolve, which then commits, or of start_run, which may   *)
(* still raise and roll everything back.                                   *)
(*                                                                         *)
(* Confidences are in thousandths, as they are stored.  How alike two      *)
(* texts are (_ratio) is a constant; what is done with it is not.  A row   *)
(* that an open transaction has written is in doubt: a statement that      *)
(* conflicts with it waits for that transaction.                           *)
(***************************************************************************)
EXTENDS Naturals, FiniteSets

CONSTANTS
  Handlers,                     \* threads that serve the endpoints
  Services, Locations,          \* slugs the taxonomy may hold
  SeedServices, SeedLocations,  \* those it holds at first
  SeedMarkets,                  \* pairs that are markets at first
  Inputs,                       \* texts, as _alias_key spells them
  ServiceConf, LocationConf,    \* how alike a text and an entry are
  NoAlias, NoMarket,
  MaxRequests                   \* bound: requests received

Pair == Services \X Locations
Share == 0 .. 1000

ASSUME TaxonomyAssumption ==
  /\ IsFiniteSet(Services) /\ IsFiniteSet(Locations)
  /\ SeedServices \subseteq Services /\ SeedLocations \subseteq Locations
  /\ SeedMarkets \subseteq SeedServices \X SeedLocations
ASSUME ConfidenceAssumption ==
  /\ ServiceConf \in [Inputs -> [Services -> Share]]
  /\ LocationConf \in [Inputs -> [Locations -> Share]]
ASSUME NoMarketAssumption == NoMarket \notin Pair
ASSUME InputsAssumption == Inputs \cap Pair = {}

resolution_min_confidence == 750
resolution_ambiguity_margin == 150
resolution_unknown_floor == 600

VARIABLES
  services, locations,  \* active services, and locations
  markets, aliases,     \* the tables, as committed
  pc, req,              \* of each handler: its next statement, its request
  found, conf,          \* the market it settled on, and the confidence
  newMarket, newAlias,  \* rows its transaction has written
  answer,               \* its last response
  resolved,             \* history: committed resolutions of each text
  received              \* how many requests came in

taxonomy == <<services, locations>>
tables == <<markets, aliases, resolved>>
vars == <<taxonomy, tables, pc, req, found, conf, newMarket, newAlias, answer, received>>

Alias == [market : Pair, confidence : Share, hits : Nat \ {0}]
Statements == {"idle", "lookup", "match", "bykey", "market", "insert", "alias", "commit"}

\* NoAlias, a model value, is not a record.
ASSUME NoAliasAssumption == NoAlias \notin Alias

TypeOK ==
  /\ services \subseteq Services /\ locations \subseteq Locations
  /\ markets \subseteq Pair
  /\ aliases \in [Inputs -> Alias \cup {NoAlias}]
  /\ pc \in [Handlers -> Statements]
  /\ req \in [Handlers -> Inputs \cup Pair \cup {NoMarket}]
  /\ found \in [Handlers -> Pair \cup {NoMarket}]
  /\ conf \in [Handlers -> Share]
  /\ newMarket \in [Handlers -> Pair \cup {NoMarket}]
  /\ newAlias \in [Handlers -> Alias \cup {NoAlias}]
  /\ answer \in [Handlers -> [kind : {"none", "resolved", "unknown", "ambiguous", "error"},
                              markets : SUBSET Pair]]
  /\ resolved \in [Inputs -> Nat]
  /\ received \in Nat

Init ==
  /\ services = SeedServices /\ locations = SeedLocations
  /\ markets = SeedMarkets
  /\ aliases = [i \in Inputs |-> NoAlias]
  /\ pc = [h \in Handlers |-> "idle"]
  /\ req = [h \in Handlers |-> NoMarket]
  /\ found = [h \in Handlers |-> NoMarket]
  /\ conf = [h \in Handlers |-> 0]
  /\ newMarket = [h \in Handlers |-> NoMarket]
  /\ newAlias = [h \in Handlers |-> NoAlias]
  /\ answer = [h \in Handlers |-> [kind |-> "none", markets |-> {}]]
  /\ resolved = [i \in Inputs |-> 0]
  /\ received = 0

-----------------------------------------------------------------------------
(* The decision.                                                           *)

Candidates == services \X locations

\* A market is a pair: its confidence is the weaker of the two halves.
PairConf(i, p) ==
  LET s == ServiceConf[i][p[1]] l == LocationConf[i][p[2]] IN IF s <= l THEN s ELSE l

\* Neither half is too far from everything in the taxonomy.
Plausible(i) ==
  /\ \E s \in services : ServiceConf[i][s] >= resolution_unknown_floor
  /\ \E l \in locations : LocationConf[i][l] >= resolution_unknown_floor

\* Variant: the gates look at the location only.
AcceptedByLocation(i, p) ==
  /\ LocationConf[i][p[2]] >= resolution_min_confidence
  /\ \A l \in locations \ {p[2]} :
       LocationConf[i][l] + resolution_ambiguity_margin <= LocationConf[i][p[2]]

\* p is confident enough, and the runner-up is not too close.
Accepted(i, p) ==
  /\ PairConf(i, p) >= resolution_min_confidence
  /\ \A q \in Candidates \ {p} :
       PairConf(i, q) + resolution_ambiguity_margin <= PairConf(i, p)

\* The four best pairs; among equals any may be cut off.
TopFour(i) ==
  {T \in SUBSET Candidates :
     /\ Cardinality(T) = IF Cardinality(Candidates) <= 4 THEN Cardinality(Candidates) ELSE 4
     /\ \A p \in T, q \in Candidates \ T : PairConf(i, q) <= PairConf(i, p)}

\* Variant: only pairs that would be accepted are offered.
ShortlistsOfConfident(i) ==
  {{p \in T : PairConf(i, p) >= resolution_min_confidence} : T \in TopFour(i)}

Shortlists(i) ==
  {{p \in T : PairConf(i, p) >= resolution_unknown_floor} : T \in TopFour(i)}

-----------------------------------------------------------------------------
(* A request: text, or a market_key.                                       *)

Receive(h) ==
  /\ pc[h] = "idle" /\ received < MaxRequests
  /\ received' = received + 1
  /\ \/ \E i \in Inputs : req' = [req EXCEPT ![h] = i] /\ pc' = [pc EXCEPT ![h] = "lookup"]
     \/ \E p \in Pair : req' = [req EXCEPT ![h] = p] /\ pc' = [pc EXCEPT ![h] = "bykey"]
  /\ UNCHANGED <<taxonomy, tables, found, conf, newMarket, newAlias, answer>>

\* The response, and with it the end of the transaction.
Respond(h, kind, offered) ==
  /\ answer' = [answer EXCEPT ![h] = [kind |-> kind, markets |-> offered]]
  /\ pc' = [pc EXCEPT ![h] = "idle"]
  /\ req' = [req EXCEPT ![h] = NoMarket]
  /\ found' = [found EXCEPT ![h] = NoMarket]
  /\ conf' = [conf EXCEPT ![h] = 0]
  /\ newMarket' = [newMarket EXCEPT ![h] = NoMarket]
  /\ newAlias' = [newAlias EXCEPT ![h] = NoAlias]
  /\ UNCHANGED <<taxonomy, received>>

GoOn(h, to) ==
  /\ pc' = [pc EXCEPT ![h] = to]
  /\ UNCHANGED <<taxonomy, tables, req, answer, received>>

SettleOn(h, p, c, to) ==
  /\ found' = [found EXCEPT ![h] = p]
  /\ conf' = [conf EXCEPT ![h] = c]
  /\ GoOn(h, to)
  /\ UNCHANGED <<newMarket, newAlias>>

\* A text that was resolved before is not matched again.
LookupAlias(h) ==
  \E i \in Inputs :
    /\ pc[h] = "lookup" /\ req[h] = i
    /\ \/ aliases[i] # NoAlias /\ SettleOn(h, aliases[i].market, aliases[i].confidence, "alias")
       \/ aliases[i] = NoAlias /\ GoOn(h, "match") /\ UNCHANGED <<found, conf, newMarket, newAlias>>

\* Services and locations are read by one SELECT each.
Match(h) ==
  \E i \in Inputs :
    /\ pc[h] = "match" /\ req[h] = i
    /\ \/ \E p \in Candidates : Plausible(i) /\ Accepted(i, p) /\ SettleOn(h, p, PairConf(i, p), "market")
       \/ /\ Plausible(i) /\ ~\E p \in Candidates : Accepted(i, p)
          /\ \E S \in Shortlists(i) : Respond(h, "ambiguous", S)
          /\ UNCHANGED tables
       \/ ~Plausible(i) /\ Respond(h, "unknown", {}) /\ UNCHANGED tables

\* resolve_by_key: a market, or a service and a location that may become one.
LookupKey(h) ==
  \E p \in Pair :
    /\ pc[h] = "bykey" /\ req[h] = p
    /\ \/ p \in markets /\ SettleOn(h, p, 1000, "commit")
       \/ p \notin markets /\ p \in Candidates /\ SettleOn(h, p, 1000, "market")
       \/ p \notin markets \cup Candidates /\ Respond(h, "unknown", {}) /\ UNCHANGED tables

-----------------------------------------------------------------------------
(* What a resolution writes.                                               *)

\* Text goes on to its alias; a key is not recorded as one.
AfterMarket(h) == IF req[h] \in Inputs THEN "alias" ELSE "commit"

GetMarket(h) ==
  /\ pc[h] = "market"
  /\ GoOn(h, IF found[h] \in markets THEN AfterMarket(h) ELSE "insert")
  /\ UNCHANGED <<found, conf, newMarket, newAlias>>

\* Variant: the market another open transaction has inserted is used as it is.
CreateMarketDirty(h) ==
  /\ pc[h] = "insert" /\ found[h] \notin markets
  /\ newMarket' = [newMarket EXCEPT ![h] =
       IF \E g \in Handlers \ {h} : newMarket[g] = found[h] THEN NoMarket ELSE found[h]]
  /\ GoOn(h, AfterMarket(h)) /\ UNCHANGED <<found, conf, newAlias>>

\* The INSERT waits for another one of the same pair; it fails if that commits.
CreateMarket(h) ==
  /\ pc[h] = "insert"
  /\ \A g \in Handlers \ {h} : newMarket[g] # found[h]
  /\ \/ /\ found[h] \notin markets
        /\ newMarket' = [newMarket EXCEPT ![h] = found[h]]
        /\ GoOn(h, AfterMarket(h)) /\ UNCHANGED <<found, conf, newAlias>>
     \/ /\ found[h] \in markets
        /\ Respond(h, "error", {}) /\ UNCHANGED tables

\* The row an alias becomes: inserted, or one hit more.
Upserted(i, p, c) ==
  IF aliases[i] = NoAlias THEN [market |-> p, confidence |-> c, hits |-> 1]
  ELSE [aliases[i] EXCEPT !.hits = @ + 1]

HeldAlias(h, i) == req[h] = i /\ newAlias[h] # NoAlias

\* Variant: the row is read, then written.
RecordAliasUnlocked(h) ==
  \E i \in Inputs :
    /\ pc[h] = "alias" /\ req[h] = i
    /\ newAlias' = [newAlias EXCEPT ![h] = Upserted(i, found[h], conf[h])]
    /\ GoOn(h, "commit") /\ UNCHANGED <<found, conf, newMarket>>

\* ON CONFLICT (raw_input) DO UPDATE, which waits for a row in doubt.
RecordAlias(h) ==
  \E i \in Inputs :
    /\ pc[h] = "alias" /\ req[h] = i
    /\ \A g \in Handlers \ {h} : ~HeldAlias(g, i)
    /\ newAlias' = [newAlias EXCEPT ![h] = Upserted(i, found[h], conf[h])]
    /\ GoOn(h, "commit") /\ UNCHANGED <<found, conf, newMarket>>

\* Variant: the market row is taken for inserted though it was found.
CommitUnnamed(h) ==
  /\ pc[h] = "commit"
  /\ markets' = markets \cup {newMarket[h]}
  /\ aliases' = [i \in Inputs |-> IF HeldAlias(h, i) THEN newAlias[h] ELSE aliases[i]]
  /\ resolved' = [i \in Inputs |-> IF HeldAlias(h, i) THEN resolved[i] + 1 ELSE resolved[i]]
  /\ Respond(h, "resolved", {found[h]})

Commit(h) ==
  /\ pc[h] = "commit"
  /\ markets' = markets \cup ({newMarket[h]} \ {NoMarket})
  /\ aliases' = [i \in Inputs |-> IF HeldAlias(h, i) THEN newAlias[h] ELSE aliases[i]]
  /\ resolved' = [i \in Inputs |-> IF HeldAlias(h, i) THEN resolved[i] + 1 ELSE resolved[i]]
  /\ Respond(h, "resolved", {found[h]})

\* start_run goes on to raise (no quota, a run in progress), or the request dies.
Abort(h) ==
  /\ pc[h] # "idle"
  /\ Respond(h, "error", {})
  /\ UNCHANGED tables

\* A deployment seeds more of the taxonomy.
Seed ==
  /\ \/ \E s \in Services : services' = services \cup {s} /\ UNCHANGED locations
     \/ \E l \in Locations : locations' = locations \cup {l} /\ UNCHANGED services
  /\ UNCHANGED <<tables, pc, req, found, conf, newMarket, newAlias, answer, received>>

Resolve(h) ==
  \/ LookupAlias(h) \/ Match(h) \/ LookupKey(h) \/ GetMarket(h)
  \/ CreateMarket(h) \/ RecordAlias(h) \/ Commit(h)

Next ==
  \/ \E h \in Handlers : Receive(h) \/ Resolve(h) \/ Abort(h)
  \/ Seed

Spec == Init /\ [][Next]_vars

-----------------------------------------------------------------------------
(* What holds.                                                             *)

\* A text is matched to a market only when each half stands out by itself: both
\* are confident, and every other service and every other location is further
\* away than the margin, although the code compares pairs only.
NoSilentGuess ==
  [][\A h \in Handlers : pc[h] = "match" /\ pc'[h] = "market" =>
       LET S == ServiceConf[req[h]] L == LocationConf[req[h]]
           s == found'[h][1] l == found'[h][2]
       IN /\ S[s] >= resolution_min_confidence /\ L[l] >= resolution_min_confidence
          /\ \A t \in services \ {s} : S[t] + resolution_ambiguity_margin <= S[s]
          /\ \A m \in locations \ {l} : L[m] + resolution_ambiguity_margin <= L[l]]_vars

\* A refusal for ambiguity offers something to choose: never nothing, and two
\* pairs at least when the best one was good enough.  It rests on the floor
\* being the threshold less the margin.
RefusalOffersChoice ==
  [][\A h \in Handlers : pc[h] = "match" /\ answer'[h].kind = "ambiguous" /\ pc'[h] = "idle" =>
       /\ answer'[h].markets # {}
       /\ (\E p \in answer'[h].markets : PairConf(req[h], p) >= resolution_min_confidence) =>
            Cardinality(answer'[h].markets) > 1]_vars

\* An alias, and an answer, name a market that is committed: neither survives a
\* transaction that created the market and rolled back.
MarketsAreReal ==
  /\ \A i \in Inputs : aliases[i] # NoAlias =>
       aliases[i].market \in markets /\ aliases[i].confidence >= resolution_min_confidence
  /\ \A h \in Handlers : answer[h].kind = "resolved" => answer[h].markets \subseteq markets

\* Once a text has an alias it keeps its market, whatever requests were matching
\* it at the time and however the taxonomy grew.
AliasIsStable ==
  [][\A i \in Inputs : aliases[i] # NoAlias =>
       aliases'[i] # NoAlias /\ aliases'[i].market = aliases[i].market]_vars

\* hit_count counts the resolutions that were committed: none is lost when two
\* requests bring the same text, none is counted for a request that failed.
HitsAreResolutions ==
  \A i \in Inputs : resolved[i] = IF aliases[i] = NoAlias THEN 0 ELSE aliases[i].hits

\* To a reader a resolution is one step: its market, its alias and its hit appear
\* together or not at all, and no two of them mix.
Book == INSTANCE MarketBook
BookSpec == Book!Spec
=============================================================================
