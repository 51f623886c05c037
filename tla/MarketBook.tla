----------------------------- MODULE MarketBook -----------------------------
(***************************************************************************)
(* What a reader of the database may see of the resolver: the markets that *)
(* exist and the market each text stands for.  A resolution is one step,   *)
(* whatever statements, waits and rollbacks it takes; Resolver implements  *)
(* it.                                                                     *)
(***************************************************************************)
EXTENDS Naturals

CONSTANTS
  Pair, SeedMarkets,  \* what may be a market, and what is one at first
  Inputs, NoAlias,    \* texts; an unknown text has no alias
  resolution_min_confidence

VARIABLES
  markets, aliases,   \* the tables
  resolved            \* how often each text was resolved

book == <<markets, aliases, resolved>>

Init ==
  /\ markets = SeedMarkets
  /\ aliases = [i \in Inputs |-> NoAlias]
  /\ resolved = [i \in Inputs |-> 0]

\* A client is answered p, for a market_key.
ResolveKey(p) ==
  /\ markets' = markets \cup {p}
  /\ UNCHANGED <<aliases, resolved>>

\* A client is answered p for a text, which from now on stands for p.
FirstResolve(i, p, c) ==
  /\ aliases[i] = NoAlias
  /\ markets' = markets \cup {p}
  /\ aliases' = [aliases EXCEPT ![i] = [market |-> p, confidence |-> c, hits |-> 1]]
  /\ resolved' = [resolved EXCEPT ![i] = @ + 1]

\* The text stands for a market already, and goes on to.  p is another one when
\* the text was matched, over other locations, before it had its alias.
ResolveAgain(i, p) ==
  /\ aliases[i] # NoAlias
  /\ markets' = markets \cup {p}
  /\ aliases' = [aliases EXCEPT ![i].hits = @ + 1]
  /\ resolved' = [resolved EXCEPT ![i] = @ + 1]

Next ==
  \E p \in Pair :
    \/ ResolveKey(p)
    \/ \E i \in Inputs :
         \/ \E c \in resolution_min_confidence .. 1000 : FirstResolve(i, p, c)
         \/ ResolveAgain(i, p)

Spec == Init /\ [][Next]_book
=============================================================================
