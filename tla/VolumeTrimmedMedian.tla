--------------------------- MODULE VolumeTrimmedMedian ---------------------------
(***************************************************************************)
(* The aggregation of the FTSO provider node (ftso_provider/calculator.rs) *)
(* over the observations of one feed, in the order in which the price book *)
(* yields them: observations() iterates a HashMap, so the order is any.    *)
(*                                                                         *)
(* Prices and volumes are naturals, and the fractions 0.25, 0.75 and 1/2   *)
(* are multiplied out, so no rounding is involved; a price is stored       *)
(* doubled, which makes the plain median of two prices exact.              *)
(***************************************************************************)
EXTENDS Integers, Sequences, FiniteSets, SequencesExt

CONSTANTS Prices, Volumes, MaxExchanges

ASSUME ConstantsAssumption ==
  Prices \subseteq Nat /\ Volumes \subseteq Nat /\ MaxExchanges \in Nat

VARIABLE obs      \* the observations of the feed, in iteration order

Observations == [price : Prices, volume : Volumes]

(* One more exchange has an observation, anywhere in the map's order. *)
observe(o, i) ==
  /\ Len(obs) < MaxExchanges
  /\ obs' = InsertAt(obs, i, o)

----------------------------------------------------------------------------
(* What the first i of the volumes v add up to.                           *)
cumulative(v) ==
  LET cum[i \in 0 .. Len(v)] == IF i = 0 THEN 0 ELSE cum[i - 1] + v[i]
  IN  cum

volumes(s) == [i \in DOMAIN s |-> s[i].volume]
volume(s)  == cumulative(volumes(s))[Len(s)]

(* The members of S in an order; ahead[i] is what it puts before i.        *)
inOrder(S, ahead) ==
  [k \in 1 .. Cardinality(S) |-> CHOOSE i \in S : Cardinality(ahead[i]) = k - 1]

sortByPrice_Missing(s) == s

(* sort_by price: stable, so equal prices keep their order. *)
cheaper(s, i) ==
  {j \in DOMAIN s : \/ s[j].price < s[i].price
                    \/ s[j].price = s[i].price /\ j < i}

sortByPrice(s) ==
  LET order == inOrder(DOMAIN s, [i \in DOMAIN s |-> cheaper(s, i)])
  IN  [k \in DOMAIN s |-> s[order[k]]]

(* The two middle prices, or twice the middle one. *)
plainMedian(s) ==
  LET mid == Len(s) \div 2 IN
    IF Len(s) % 2 = 0 THEN s[mid].price + s[mid + 1].price ELSE 2 * s[mid + 1].price

(* The observations whose volume window meets the middle half. *)
trim(s) ==
  LET cum   == cumulative(volumes(s))
      total == volume(s)
      kept  == {i \in DOMAIN s : 4 * cum[i] > total /\ 4 * cum[i - 1] < 3 * total}
      order == inOrder(kept, [i \in kept |-> {j \in kept : j < i}])
  IN  [k \in DOMAIN order |-> s[order[k]]]

(* The first price at which the cumulative volume reaches half. *)
weightedMedian(s) ==
  LET cum  == cumulative(volumes(s))
      hits == {i \in DOMAIN s : 2 * cum[i] >= cum[Len(s)]}
  IN  2 * s[IF hits = {} THEN Len(s) ELSE CHOOSE i \in hits : \A j \in hits : i <= j].price

(* Twice the aggregated price of a non-empty sequence of observations. *)
volume_trimmed_median(s) ==
  LET sorted == sortByPrice(s)
      kept   == trim(sorted)
  IN  IF Len(s) = 1 THEN 2 * s[1].price
      ELSE IF volume(sorted) = 0 THEN plainMedian(sorted)
      ELSE weightedMedian(IF kept = <<>> THEN sorted ELSE kept)

----------------------------------------------------------------------------
PricesOf(s) == {s[i].price : i \in DOMAIN s}

(* Exchanges that hold at most a quarter of the volume cannot move the     *)
(* aggregate out of the range the other exchanges quote, on either side or *)
(* on both, whatever they report.                                          *)
ThinQuotesCannotMovePrice ==
  LET price == volume_trimmed_median(obs) IN
  \A G \in SUBSET DOMAIN obs :
    LET held   == [i \in DOMAIN obs |-> IF i \in G THEN obs[i].volume ELSE 0]
        others == {obs[i].price : i \in DOMAIN obs \ G}
    IN  G # DOMAIN obs /\ volume(obs) > 0 /\ 4 * cumulative(held)[Len(obs)] <= volume(obs) =>
          \E lo, hi \in others : 2 * lo <= price /\ price <= 2 * hi
=============================================================================
