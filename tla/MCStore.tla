------------------------------ MODULE MCStore -------------------------------
(* A store of two schemas for TLC.  The first takes series with label 2    *)
(* set to 1 and has two columns, so that one of the three keys it matches  *)
(* is refused; the second is only reached by series the first does not     *)
(* match.                                                                  *)
EXTENDS ConfiguredStore

Tier(interval, retention, fn) ==
  [interval |-> interval, retention |-> retention, consolidation_fn |-> fn]

SchemaConfig(name, matcher, tiers, max_series) ==
  [name |-> name, label_matcher |-> matcher, tiers |-> tiers, max_series |-> max_series]

Two(v)   == [k \in {2} |-> v]
Three(v) == [k \in {3} |-> v]

Fine   == SchemaConfig("fine", Two(1), <<Tier(3, 6, "None")>>, 2)
Coarse == SchemaConfig("coarse", Three(1), <<Tier(3, 7, "None"), Tier(9, 18, "Max")>>, 1)

TwoSchemas == <<Fine, Coarse>>

(* The same under another name; then another matcher, capacity, retention, *)
(* order and number of schemas; and one that validate refuses.             *)
Variants ==
  {TwoSchemas,
   <<[Fine EXCEPT !.name = "renamed"], Coarse>>,
   <<[Fine EXCEPT !.label_matcher = Two(2)], Coarse>>,
   <<[Fine EXCEPT !.max_series = 3], Coarse>>,
   <<Fine, [Coarse EXCEPT !.tiers[1].retention = 6]>>,
   <<Coarse, Fine>>,
   <<Fine>>,
   <<[Fine EXCEPT !.tiers = << >>], Coarse>>}

Labelled(name, labels) == [name |-> name, labels |-> labels]

(* One key in two orders, one with two values for label 2, one per schema, *)
(* one no schema takes, and two that register refuses.                   *)
Calls ==
  {Labelled(1, <<(<<2, 1>>), (<<3, 1>>)>>), Labelled(1, <<(<<3, 1>>), (<<2, 1>>)>>),
   Labelled(1, <<(<<2, 1>>)>>),
   Labelled(1, <<(<<2, 2>>), (<<2, 1>>)>>),
   Labelled(2, <<(<<3, 1>>)>>),
   Labelled(2, << >>),
   Labelled(1, <<(<<1, 2>>), (<<2, 1>>)>>),
   Labelled(1, <<(<<2, 1>>), (<<3, 0>>)>>)}

(* By name alone, and by name and a label.                                 *)
Selections == {[name |-> 1, filter |-> << >>], [name |-> 1, filter |-> <<(<<3, 1>>)>>]}

Instance == <<(<<4, 1>>)>>

AllKeys   == {SeriesKey(r.name, r.labels) : r \in Calls}
TierCount == [s \in 0 .. Len(Base) - 1 |-> Len(Base[s + 1].tiers)]
Capacity  == [s \in 0 .. Len(Base) - 1 |-> Base[s + 1].max_series]
Routing   ==
  [k \in AllKeys |-> {s \in 0 .. Len(Base) - 1 : matches(Base[s + 1].label_matcher, k.labels)}]
=============================================================================
