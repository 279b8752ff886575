------------------------------- MODULE Schema -------------------------------
(***************************************************************************)
(* Schema configuration (rondo/src/schema.rs): tiers, label matchers, what *)
(* validate accepts, the hash that stands for a configuration in the files *)
(* of a store, and the trip of a configuration through meta.json.          *)
(*                                                                         *)
(* A duration is a number of nanoseconds.  A tier is a record of interval, *)
(* retention and consolidation_fn ("None" when it has none), a schema one  *)
(* of name, label_matcher (a function from label keys to values), tiers (a *)
(* sequence) and max_series.  A label is a pair <<key, value>>.            *)
(***************************************************************************)
EXTENDS Integers, Sequences

CONSTANTS
  U64,                 \* 2^64: as_nanos() as u64 keeps the remainder
  MAX_SLOTS_PER_TIER,
  F64Exact,            \* durations from here on have an f64 of seconds that
  F64Grain             \* is only precise to this many nanoseconds

ASSUME SchemaAssumption ==
  /\ U64 \in Nat \ {0} /\ MAX_SLOTS_PER_TIER \in Nat \ {0}
  /\ F64Exact \in Nat /\ F64Grain \in Nat \ {0}

(* The types of TierConfig and SchemaConfig; a matcher may be any map.     *)
IsTier(tier) ==
  /\ tier = [interval |-> tier.interval, retention |-> tier.retention,
             consolidation_fn |-> tier.consolidation_fn]
  /\ tier.interval \in Nat /\ tier.retention \in Nat

IsSchema(schema) ==
  /\ schema = [name |-> schema.name, label_matcher |-> schema.label_matcher,
               tiers |-> schema.tiers, max_series |-> schema.max_series]
  /\ Len(schema.tiers) \in Nat
  /\ schema.tiers = [i \in 1 .. Len(schema.tiers) |-> schema.tiers[i]]
  /\ \A i \in DOMAIN schema.tiers : IsTier(schema.tiers[i])
  /\ schema.max_series \in Nat

-----------------------------------------------------------------------------
(* Tiers.                                                                  *)

interval_nanos(tier) == tier.interval % U64

slot_count(tier) ==
  IF interval_nanos(tier) = 0 THEN 0
  ELSE (tier.retention % U64) \div interval_nanos(tier)

ValidTier(tier) ==
  /\ tier.interval # 0
  /\ tier.retention # 0
  /\ tier.retention >= tier.interval
  /\ slot_count(tier) <= MAX_SLOTS_PER_TIER

(* Schemas.  Intervals grow from tier to tier, and the first tier has no   *)
(* consolidation function; the others may lack theirs.                     *)
validate(schema) ==
  /\ schema.tiers # << >>
  /\ schema.max_series # 0
  /\ \A i \in DOMAIN schema.tiers : ValidTier(schema.tiers[i])
  /\ \A i \in 1 .. Len(schema.tiers) - 1 : schema.tiers[i].interval < schema.tiers[i + 1].interval
  /\ schema.tiers[1].consolidation_fn = "None"

-----------------------------------------------------------------------------
(* The hash: of the matcher, the tiers and max_series, not of the name.    *)
(* Two configurations are taken to have the same hash only if they agree   *)
(* in all that goes into it.                                               *)

HashOfLayout(schema) ==    \* mutant of stable_hash: the matcher is left out
  [tiers |-> schema.tiers, max_series |-> schema.max_series]

stable_hash(schema) ==
  [label_matcher |-> schema.label_matcher, tiers |-> schema.tiers,
   max_series |-> schema.max_series]

-----------------------------------------------------------------------------
(* Label matchers.  Of several labels with one key the last is looked at:  *)
(* they are collected into a map.                                          *)

matches(matcher, labels) ==
  \A k \in DOMAIN matcher : \E i \in DOMAIN labels :
    /\ labels[i] = <<k, matcher[k]>>
    /\ \A j \in i + 1 .. Len(labels) : labels[j][1] # k

-----------------------------------------------------------------------------
(* Durations in meta.json are f64 seconds (duration_serde).                *)

WholeSeconds(d) == (d \div F64Grain) * F64Grain    \* mutant: as_secs

duration_serde(d) ==
  IF d < F64Exact THEN d ELSE ((d + F64Grain \div 2) \div F64Grain) * F64Grain

(* A schema read back from meta.json, as the command line tool does.       *)
RereadTier(tier) ==
  [tier EXCEPT !.interval = duration_serde(@), !.retention = duration_serde(@)]

Reread(schema) ==
  [schema EXCEPT !.tiers = [i \in DOMAIN schema.tiers |-> RereadTier(schema.tiers[i])]]
=============================================================================
