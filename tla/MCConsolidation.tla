--------------------------- MODULE MCConsolidation ---------------------------
(* Small stores for TLC: one schema of two tiers, one of three tiers, and  *)
(* two schemas.  Ring ids are <<schema, tier>>.                            *)
EXTENDS Query

CONSTANTS MinTime, MaxTime   \* bounds on the recorded timestamps

NoPoints == {}

(* One schema, tier 0 of width 1 and tier 1 of width 2.                    *)
TwoTiers      == {<<0, 0>>, <<0, 1>>}
TwoTierPairs  == <<(<<<<0, 0>>, <<0, 1>>>>)>>
ThreeTiers     == TwoTiers \cup {<<0, 2>>}
ThreeTierPairs == TwoTierPairs \o <<(<<<<0, 1>>, <<0, 2>>>>)>>
TwoSchemas     == TwoTiers \cup {<<1, 0>>, <<1, 1>>}
TwoSchemaPairs == TwoTierPairs \o <<(<<<<1, 0>>, <<1, 1>>>>)>>

(* Widths 1, 2, 4.                                                         *)
UnitWidths == [r \in RingIds |-> 2 ^ r[2]]

(* Enough slots that the bounded run never laps the first tier, and rings  *)
(* small enough to lap.                                                    *)
Roomy == [r \in RingIds |-> IF r[2] = 0 THEN MaxTime + 1 ELSE 3]
Tight == [r \in RingIds |-> 3]
Small == [r \in RingIds |-> IF r[2] = 0 THEN 5 ELSE 3]

Recorded == MinTime .. MaxTime
FromOne  == {1} \cup Recorded
WithGap  == Recorded \ {MaxTime - 1}

None       == {}
SecondDest == {<<1, 1>>}
FirstDest  == {<<0, 1>>}
LastTwo    == {MaxTime - 1, MaxTime}
=============================================================================
