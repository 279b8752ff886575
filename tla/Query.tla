-------------------------------- MODULE Query --------------------------------
(***************************************************************************)
(* Queries of a store (Store::query and query_auto of rondo/src/store.rs,  *)
(* rondo/src/query.rs) and their callers: the HTTP API of the demo, which  *)
(* asks tier 0 under the metrics lock, and the command line tool, which    *)
(* maps the files in a process of its own, perhaps in the middle of a call *)
(* of consolidate.                                                         *)
(*                                                                         *)
(* A query changes nothing, so it is an operator of the rings it reads; an *)
(* answer is an error or a record of what QueryResult carries.             *)
(***************************************************************************)
EXTENDS Consolidation

CONSTANT Forever    \* u64::MAX

ASSUME QueryAssumption == Forever \in Nat

AutoTier == -1          \* --tier auto

Tiers(schema) == Cardinality({r \in RingIds : r[1] = schema})

Error(why) == [error |-> why]

-----------------------------------------------------------------------------
QueryResult(points, tier_used, available_range, requested_range, may_be_incomplete) ==
  [points |-> points, tier_used |-> tier_used, available_range |-> available_range,
   requested_range |-> requested_range, may_be_incomplete |-> may_be_incomplete]

query(view, schema, column, tier, start, end) ==
  IF tier >= Tiers(schema) THEN Error("InvalidTier")
  ELSE IF start >= end THEN Error("InvalidTimeRange")
  ELSE LET ring == view[<<schema, tier>>]
       IN  QueryResult(read(ring, column, start, end), tier,
                       <<oldest_timestamp(ring), newest_timestamp(ring)>>, <<start, end>>,
                       analyze_coverage(ring, start, end).may_be_incomplete)

(* The first tier that covers the range, else the last that has any data,  *)
(* else tier 0.                                                            *)
SelectTier(view, schema, start, end) ==
  LET tiers   == 0 .. Tiers(schema) - 1
      covers  == {t \in tiers : analyze_coverage(view[<<schema, t>>], start, end).fully_covered}
      filled  == {t \in tiers : /\ oldest_timestamp(view[<<schema, t>>]) # 0
                                /\ newest_timestamp(view[<<schema, t>>]) # 0}
  IN  IF covers # {} THEN CHOOSE t \in covers : \A u \in covers : t <= u
      ELSE IF filled # {} THEN CHOOSE t \in filled : \A u \in filled : u <= t
      ELSE 0

query_auto(view, schema, column, start, end) ==
  IF start >= end THEN Error("InvalidTimeRange")
  ELSE query(view, schema, column, SelectTier(view, schema, start, end), start, end)

-----------------------------------------------------------------------------
(* Callers.  handle_query has defaults for both ends and closes the        *)
(* connection without an answer on an error; cmd_query asks for all there  *)
(* is or for a range that ends now, of a tier or of any.  The tool sees    *)
(* the owner's rings as a reopened store.                                  *)

handle_query(schema, column, start, end) == query(rings, schema, column, 0, start, end)

ToolView == [r \in RingIds |-> reopen(rings[r])]

cmd_query(schema, column, tier, range, now) ==
  LET start == IF range = Forever \/ range > now THEN 0 ELSE now - range
      end   == IF range = Forever THEN Forever ELSE now
  IN  IF tier = AutoTier THEN query_auto(ToolView, schema, column, start, end)
                     ELSE query(ToolView, schema, column, tier, start, end)

-----------------------------------------------------------------------------
(* Properties.                                                             *)

(* The raw points an answer aggregates.                                    *)
Represented(answer) == UNION {answer.points[k][2] : k \in DOMAIN answer.points}

(* The raw points it has to: those whose point or window starts in the     *)
(* range, consolidated into the tier by the last completed call.           *)
Due(schema, column, answer) ==
  LET r     == <<schema, answer.tier_used>>
      start(t) == (t \div IntervalNs[r]) * IntervalNs[r]
      until == IF answer.tier_used = 0 THEN Forever
               ELSE CHOOSE x \in {cursorFile[i] : i \in {j \in PairIds : Dst(j) = r}} : TRUE
  IN  {t \in recorded[<<schema, 0>>][column] :
         t <= until /\ start(t) \in answer.requested_range[1] .. answer.requested_range[2] - 1}

Schemas == {r[1] : r \in RingIds}

Times == {t \in 1 .. Forever : t \in Timestamps \/ t - 1 \in Timestamps}

(* The windows of all points ever recorded fit into the ring at once: it   *)
(* has not come round to a slot again.                                     *)
Fits(r, column) ==
  \A t, u \in recorded[<<r[1], 0>>][column] :
    t \div IntervalNs[r] < u \div IntervalNs[r] + SlotCount[r]

(* No window between those of two recorded points is empty.                *)
NoEmptyWindow(r, column) ==
  \A t, u \in recorded[<<r[1], 0>>][column] :
    \A k \in t \div IntervalNs[r] .. u \div IntervalNs[r] :
      \E v \in recorded[<<r[1], 0>>][column] : v \div IntervalNs[r] = k

(* Every answer a caller can get about a series: from its owner between    *)
(* two calls of consolidate, and at any time from the tool.                *)
Answers(s, c) ==
  {a \in {cmd_query(s, c, tier, range, now) :
            tier \in {AutoTier} \cup 0 .. Tiers(s), range \in Times \cup {Forever}, now \in Times}
           \cup IF job # Idle THEN {}
                ELSE {query_auto(rings, s, c, start, end) : start, end \in Times}
                       \cup {handle_query(s, c, start, Forever) : start \in Times} :
     "error" \notin DOMAIN a}

(* An answer that is not called incomplete lacks no point: everything      *)
(* recorded in the range and consolidated by a completed call is in it,    *)
(* whichever tier was chosen, whether the owner or the tool asks and       *)
(* between which writes a crash interrupted consolidation - as long as the *)
(* tier holds the windows of everything that was ever recorded: a call     *)
(* that writes more windows than there are slots writes them in the order  *)
(* of a hash map.  A crash inside a write is left out (BoundarySpec): the  *)
(* timestamp it leaves can make the tool take a ring that has wrapped for  *)
(* one that has not, and hide points from it without the mark.             *)
CompleteUnlessFlagged ==
  cursorFile # EmptyFile =>
    \A s \in Schemas, c \in Columns : \A answer \in Answers(s, c) :
      \/ answer.may_be_incomplete
      \/ ~Fits(<<s, answer.tier_used>>, c)
      \/ answer.tier_used > 0 /\ ~NoEmptyWindow(<<s, answer.tier_used>>, c)
      \/ Due(s, c, answer) \subseteq Represented(answer)

(* query_auto, "the highest-resolution tier whose retention window covers  *)
(* the requested time range": a range from the oldest up to and with the   *)
(* newest point of tier 0 is answered from tier 0.                         *)
RealTimeFromFinest ==
  job = Idle =>
    \A s \in Schemas, c \in Columns, start \in Times :
      LET ring == rings[<<s, 0>>]
      IN  start \in oldest_timestamp(ring) .. newest_timestamp(ring) /\ oldest_timestamp(ring) # 0 =>
            query_auto(rings, s, c, start, newest_timestamp(ring) + 1).tier_used = 0
=============================================================================
