--------------------------- MODULE ConfiguredStore ---------------------------
(***************************************************************************)
(* A store together with the configurations its processes pass to          *)
(* Store::open and with the names and labels they register.  The actions   *)
(* of Store run under the configuration that created the store; this       *)
(* module adds what decides whether another configuration may open it      *)
(* (the hashes in meta.json), what the slab headers record of the first    *)
(* one, and the command line tool, a second process that rebuilds the      *)
(* configuration from meta.json and opens the store beside its owner.      *)
(***************************************************************************)
EXTENDS Store, Schema, Labels, SlabLayout

CONSTANTS
  Base,            \* the configuration that creates the store: a sequence of
                   \* schemas, schema s of Store being Base[s + 1]
  Offered,         \* configurations that later processes open it with
  Requests,        \* [name, labels] that callers register
  external_labels, \* labels the exporter adds
  Selectors        \* [name, filter] that users of the tool query

ASSUME ConfiguredStoreAssumption ==
  /\ \A c \in Offered : Len(c) \in Nat /\ DOMAIN c = 1 .. Len(c)
  /\ Schemas = 0 .. Len(Base) - 1
  /\ \A i \in DOMAIN Base : IsSchema(Base[i])
  /\ \A s \in Schemas :
       /\ validate(Base[s + 1])
       /\ Tiers[s] = Len(Base[s + 1].tiers) /\ MaxSeries[s] = Base[s + 1].max_series
  /\ Base \in Offered
  /\ \A r \in Requests : r.name \in Nat /\ r.labels \in Seq(Nat \X Nat)
  /\ external_labels \in Seq(Nat \X Nat)
  /\ Keys = {SeriesKey(r.name, r.labels) : r \in Requests}
  /\ \A k \in Keys : Matches[k] = {s \in Schemas : matches(Base[s + 1].label_matcher, k.labels)}

VARIABLES
  config,        \* the configuration of the process
  meta_schemas,  \* what meta.json holds: schemas, each with its hash
  headers,       \* the slab headers
  tool           \* the command line tool: not running, refused, or the
                 \* series it found

configVars == <<config, meta_schemas, headers>>
allVars    == <<vars, configVars, tool>>

NoTool == [at |-> "none"]

(* The header Store::open gives the slab of tier id[2] of schema id[1].    *)
SlabHeader(id) ==
  LET schema == config[id[1] + 1]
      tier   == schema.tiers[id[2] + 1]
  IN  [schema_hash |-> stable_hash(schema), max_series |-> schema.max_series,
       slot_count |-> slot_count(tier), interval_ns |-> interval_nanos(tier)]

-----------------------------------------------------------------------------
CInit ==
  /\ Init
  /\ config = Base
  /\ meta_schemas = << >>
  /\ headers = [id \in SlabIds |-> << >>]
  /\ tool = NoTool

CCreate ==
  /\ CreateDirectory /\ config' = Base
  /\ UNCHANGED <<meta_schemas, headers, tool>>

CCreateMeta ==
  /\ CreateMeta
  /\ meta_schemas' = [i \in DOMAIN config |-> [config |-> config[i], hash |-> stable_hash(config[i])]]
  /\ UNCHANGED <<config, headers, tool>>

CCreateSlab(id) ==
  /\ CreateSlab(id)
  /\ headers' = [headers EXCEPT ![id] = SlabHeader(id)]
  /\ UNCHANGED <<config, meta_schemas, tool>>

(* What Store::open and open_existing ask of the schemas that are provided *)
(* for an existing store.                                                  *)
Accepted(provided) ==
  /\ \A i \in DOMAIN provided : validate(provided[i])
  /\ Len(provided) = Len(meta_schemas)
  /\ \A i \in DOMAIN provided :
       /\ stable_hash(provided[i]) = meta_schemas[i].hash
       /\ Len(provided[i].tiers) = Len(meta_schemas[i].config.tiers)

COpen(provided) ==
  /\ OpenExisting
  /\ Accepted(provided)
  /\ config' = provided
  /\ UNCHANGED <<meta_schemas, headers, tool>>

(* register refuses invalid names and labels before anything else.         *)
CRegister(r) ==
  /\ validate_name(r.name)
  /\ validate_labels(r.labels)
  /\ Register(SeriesKey(r.name, r.labels))
  /\ UNCHANGED <<configVars, tool>>

(* The tool reads meta.json, rebuilds the schemas and opens the store.     *)
(* While the owner rewrites the index it may find it truncated.            *)
Readable(index_) ==
  /\ meta = "good"
  /\ \A id \in SlabIds : slabs[id] \in {"good", "unfilled"}
  /\ index_ # "truncated"

reconstruct_schemas == [i \in DOMAIN meta_schemas |-> Reread(meta_schemas[i].config)]

ToolOpen ==
  /\ tool = NoTool
  /\ meta # "missing"
  /\ \E index_ \in {index} \cup IF phase = "saving" THEN {"truncated"} ELSE {} :
       tool' = IF Readable(index_) /\ Accepted(reconstruct_schemas)
                 THEN [at |-> "open",
                       series |-> IF index_ = "missing" THEN EmptyRegistry.series ELSE saved.series]
                 ELSE [at |-> "refused"]
  /\ UNCHANGED <<vars, configVars>>

(* query goes on with one of the series that the selector fits, whichever  *)
(* the registry's map yields first.                                        *)
ToolSelect(selector) ==
  /\ tool.at = "open"
  /\ \E k \in DOMAIN tool.series :
       /\ k.name = selector.name
       /\ matches_labels(k.labels, selector.filter)
       /\ tool' = [at |-> "query", series |-> [x \in {k} |-> tool.series[x]]]
  /\ UNCHANGED <<vars, configVars>>

ToolExit ==
  /\ tool # NoTool
  /\ tool' = NoTool
  /\ UNCHANGED <<vars, configVars>>

(* A crash inside Slab::create can leave a valid header.                   *)
CCrash ==
  /\ Crash
  /\ headers' = [id \in SlabIds |-> IF slabs[id] = "missing" /\ slabs'[id] = "unfilled"
                                     THEN SlabHeader(id) ELSE headers[id]]
  /\ UNCHANGED <<config, meta_schemas, tool>>

COther ==
  /\ CreateIndex \/ Close \/ SyncSlabs \/ SaveIndex \/ SaveError
  /\ UNCHANGED <<configVars, tool>>

CNext ==
  \/ CCreate \/ CCreateMeta \/ (\E id \in SlabIds : CCreateSlab(id))
  \/ \E provided \in Offered : COpen(provided)
  \/ \E r \in Requests : CRegister(r)
  \/ COther \/ CCrash
  \/ ToolOpen \/ (\E selector \in Selectors : ToolSelect(selector)) \/ ToolExit

(* The owner opens its store when it starts, and open is sequential code   *)
(* that runs to its end.                                                   *)
CSpec ==
  /\ CInit /\ [][CNext]_allVars
  /\ WF_allVars(CCreate \/ CCreateMeta \/ (\E id \in SlabIds : CCreateSlab(id)))
  /\ WF_allVars(CreateIndex /\ COther)
  /\ WF_allVars(COpen(Base))

-----------------------------------------------------------------------------
(* Properties.                                                             *)

CTypeOK ==
  /\ TypeOK
  /\ config \in Offered
  /\ tool.at \in {"none", "refused", "open", "query"}

(* Whatever configurations later processes come with, an open store has    *)
(* slabs of the geometry its process configured, and routes each of its    *)
(* series as when it was registered (Store::open: SchemaMismatch; a new    *)
(* name alone does not lock anyone out).                                   *)
SchemasKept ==
  phase = "open" =>
    /\ \A id \in SlabIds : headers[id] = SlabHeader(id)
    /\ \A k \in Registered(registry) :
         LET takes(s) == matches(config[s + 1].label_matcher, k.labels)
         IN  /\ takes(registry.series[k].schema)
             /\ \A s \in 0 .. registry.series[k].schema - 1 : ~takes(s)

(* Series with distinct keys stay distinct on the wire, and each has its   *)
(* labels in the strict order remote write asks for - for series whose own *)
(* labels and those of the exporter have distinct keys, and an exporter    *)
(* that adds no __name__ of its own.                                       *)
WellLabelled(k) ==
  LET all == k.labels \o external_labels
  IN  /\ \A i, j \in DOMAIN all : i # j => all[i][1] # all[j][1]
      /\ \A j \in DOMAIN external_labels : external_labels[j][1] # Reserved

Wire == [k \in Keys |-> build_labels(k.name, k.labels, external_labels)]

WireLabelsDistinct ==
  \A j, k \in {x \in Registered(registry) : WellLabelled(x)} :
    /\ \A p \in 1 .. Len(Wire[k]) - 1 : Wire[k][p][1] < Wire[k][p + 1][1]
    /\ Wire[j] = Wire[k] => j = k

(* No two cells of a slab share a byte, and all are inside the file.       *)
CellsApart == \A id \in SlabIds : headers[id] # << >> => CellsApartIn(headers[id])

(* A series the tool found keeps its column under the tool's feet: the     *)
(* owner may crash, fail to save and open the store again, but never gives *)
(* the column to another series while it is open.                          *)
ToolAgrees ==
  (tool.at \in {"open", "query"} /\ phase = "open") =>
    \A k \in DOMAIN tool.series :
      k \in Registered(registry) /\ registry.series[k] = tool.series[k]

(* The tool is refused only by a store its owner could not open either, in *)
(* the instant the owner rewrites the index, or when a duration is longer  *)
(* than f64 seconds are precise.                                           *)
Imprecise ==
  \E i \in DOMAIN Base : \E t \in DOMAIN Base[i].tiers :
    Base[i].tiers[t].interval >= F64Exact \/ Base[i].tiers[t].retention >= F64Exact

ToolOpensGood ==
  [][(tool = NoTool /\ tool'.at = "refused") =>
       ~Readable(index) \/ phase = "saving" \/ Imprecise]_tool

(* Store::open comes to an end with an open store, unless an earlier       *)
(* process died inside create_new before the slabs were complete, or left  *)
(* the index truncated.                                                    *)
OpensUnlessTorn ==
  (phase = "closed") ~> (phase = "open" \/ (dir /\ ~Readable(index)))

(* set_series_column, "The caller must ensure `series_id` is within        *)
(* bounds": an entry of the series directory is inside the directory.      *)
DirectoryInBounds ==
  \A id \in SlabIds : \A e \in directory[id].entries :
    DirectoryEntry(e[1]).to <= timestamp_column_offset(headers[id])
=============================================================================
