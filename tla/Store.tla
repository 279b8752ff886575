-------------------------------- MODULE Store --------------------------------
(***************************************************************************)
(* The store directory and the series registry: Store::open, which creates *)
(* the files of a new store one after the other or reads those of an       *)
(* existing one (rondo/src/store.rs), SeriesRegistry::register and the     *)
(* series directories in the slabs (rondo/src/series.rs, slab.rs).         *)
(*                                                                         *)
(* What a file holds matters only as far as opening it tells: meta.json    *)
(* and the index are missing, truncated or good; a slab is missing, bad    *)
(* (no valid header, or the wrong size), unfilled (the header is valid,    *)
(* the rest still the zeros of the new file) or good.  The rows of the     *)
(* rings are in the other modules.                                         *)
(***************************************************************************)
EXTENDS Integers, Sequences, FiniteSets

CONSTANTS
  Keys,          \* valid series keys: a name and sorted labels
  Tiers,         \* [schema -> number of tiers], schemas are 0, 1, ...
  MaxSeries,     \* [schema -> max_series]
  Matches,       \* [key -> the schemas whose label matcher accepts it]
  MaxCrashes,    \* bounds on crashes and failed saves
  MaxSaveErrors

Schemas == DOMAIN Tiers

ASSUME StoreAssumption ==
  /\ Schemas # {} /\ Schemas \subseteq Nat /\ Schemas = 0 .. Cardinality(Schemas) - 1
  /\ Tiers \in [Schemas -> Nat \ {0}] /\ MaxSeries \in [Schemas -> Nat \ {0}]
  /\ Matches \in [Keys -> SUBSET Schemas]
  /\ MaxCrashes \in Nat /\ MaxSaveErrors \in Nat

VARIABLES
  dir,        \* whether the directory of the store exists
  meta,       \* meta.json
  slabs,      \* the slab files
  index,      \* series_index.bin, and the registry it holds when good
  saved,
  directory,  \* per slab: series_count of its header and the series
              \* directory, as the set of <<series_id, column>> written
  phase,      \* where the process is: closed, creating, open, or inside
              \* register (registering, saving)
  registry,   \* its SeriesRegistry
  pending,    \* the key that register is working on
  handles,    \* history: <<key, handle>> that register returned
  crashes, saveErrors

files   == <<dir, meta, slabs, index, saved>>
process == <<phase, registry, pending>>
history == <<handles, crashes, saveErrors>>
vars    == <<files, directory, process, history>>

(* The slabs, one for each tier of each schema.                            *)
SlabIds == UNION {{s} \X (0 .. Tiers[s] - 1) : s \in Schemas}

-----------------------------------------------------------------------------
(* The registry: series_map and the two counters of each schema.           *)

EmptyRegistry ==
  [series |-> [k \in {} |-> 0],
   next_series_id |-> [s \in Schemas |-> 0], next_column |-> [s \in Schemas |-> 0]]

Registered(reg) == DOMAIN reg.series

(* find_matching_schema: the first one in configuration order.             *)
find_matching_schema(k) == CHOOSE s \in Matches[k] : \A o \in Matches[k] : s <= o

(* Mutant of register: the column is one behind its counter.               *)
RegisterPrevious(reg, k) ==
  LET s == find_matching_schema(k)
      h == [schema |-> s, series_id |-> reg.next_series_id[s], column |-> reg.next_column[s] - 1]
  IN  [reg EXCEPT !.series = [x \in DOMAIN @ \cup {k} |-> IF x = k THEN h ELSE @[x]],
                  !.next_series_id[s] = @ + 1, !.next_column[s] = @ + 1]

(* A new series takes the next series id and column of its schema.         *)
register(reg, k) ==
  LET s == find_matching_schema(k)
      h == [schema |-> s, series_id |-> reg.next_series_id[s], column |-> reg.next_column[s]]
  IN  [series |-> [x \in DOMAIN reg.series \cup {k} |-> IF x = k THEN h ELSE reg.series[x]],
       next_series_id |-> [reg.next_series_id EXCEPT ![s] = @ + 1],
       next_column    |-> [reg.next_column EXCEPT ![s] = @ + 1]]

(* sync_to_slabs on the slabs of schema s: slab number i of the list is    *)
(* taken for the slab of SCHEMA i, although it is the slab of TIER i.      *)
sync_to_slabs(reg, s) ==
  [id \in SlabIds |->
     IF id[1] # s THEN directory[id]
     ELSE [count   |-> IF id[2] \in Schemas THEN reg.next_series_id[id[2]] ELSE 0,
           entries |-> directory[id].entries \cup
                         {<<reg.series[k].series_id, reg.series[k].column>> :
                            k \in {x \in Registered(reg) : reg.series[x].schema = id[2]}}]]

-----------------------------------------------------------------------------
Init ==
  /\ dir = FALSE /\ meta = "missing" /\ slabs = [id \in SlabIds |-> "missing"]
  /\ index = "missing" /\ saved = EmptyRegistry
  /\ directory = [id \in SlabIds |-> [count |-> 0, entries |-> {}]]
  /\ phase = "closed" /\ registry = EmptyRegistry /\ pending \in Keys
  /\ handles = {}
  /\ crashes = 0 /\ saveErrors = 0

(* Store::open where no directory exists: create_new makes the directories *)
(* first.                                                                  *)
CreateDirectory ==
  /\ phase = "closed"
  /\ ~dir
  /\ dir' = TRUE
  /\ phase' = "creating"
  /\ UNCHANGED <<meta, slabs, index, saved, directory, registry, pending, history>>

(* The files follow in this order: meta.json, the slabs by schema and      *)
(* tier, and the index of the empty registry.                              *)
Precedes(a, b) == a[1] < b[1] \/ (a[1] = b[1] /\ a[2] < b[2])

NextSlab(id) ==
  /\ slabs[id] = "missing"
  /\ \A o \in SlabIds : Precedes(o, id) => slabs[o] # "missing"

CreateMeta ==
  /\ phase = "creating"
  /\ meta = "missing"
  /\ meta' = "good"
  /\ UNCHANGED <<dir, slabs, index, saved, directory, process, history>>

CreateSlab(id) ==
  /\ phase = "creating"
  /\ meta = "good"
  /\ NextSlab(id)
  /\ slabs' = [slabs EXCEPT ![id] = "good"]
  /\ UNCHANGED <<dir, meta, index, saved, directory, process, history>>

CreateIndex ==
  /\ phase = "creating"
  /\ \A id \in SlabIds : slabs[id] = "good"
  /\ index' = "good" /\ saved' = EmptyRegistry
  /\ phase' = "open" /\ registry' = EmptyRegistry
  /\ UNCHANGED <<dir, meta, slabs, directory, pending, history>>

(* Mutants of OpenExisting: an index that does not parse stands for an     *)
(* empty registry as well; a missing index is an error.                    *)
OpenForgetsIndex ==
  /\ phase = "closed"
  /\ dir
  /\ meta = "good"
  /\ \A id \in SlabIds : slabs[id] \in {"good", "unfilled"}
  /\ phase' = "open"
  /\ registry' = IF index # "good" THEN EmptyRegistry ELSE saved
  /\ UNCHANGED <<files, directory, pending, history>>

OpenNeedsIndex ==
  /\ phase = "closed"
  /\ dir
  /\ meta = "good"
  /\ \A id \in SlabIds : slabs[id] \in {"good", "unfilled"}
  /\ index = "good"
  /\ phase' = "open"
  /\ registry' = saved
  /\ UNCHANGED <<files, directory, pending, history>>

(* open_existing: metadata, every slab and the index have to read well,    *)
(* but a missing index stands for an empty registry.  Anything else is an  *)
(* error, and the store stays closed.                                      *)
OpenExisting ==
  /\ phase = "closed"
  /\ dir
  /\ meta = "good"
  /\ \A id \in SlabIds : slabs[id] \in {"good", "unfilled"}
  /\ index # "truncated"
  /\ phase' = "open"
  /\ registry' = IF index = "missing" THEN EmptyRegistry ELSE saved
  /\ UNCHANGED <<files, directory, pending, history>>

Close ==
  /\ phase = "open"
  /\ phase' = "closed"
  /\ UNCHANGED <<files, directory, registry, pending, history>>

(* Store::register, first part: a known key keeps its handle, a new one    *)
(* that some schema matches gets the next column while there is room.      *)
Register(k) ==
  /\ phase = "open"
  /\ \/ k \in Registered(registry) /\ UNCHANGED registry
     \/ /\ k \notin Registered(registry)
        /\ Matches[k] # {}
        /\ registry.next_series_id[find_matching_schema(k)] < MaxSeries[find_matching_schema(k)]
        /\ registry' = register(registry, k)
  /\ phase' = "registering"
  /\ pending' = k
  /\ UNCHANGED <<files, directory, history>>

(* Then the slab directories are written ...                               *)
SyncSlabs ==
  /\ phase = "registering"
  /\ directory' = sync_to_slabs(registry, registry.series[pending].schema)
  /\ phase' = "saving"
  /\ UNCHANGED <<files, registry, pending, history>>

SkipSave ==    \* mutant of SaveIndex: the index is left for later
  /\ phase = "saving"
  /\ handles' = handles \cup {<<pending, registry.series[pending]>>}
  /\ phase' = "open"
  /\ UNCHANGED <<files, directory, registry, pending, crashes, saveErrors>>

(* ... and the index is saved.  Only then does the caller get the handle.  *)
SaveIndex ==
  /\ phase = "saving"
  /\ index' = "good" /\ saved' = registry
  /\ handles' = handles \cup {<<pending, registry.series[pending]>>}
  /\ phase' = "open"
  /\ UNCHANGED <<dir, meta, slabs, directory, registry, pending, crashes, saveErrors>>

(* The write fails: register returns the error, the new series stays in    *)
(* the registry of this process.                                           *)
SaveError ==
  /\ phase = "saving"
  /\ saveErrors < MaxSaveErrors
  /\ saveErrors' = saveErrors + 1
  /\ index' \in {index, "truncated"}
  /\ phase' = "open"
  /\ UNCHANGED <<dir, meta, slabs, saved, directory, registry, pending, handles, crashes>>

(* The process dies.  The file being written may be left unfinished.       *)
TornFile ==
  \/ /\ phase = "creating" /\ meta = "missing"
     /\ meta' = "truncated"
     /\ UNCHANGED <<dir, slabs, index, saved>>
  \/ /\ phase = "creating" /\ meta = "good"
     /\ \E id \in SlabIds, torn \in {"bad", "unfilled"} :
          NextSlab(id) /\ slabs' = [slabs EXCEPT ![id] = torn]
     /\ UNCHANGED <<dir, meta, index, saved>>
  \/ /\ \/ phase = "saving"
        \/ phase = "creating" /\ \A id \in SlabIds : slabs[id] = "good"
     /\ index' = "truncated"
     /\ UNCHANGED <<dir, meta, slabs, saved>>

Crash ==
  /\ phase # "closed"
  /\ crashes < MaxCrashes
  /\ crashes' = crashes + 1
  /\ phase' = "closed"
  /\ TornFile \/ UNCHANGED files
  /\ UNCHANGED <<directory, registry, pending, handles, saveErrors>>

Create == CreateDirectory \/ CreateMeta \/ (\E id \in SlabIds : CreateSlab(id)) \/ CreateIndex

Next ==
  \/ Create \/ OpenExisting \/ Close
  \/ \E k \in Keys : Register(k)
  \/ SyncSlabs \/ SaveIndex \/ SaveError
  \/ Crash

Spec == Init /\ [][Next]_vars

-----------------------------------------------------------------------------
(* Properties.                                                             *)

Handle == [schema : Schemas, series_id : Nat, column : Nat]

RegistryOK(reg) ==
  /\ Registered(reg) \subseteq Keys
  /\ reg.series \in [Registered(reg) -> Handle]
  /\ reg.next_series_id \in [Schemas -> Nat]
  /\ reg.next_column \in [Schemas -> Nat]

TypeOK ==
  /\ dir \in BOOLEAN
  /\ meta \in {"missing", "truncated", "good"}
  /\ slabs \in [SlabIds -> {"missing", "bad", "unfilled", "good"}]
  /\ index \in {"missing", "truncated", "good"}
  /\ RegistryOK(saved)
  /\ phase \in {"closed", "creating", "open", "registering", "saving"}
  /\ RegistryOK(registry)
  /\ pending \in Keys
  /\ handles \subseteq Keys \X Handle

(* A handle is for ever: whenever the store is open, over crashes, failed  *)
(* saves and reopened stores, the registry gives every key the handle it   *)
(* once returned, no two keys share a column, and every column exists in   *)
(* the slabs (series.rs, load: "restore all registered series and their    *)
(* handles").                                                              *)
HandlesKept ==
  phase = "open" =>
    /\ \A x \in handles : x[1] \in Registered(registry) /\ registry.series[x[1]] = x[2]
    /\ \A k \in Registered(registry) :
         registry.series[k].column < MaxSeries[registry.series[k].schema]
    /\ \A j, k \in Registered(registry) :
         (j # k /\ registry.series[j].schema = registry.series[k].schema) =>
           registry.series[j].column # registry.series[k].column
=============================================================================
