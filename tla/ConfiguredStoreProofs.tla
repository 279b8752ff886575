------------------------ MODULE ConfiguredStoreProofs ------------------------
(***************************************************************************)
(* Proofs about a store, the configurations that open it and the command   *)
(* line tool beside it, for any configurations, requests, crashes and      *)
(* failed saves.  The first part is about Store alone, handles and their   *)
(* index; the steps of ConfiguredStore are steps of Store, so what is      *)
(* shown there holds here too.  The invariant of the configured store adds *)
(* that the three places a configuration leaves its mark in, meta.json,    *)
(* the slab headers and the schema of each series, all agree with the one  *)
(* that created the store, and that what the tool has read is part of the  *)
(* saved index.                                                            *)
(***************************************************************************)
EXTENDS ConfiguredStore, FiniteSetTheorems, WellFoundedInduction, TLAPS

-----------------------------------------------------------------------------
(* A handle is for ever (HandlesKept), for any keys, schemas, capacities   *)
(* and numbers of crashes and failed saves.  The invariant ties the three  *)
(* copies of a handle together: the one the caller has, the one in the     *)
(* registry of the process and the one in the saved index.  While register *)
(* is between its steps the registry may be ahead of the index, but never  *)
(* behind what callers were given.                                         *)

(* Some schema that matches comes first, so find_matching_schema gives the *)
(* first of those that match.                                              *)
LEMMA SchemaFound ==
  ASSUME NEW k \in Keys, Matches[k] # {}
  PROVE  /\ find_matching_schema(k) \in Matches[k] /\ find_matching_schema(k) \in Schemas
         /\ \A o \in Matches[k] : find_matching_schema(k) <= o
<1>1. Schemas \subseteq Nat
  BY StoreAssumption
<1>2. Matches[k] \subseteq Schemas
  BY StoreAssumption
<1>3. IsWellFoundedOn(OpToRel(<, Nat), Nat)
  BY NatLessThanWellFounded
<1>4. PICK s \in Matches[k] : \A o \in Matches[k] : <<o, s>> \notin OpToRel(<, Nat)
  <2>1. Matches[k] \subseteq Nat
    BY <1>1, <1>2
  <2> HIDE DEF OpToRel
  <2> QED
    BY <1>3, <2>1, WFMin
<1>5. \A o \in Matches[k] : s <= o
  <2> SUFFICES ASSUME NEW o \in Matches[k] PROVE s <= o
    OBVIOUS
  <2>1. s \in Nat /\ o \in Nat
    BY <1>1, <1>2, <1>4
  <2>2. o < s => <<o, s>> \in OpToRel(<, Nat)
    BY <2>1, Zenon DEF OpToRel
  <2>3. ~(o < s)
    BY <1>4, <2>2, Zenon
  <2> QED
    BY <2>1, <2>3
<1> QED
  BY <1>2, <1>5 DEF find_matching_schema

-----------------------------------------------------------------------------
(* What holds of every registry, in memory or saved: the columns of a      *)
(* schema are below its counter and its capacity, and no two are the same. *)
Sound(reg) ==
  /\ RegistryOK(reg)
  /\ reg.next_series_id = reg.next_column
  /\ \A s \in Schemas : reg.next_column[s] <= MaxSeries[s]
  /\ \A k \in Registered(reg) : reg.series[k].column < reg.next_column[reg.series[k].schema]
  /\ \A j, k \in Registered(reg) :
       (j # k /\ reg.series[j].schema = reg.series[k].schema) =>
         reg.series[j].column # reg.series[k].column

(* The registry has every handle that was given out.                       *)
Keeps(reg) == \A x \in handles : x[1] \in Registered(reg) /\ reg.series[x[1]] = x[2]

(* The inductive invariant.                                                *)
HandlesInv ==
  /\ Sound(saved) /\ Sound(registry)
  /\ index \in {"missing", "truncated", "good"}
  /\ phase \in {"closed", "creating", "open", "registering", "saving"}
  /\ index = "good" => Keeps(saved)
  /\ index = "missing" => handles = {}
  /\ ~dir => handles = {}
  /\ phase = "creating" => handles = {}
  /\ phase # "closed" => dir
  /\ phase \in {"open", "registering", "saving"} => Keeps(registry)
  /\ phase \in {"registering", "saving"} => pending \in Registered(registry)

(* A registry without series is sound and keeps no handle.                 *)
LEMMA EmptySound == Sound(EmptyRegistry)
  BY StoreAssumption DEF Sound, EmptyRegistry, RegistryOK, Registered, Handle

(* register keeps the registry sound and every series that was there.      *)
LEMMA RegisterSound ==
  ASSUME NEW reg, Sound(reg), NEW k \in Keys, k \notin Registered(reg), Matches[k] # {},
         reg.next_series_id[find_matching_schema(k)] < MaxSeries[find_matching_schema(k)]
  PROVE  /\ Sound(register(reg, k))
         /\ Registered(register(reg, k)) = Registered(reg) \cup {k}
         /\ \A j \in Registered(reg) : register(reg, k).series[j] = reg.series[j]
<1> DEFINE s == find_matching_schema(k)
           new == register(reg, k)
           h == [schema |-> s, series_id |-> reg.next_series_id[s], column |-> reg.next_column[s]]
<1>1. s \in Schemas
  BY SchemaFound
<1>2. /\ new.series = [x \in Registered(reg) \cup {k} |-> IF x = k THEN h ELSE reg.series[x]]
      /\ new.next_series_id = [reg.next_series_id EXCEPT ![s] = @ + 1]
      /\ new.next_column = [reg.next_column EXCEPT ![s] = @ + 1]
  BY DEF register, Registered
<1> HIDE DEF s, new
<1>3. h \in Handle
  BY <1>1 DEF Handle, Sound, RegistryOK
<1>4. /\ Registered(new) = Registered(reg) \cup {k}
      /\ new.series[k] = h
      /\ \A j \in Registered(reg) : new.series[j] = reg.series[j]
  BY <1>2 DEF Registered
<1>5. RegistryOK(new)
  <2>1. new.series \in [Registered(new) -> Handle]
    BY <1>2, <1>3, <1>4 DEF Sound, RegistryOK
  <2>2. new.next_series_id \in [Schemas -> Nat] /\ new.next_column \in [Schemas -> Nat]
    BY <1>1, <1>2 DEF Sound, RegistryOK
  <2> QED
    BY <1>4, <2>1, <2>2 DEF Sound, RegistryOK
<1>6. new.next_series_id = new.next_column
  BY <1>2 DEF Sound
<1>7. \A t \in Schemas : new.next_column[t] <= MaxSeries[t]
  BY <1>1, <1>2, StoreAssumption DEF Sound, RegistryOK, s
<1>8. \A t \in Schemas : new.next_column[t] >= reg.next_column[t]
  BY <1>1, <1>2 DEF Sound, RegistryOK
<1>9. \A j \in Registered(reg) :
        /\ reg.series[j].schema \in Schemas
        /\ reg.series[j].column \in Nat
        /\ reg.series[j].column < reg.next_column[reg.series[j].schema]
  BY DEF Sound, RegistryOK, Handle
<1>10. \A j \in Registered(new) : new.series[j].column < new.next_column[new.series[j].schema]
  <2> SUFFICES ASSUME NEW j \in Registered(new)
               PROVE  new.series[j].column < new.next_column[new.series[j].schema]
    OBVIOUS
  <2>1. CASE j = k
    BY <1>1, <1>2, <1>4, <2>1 DEF Sound, RegistryOK
  <2>2. CASE j \in Registered(reg)
    <3>1. new.next_column \in [Schemas -> Nat] /\ reg.next_column \in [Schemas -> Nat]
      BY <1>5 DEF Sound, RegistryOK
    <3> QED
      BY <1>4, <1>8, <1>9, <2>2, <3>1
  <2> QED
    BY <1>4, <2>1, <2>2
<1>11. ASSUME NEW i \in Registered(new), NEW j \in Registered(new),
              i # j, new.series[i].schema = new.series[j].schema
       PROVE  new.series[i].column # new.series[j].column
  <2>1. CASE i \in Registered(reg) /\ j \in Registered(reg)
    BY <1>4, <1>11, <2>1 DEF Sound
  <2>2. \A x \in Registered(reg) :
          reg.series[x].schema = h.schema => reg.series[x].column # h.column
    <3>1. h.schema = s /\ h.column = reg.next_column[s]
      OBVIOUS
    <3>2. reg.next_column[s] \in Nat
      BY <1>1 DEF Sound, RegistryOK
    <3> QED
      BY <1>9, <3>1, <3>2
  <2>3. CASE i = k /\ j \in Registered(reg)
    BY <1>4, <1>11, <2>2, <2>3
  <2>4. CASE j = k /\ i \in Registered(reg)
    BY <1>4, <1>11, <2>2, <2>4
  <2> QED
    BY <1>4, <1>11, <2>1, <2>3, <2>4
<1>12. Sound(new)
  BY <1>5, <1>6, <1>7, <1>10, <1>11 DEF Sound
<1> QED
  BY <1>4, <1>12 DEF new

-----------------------------------------------------------------------------
(* No handle has been given out yet, and both registries are empty.        *)
LEMMA InvInit == Init => HandlesInv
  BY EmptySound DEF Init, HandlesInv, Keeps

(* Each step keeps the invariant.                                          *)
LEMMA InvNext == HandlesInv /\ [Next]_vars => HandlesInv'
<1> SUFFICES ASSUME HandlesInv, [Next]_vars PROVE HandlesInv'
  OBVIOUS
<1> USE DEF HandlesInv
<1>1. CASE CreateDirectory
  BY <1>1 DEF CreateDirectory, history, Keeps
<1>2. CASE CreateMeta
  BY <1>2 DEF CreateMeta, process, history, Keeps
<1>3. CASE \E id \in SlabIds : CreateSlab(id)
  BY <1>3 DEF CreateSlab, process, history, Keeps
<1>4. CASE CreateIndex
  <2>1. handles' = {}
    BY <1>4 DEF CreateIndex, history
  <2>2. dir'
    BY <1>4 DEF CreateIndex
  <2> QED
    BY <1>4, <2>1, <2>2, EmptySound DEF CreateIndex, Keeps
<1>5. CASE OpenExisting
  <2>1. Sound(registry') /\ Keeps(registry')
    BY <1>5, EmptySound DEF OpenExisting, Keeps
  <2> QED
    BY <1>5, <2>1 DEF OpenExisting, files, history, Keeps
<1>6. CASE Close
  BY <1>6 DEF Close, files, history, Keeps
<1>7. ASSUME NEW k \in Keys, Register(k) PROVE HandlesInv'
  <2>1. Sound(registry') /\ Keeps(registry') /\ k \in Registered(registry')
    <3>1. CASE k \in Registered(registry) /\ UNCHANGED registry
      BY <1>7, <3>1 DEF Register, Keeps
    <3>2. CASE /\ k \notin Registered(registry)
               /\ Matches[k] # {}
               /\ registry.next_series_id[find_matching_schema(k)] < MaxSeries[find_matching_schema(k)]
               /\ registry' = register(registry, k)
      BY <1>7, <3>2, RegisterSound DEF Register, Keeps
    <3> QED
      BY <1>7, <3>1, <3>2 DEF Register
  <2> QED
    BY <1>7, <2>1 DEF Register, files, history, Keeps
<1>8. CASE SyncSlabs
  BY <1>8 DEF SyncSlabs, files, history, Keeps
<1>9. CASE SaveIndex
  <2>1. handles' = handles \cup {<<pending, registry.series[pending]>>}
    BY <1>9 DEF SaveIndex
  <2>2. pending \in Registered(registry) /\ Keeps(registry)
    BY <1>9 DEF SaveIndex
  <2>3. \A x \in handles' : x[1] \in Registered(registry) /\ registry.series[x[1]] = x[2]
    BY <2>1, <2>2 DEF Keeps
  <2> QED
    BY <1>9, <2>3 DEF SaveIndex, Keeps
<1>10. CASE SaveError
  BY <1>10 DEF SaveError, Keeps
<1>11. CASE Crash
  <2>1. phase' = "closed" /\ UNCHANGED <<registry, handles, pending>>
    BY <1>11 DEF Crash
  <2>2. dir' = dir /\ saved' = saved /\ index' \in {index, "truncated"}
    BY <1>11 DEF Crash, TornFile, files
  <2> QED
    BY <2>1, <2>2 DEF Keeps
<1>12. CASE UNCHANGED vars
  BY <1>12 DEF vars, files, process, history, Keeps
<1> QED
  BY <1>1, <1>2, <1>3, <1>4, <1>5, <1>6, <1>7, <1>8, <1>9, <1>10, <1>11, <1>12
  DEF Next, Create

(* A handle that register returned stays the handle of its key, over       *)
(* crashes at any step, failed saves and reopened stores, its column       *)
(* exists in the slabs, and no other key gets it: Store::open and          *)
(* SeriesRegistry::register, for every set of keys and schemas.            *)
THEOREM HandlesForever == Spec => []HandlesKept
<1>1. HandlesInv => HandlesKept
  <2> SUFFICES ASSUME HandlesInv, phase = "open" PROVE HandlesKept
    BY DEF HandlesKept
  <2>1. Keeps(registry) /\ Sound(registry)
    BY DEF HandlesInv
  <2>2. \A k \in Registered(registry) :
          registry.series[k].column < MaxSeries[registry.series[k].schema]
    <3> SUFFICES ASSUME NEW k \in Registered(registry)
                 PROVE  registry.series[k].column < MaxSeries[registry.series[k].schema]
      OBVIOUS
    <3> DEFINE s == registry.series[k].schema
    <3>1. /\ s \in Schemas /\ registry.series[k].column \in Nat
          /\ registry.next_column[s] \in Nat
      BY <2>1 DEF Sound, RegistryOK, Handle
    <3>2. MaxSeries[s] \in Nat
      BY <3>1, StoreAssumption
    <3>3. registry.series[k].column < registry.next_column[s] /\ registry.next_column[s] <= MaxSeries[s]
      BY <2>1, <3>1 DEF Sound
    <3> QED
      BY <3>1, <3>2, <3>3
  <2> QED
    BY <2>1, <2>2 DEF HandlesKept, Keeps, Sound
<1> QED
  BY <1>1, InvInit, InvNext, PTL DEF Spec

-----------------------------------------------------------------------------
(* The layout of a slab, for every number of slots and series.             *)

(* Whole columns before column d end where it begins.                      *)
LEMMA ColumnsBefore ==
  ASSUME NEW c \in Nat, NEW d \in Nat, NEW n \in Nat, c < d
  PROVE  c * (n * 8) + n * 8 <= d * (n * 8)
<1>1. PICK k \in Nat : d = c + 1 + k
  <2>1. d - c - 1 \in Nat /\ d = c + 1 + (d - c - 1)
    OBVIOUS
  <2> QED
    BY <2>1
<1>2. (c + 1 + k) * (n * 8) = c * (n * 8) + n * 8 + k * (n * 8)
  OBVIOUS
<1>3. k * (n * 8) >= 0
  OBVIOUS
<1> QED
  BY <1>1, <1>2, <1>3

(* Entries of the series directory, timestamps and values of a slab (the   *)
(* offsets SlabLayout::new computes and every accessor of slab.rs uses)    *)
(* never share a byte as long as ids, slots and columns are in bounds, and *)
(* all of them are inside the file.                                        *)
THEOREM LayoutApart ==
  ASSUME NEW slab, slab.slot_count \in Nat, slab.max_series \in Nat
  PROVE  CellsApartIn(slab)
<1> DEFINE n == slab.slot_count
           m == slab.max_series
<1>1. \A id \in 0 .. m - 1 :
        HEADER_SIZE <= DirectoryEntry(id).from /\ DirectoryEntry(id).to <= timestamp_column_offset(slab)
  BY DEF DirectoryEntry, timestamp_column_offset, series_dir_offset, HEADER_SIZE,
         SERIES_DIR_ENTRY_SIZE
<1>2. timestamp_column_offset(slab) \in Nat
  BY DEF timestamp_column_offset, series_dir_offset, HEADER_SIZE, SERIES_DIR_ENTRY_SIZE
<1>3. \A s \in 0 .. n - 1 :
        timestamp_column_offset(slab) <= Timestamp(slab, s).from
          /\ Timestamp(slab, s).to <= value_columns_offset(slab)
  BY <1>2 DEF Timestamp, value_columns_offset, TIMESTAMP_SIZE
<1>4. value_columns_offset(slab) \in Nat
  BY <1>2 DEF value_columns_offset, TIMESTAMP_SIZE
<1>5. ASSUME NEW s \in 0 .. n - 1, NEW t \in 0 .. n - 1, NEW c \in 0 .. m - 1, NEW d \in 0 .. m - 1
      PROVE  /\ value_columns_offset(slab) <= Value(slab, s, c).from
             /\ Value(slab, s, c).to <= file_size(slab)
             /\ <<s, c>> # <<t, d>> => Apart(Value(slab, s, c), Value(slab, t, d))
  <2> DEFINE base == value_columns_offset(slab)
  <2>1. /\ Value(slab, s, c).from = base + c * (n * 8) + s * 8
        /\ Value(slab, s, c).to   = base + c * (n * 8) + (s + 1) * 8
        /\ Value(slab, t, d).from = base + d * (n * 8) + t * 8
        /\ Value(slab, t, d).to   = base + d * (n * 8) + (t + 1) * 8
    BY DEF Value, value_column_offset, value_column_size, VALUE_SIZE
  <2>2. file_size(slab) = base + m * (n * 8)
    BY DEF file_size, value_column_size, VALUE_SIZE
  <2>3. /\ c * (n * 8) \in Nat /\ d * (n * 8) \in Nat /\ m * (n * 8) \in Nat
        /\ (s + 1) * 8 <= n * 8 /\ (t + 1) * 8 <= n * 8 /\ s * 8 \in Nat /\ t * 8 \in Nat
    OBVIOUS
  <2>4. c * (n * 8) + n * 8 <= m * (n * 8)
    BY ColumnsBefore
  <2>5. c < d => c * (n * 8) + n * 8 <= d * (n * 8)
    BY ColumnsBefore
  <2>6. d < c => d * (n * 8) + n * 8 <= c * (n * 8)
    BY ColumnsBefore
  <2>7. c = d /\ s < t => (s + 1) * 8 <= t * 8
    OBVIOUS
  <2>8. c = d /\ t < s => (t + 1) * 8 <= s * 8
    OBVIOUS
  <2>9. value_columns_offset(slab) <= Value(slab, s, c).from /\ Value(slab, s, c).to <= file_size(slab)
    BY <1>4, <2>1, <2>2, <2>3, <2>4
  <2>10. ASSUME <<s, c>> # <<t, d>>
         PROVE  Apart(Value(slab, s, c), Value(slab, t, d))
    <3>1. CASE c < d
      BY <3>1, <1>4, <2>1, <2>3, <2>5 DEF Apart
    <3>2. CASE d < c
      BY <3>2, <1>4, <2>1, <2>3, <2>6 DEF Apart
    <3>3. CASE c = d /\ s < t
      BY <3>3, <1>4, <2>1, <2>3, <2>7 DEF Apart
    <3>4. CASE c = d /\ t < s
      BY <3>4, <1>4, <2>1, <2>3, <2>8 DEF Apart
    <3> QED
      BY <2>10, <3>1, <3>2, <3>3, <3>4
  <2> QED
    BY <2>9, <2>10
<1> QED
  BY <1>1, <1>3, <1>5 DEF CellsApartIn

-----------------------------------------------------------------------------
(* The steps of the configured store.                                      *)

(* The configured store starts as a store.                                 *)
LEMMA CInitImplements == CInit => Init
  BY DEF CInit

(* Each of its steps is a step of the store, or one of the tool that       *)
(* leaves the store alone.                                                 *)
LEMMA CNextImplements == [CNext]_allVars => [Next]_vars
<1> SUFFICES ASSUME [CNext]_allVars PROVE [Next]_vars
  OBVIOUS
<1>1. CASE CCreate
  BY <1>1 DEF CCreate, Next, Create
<1>2. CASE CCreateMeta
  BY <1>2 DEF CCreateMeta, Next, Create
<1>3. ASSUME NEW id \in SlabIds, CCreateSlab(id) PROVE Next
  BY <1>3 DEF CCreateSlab, Next, Create
<1>4. ASSUME NEW provided \in Offered, COpen(provided) PROVE Next
  BY <1>4 DEF COpen, Next
<1>5. ASSUME NEW r \in Requests, CRegister(r) PROVE Next
  <2>1. SeriesKey(r.name, r.labels) \in Keys
    BY ConfiguredStoreAssumption
  <2> QED
    BY <1>5, <2>1 DEF CRegister, Next
<1>6. CASE COther
  BY <1>6 DEF COther, Next, Create
<1>7. CASE CCrash
  BY <1>7 DEF CCrash, Next
<1>8. CASE ToolOpen \/ (\E selector \in Selectors : ToolSelect(selector)) \/ ToolExit
  BY <1>8 DEF ToolOpen, ToolSelect, ToolExit
<1>9. CASE UNCHANGED allVars
  BY <1>9 DEF allVars
<1> QED
  BY <1>1, <1>2, <1>3, <1>4, <1>5, <1>6, <1>7, <1>8, <1>9 DEF CNext

(* A store that any accepted configuration opens, read by the tool at any  *)
(* time, behaves as the store of one configuration that Store describes:   *)
(* Store::open adds no behaviour to a store but refuses some.              *)
THEOREM ConfiguredImplementsStore == CSpec => Spec
  BY CInitImplements, CNextImplements, PTL DEF CSpec, Spec

(* Handles stay what they are under any sequence of configurations that    *)
(* Store::open accepts, with the tool reading the files in between.        *)
THEOREM ConfiguredHandlesForever == CSpec => []HandlesKept
  BY ConfiguredImplementsStore, HandlesForever, PTL

-----------------------------------------------------------------------------
(* The types of the store's own variables.                                 *)
LEMMA StoreTypesStep == TypeOK /\ HandlesInv /\ HandlesInv' /\ [Next]_vars => TypeOK'
<1> SUFFICES ASSUME TypeOK, HandlesInv, HandlesInv', [Next]_vars PROVE TypeOK'
  OBVIOUS
<1>1. RegistryOK(saved)' /\ RegistryOK(registry)'
  BY DEF HandlesInv, Sound
<1>2. index' \in {"missing", "truncated", "good"}
      /\ phase' \in {"closed", "creating", "open", "registering", "saving"}
  BY DEF HandlesInv
<1> USE DEF TypeOK
<1>3. ASSUME UNCHANGED <<dir, meta, slabs, pending, handles>> PROVE TypeOK'
  BY <1>1, <1>2, <1>3
<1>4. CASE CreateDirectory \/ CreateMeta
  BY <1>1, <1>2, <1>4 DEF CreateDirectory, CreateMeta, process, history
<1>5. ASSUME NEW id \in SlabIds, CreateSlab(id) PROVE TypeOK'
  BY <1>1, <1>2, <1>5 DEF CreateSlab, process, history
<1>6. CASE CreateIndex \/ OpenExisting \/ Close \/ SyncSlabs \/ SaveError
  BY <1>3, <1>6 DEF CreateIndex, OpenExisting, Close, SyncSlabs, SaveError, files, history
<1>7. ASSUME NEW k \in Keys, Register(k) PROVE TypeOK'
  BY <1>1, <1>2, <1>7 DEF Register, files, history
<1>8. CASE SaveIndex
  <2>1. registry.series[pending] \in Handle
    BY <1>8 DEF SaveIndex, HandlesInv, Sound, RegistryOK
  <2> QED
    BY <1>1, <1>2, <1>8, <2>1 DEF SaveIndex
<1>9. CASE Crash
  <2>1. /\ dir' = dir /\ meta' \in {meta, "truncated"} /\ UNCHANGED <<pending, handles>>
        /\ slabs' \in [SlabIds -> {"missing", "bad", "unfilled", "good"}]
    BY <1>9 DEF Crash, TornFile, files
  <2> QED
    BY <1>1, <1>2, <2>1
<1>10. CASE UNCHANGED vars
  BY <1>3, <1>10 DEF vars, files, process, history
<1> QED
  BY <1>4, <1>5, <1>6, <1>7, <1>8, <1>9, <1>10 DEF Next, Create

-----------------------------------------------------------------------------
(* What the configuration that created the store has left in it.           *)
BaseMeta == [i \in DOMAIN Base |-> [config |-> Base[i], hash |-> stable_hash(Base[i])]]

BaseHeader(id) ==
  LET schema == Base[id[1] + 1]
      tier   == schema.tiers[id[2] + 1]
  IN  [schema_hash |-> stable_hash(schema), max_series |-> schema.max_series,
       slot_count |-> slot_count(tier), interval_ns |-> interval_nanos(tier)]

(* The process runs under a configuration with the same hashes.            *)
ConfigFits ==
  /\ config \in Offered /\ Len(config) = Len(Base)
  /\ \A i \in DOMAIN Base : stable_hash(config[i]) = stable_hash(Base[i])

(* Every series is in the schema that takes its labels first.              *)
Routed(reg) ==
  \A k \in Registered(reg) : Matches[k] # {} /\ reg.series[k].schema = find_matching_schema(k)

Extends(reg, series) == \A k \in DOMAIN series : k \in Registered(reg) /\ reg.series[k] = series[k]

InUse == phase \in {"open", "registering", "saving"}

(* The inductive invariant, in parts: the configuration ...                *)
ConfigInv ==
  /\ ConfigFits
  /\ phase = "creating" => config = Base
  /\ meta = "good" => meta_schemas = BaseMeta
  /\ DOMAIN headers = SlabIds
  /\ \A id \in SlabIds :
       /\ headers[id] \in {<< >>, BaseHeader(id)}
       /\ slabs[id] \in {"good", "unfilled"} => headers[id] = BaseHeader(id)
  /\ InUse => \A id \in SlabIds : slabs[id] \in {"good", "unfilled"}
  /\ Routed(saved) /\ Routed(registry)

(* ... and what the tool has read.                                         *)
ToolInv ==
  /\ tool.at \in {"none", "refused", "open", "query"}
  /\ (~dir \/ index = "missing" \/ phase = "creating") => Registered(saved) = {}
  /\ InUse => Extends(registry, saved.series)
  /\ tool.at \in {"open", "query"} => Extends(saved, tool.series)

CInv == TypeOK /\ HandlesInv /\ ConfigInv /\ ToolInv

(* The configuration that creates the store fits itself.                   *)
LEMMA BaseFacts ==
  /\ Base \in Offered /\ Len(Base) \in Nat /\ DOMAIN Base = 1 .. Len(Base)
  /\ \A id \in SlabIds :
       /\ id[1] \in Schemas /\ id[1] + 1 \in DOMAIN Base
       /\ id[2] + 1 \in DOMAIN Base[id[1] + 1].tiers
<1>1. Base \in Offered /\ Len(Base) \in Nat /\ DOMAIN Base = 1 .. Len(Base)
  BY ConfiguredStoreAssumption
<1>2. ASSUME NEW s \in Schemas, NEW t \in 0 .. Tiers[s] - 1
      PROVE  s + 1 \in DOMAIN Base /\ t + 1 \in DOMAIN Base[s + 1].tiers
  <2>1. s + 1 \in DOMAIN Base
    BY <1>1, ConfiguredStoreAssumption
  <2>2. IsSchema(Base[s + 1]) /\ Tiers[s] = Len(Base[s + 1].tiers)
    BY <2>1, ConfiguredStoreAssumption
  <2>3. DOMAIN Base[s + 1].tiers = 1 .. Len(Base[s + 1].tiers)
    BY <2>2 DEF IsSchema
  <2> QED
    BY <2>1, <2>2, <2>3 DEF IsSchema
<1>3. \A id \in SlabIds : id[1] \in Schemas /\ id[2] \in 0 .. Tiers[id[1]] - 1
  BY DEF SlabIds
<1> QED
  BY <1>1, <1>2, <1>3

(* A configuration with the same hashes writes the same headers.           *)
LEMMA SameHeaders ==
  ASSUME ConfigFits, NEW id \in SlabIds
  PROVE  SlabHeader(id) = BaseHeader(id)
<1>1. stable_hash(config[id[1] + 1]) = stable_hash(Base[id[1] + 1])
  BY BaseFacts DEF ConfigFits
<1>2. /\ config[id[1] + 1].tiers = Base[id[1] + 1].tiers
      /\ config[id[1] + 1].max_series = Base[id[1] + 1].max_series
  BY <1>1 DEF stable_hash
<1> QED
  BY <1>1, <1>2 DEF SlabHeader, BaseHeader

(* meta.json has one entry for each schema.                                *)
LEMMA BaseMetaFacts ==
  /\ Len(BaseMeta) = Len(Base) /\ DOMAIN BaseMeta = DOMAIN Base
  /\ \A i \in DOMAIN Base : BaseMeta[i].hash = stable_hash(Base[i]) /\ BaseMeta[i].config = Base[i]
<1> DEFINE entry(i) == [config |-> Base[i], hash |-> stable_hash(Base[i])]
           entries == {entry(i) : i \in DOMAIN Base}
<1>1. BaseMeta = [i \in 1 .. Len(Base) |-> entry(i)] /\ Len(Base) \in Nat
  BY BaseFacts DEF BaseMeta
<1>2. BaseMeta \in Seq(entries)
  <2>1. \A i \in 1 .. Len(Base) : entry(i) \in entries
    BY BaseFacts
  <2> HIDE DEF entry, entries
  <2> QED
    BY <1>1, <2>1
<1>3. DOMAIN BaseMeta = 1 .. Len(Base) /\ DOMAIN BaseMeta = 1 .. Len(BaseMeta) /\ Len(BaseMeta) \in Nat
  <2> HIDE DEF entry, entries
  <2> QED
    BY <1>1, <1>2
<1>4. Len(BaseMeta) = Len(Base)
  BY <1>1, <1>3
<1>5. \A i \in DOMAIN Base : BaseMeta[i].hash = stable_hash(Base[i]) /\ BaseMeta[i].config = Base[i]
  BY DEF BaseMeta
<1> QED
  BY <1>3, <1>4, <1>5, BaseFacts

(* A new series goes to the schema that takes its labels first.            *)
LEMMA RegisterRouted ==
  ASSUME NEW reg, Sound(reg), Routed(reg), NEW k \in Keys, k \notin Registered(reg), Matches[k] # {},
         reg.next_series_id[find_matching_schema(k)] < MaxSeries[find_matching_schema(k)]
  PROVE  Routed(register(reg, k))
<1> DEFINE new == register(reg, k)
<1>1. /\ Registered(new) = Registered(reg) \cup {k}
      /\ \A j \in Registered(reg) : new.series[j] = reg.series[j]
  BY RegisterSound
<1>2. new.series[k].schema = find_matching_schema(k)
  BY DEF register
<1> HIDE DEF new
<1>3. Routed(new)
  BY <1>1, <1>2 DEF Routed
<1> QED
  BY <1>3 DEF new

(* Nothing but the configuration Base is there at first.                   *)
LEMMA CInvInit == CInit => CInv
<1> SUFFICES ASSUME CInit PROVE CInv
  OBVIOUS
<1>1. Init /\ HandlesInv
  BY InvInit DEF CInit
<1>2. TypeOK
  BY <1>1 DEF Init, TypeOK, HandlesInv, Sound
<1>3. Registered(EmptyRegistry) = {}
  BY DEF Registered, EmptyRegistry
<1>4. ConfigInv
  BY <1>1, <1>3, BaseFacts DEF CInit, Init, ConfigInv, ConfigFits, InUse, Routed
<1>5. ToolInv
  BY <1>1, <1>3 DEF CInit, Init, ToolInv, NoTool, InUse
<1> QED
  BY <1>1, <1>2, <1>4, <1>5 DEF CInv

(* Each step keeps the part about the configuration.                       *)
LEMMA ConfigInvStep == CInv /\ [CNext]_allVars => ConfigInv'
<1> SUFFICES ASSUME CInv, [CNext]_allVars PROVE ConfigInv'
  OBVIOUS
<1> USE DEF CInv
<1>0. ASSUME UNCHANGED <<config, meta, meta_schemas, slabs, headers>>,
             InUse' => InUse, phase' = "creating" => phase = "creating",
             Routed(saved)', Routed(registry)'
      PROVE  ConfigInv'
  BY <1>0 DEF ConfigInv, ConfigFits
<1>1. CASE CCreate
  <2>1. config' = Base /\ UNCHANGED <<meta, meta_schemas, slabs, headers, saved, registry>> /\ ~InUse'
    BY <1>1 DEF CCreate, CreateDirectory, InUse
  <2>2. ConfigFits'
    BY <2>1, BaseFacts DEF ConfigFits
  <2> QED
    BY <2>1, <2>2 DEF ConfigInv, Routed
<1>2. CASE CCreateMeta
  <2>1. config = Base /\ phase = "creating"
    BY <1>2 DEF CCreateMeta, CreateMeta, ConfigInv
  <2>2. meta_schemas' = BaseMeta /\ UNCHANGED <<config, slabs, headers, saved, registry, phase>>
    BY <1>2, <2>1 DEF CCreateMeta, CreateMeta, BaseMeta, process
  <2> QED
    BY <2>1, <2>2 DEF ConfigInv, ConfigFits, Routed, InUse
<1>3. ASSUME NEW id \in SlabIds, CCreateSlab(id) PROVE ConfigInv'
  <2>1. SlabHeader(id) = BaseHeader(id)
    BY SameHeaders DEF ConfigInv
  <2>2. /\ slabs' = [slabs EXCEPT ![id] = "good"] /\ headers' = [headers EXCEPT ![id] = SlabHeader(id)]
        /\ phase = "creating" /\ UNCHANGED <<config, meta, meta_schemas, saved, registry, phase>>
    BY <1>3 DEF CCreateSlab, CreateSlab, process
  <2>3. \A o \in SlabIds : headers'[o] = (IF o = id THEN BaseHeader(id) ELSE headers[o])
                           /\ slabs'[o] = (IF o = id THEN "good" ELSE slabs[o])
    BY <2>1, <2>2 DEF ConfigInv, TypeOK
  <2>4. DOMAIN headers' = SlabIds
    BY <2>2 DEF ConfigInv
  <2> QED
    BY <2>2, <2>3, <2>4 DEF ConfigInv, ConfigFits, Routed, InUse
<1>4. ASSUME NEW provided \in Offered, COpen(provided) PROVE ConfigInv'
  <2>1. /\ Accepted(provided) /\ config' = provided /\ meta = "good" /\ phase' = "open"
        /\ UNCHANGED <<meta, meta_schemas, slabs, headers, saved>>
        /\ registry' = (IF index = "missing" THEN EmptyRegistry ELSE saved)
        /\ \A id \in SlabIds : slabs[id] \in {"good", "unfilled"}
    BY <1>4 DEF COpen, OpenExisting, files
  <2>2. meta_schemas = BaseMeta
    BY <2>1 DEF ConfigInv
  <2>3. DOMAIN provided = 1 .. Len(provided) /\ Len(provided) = Len(Base)
    BY <2>1, <2>2, BaseMetaFacts, ConfiguredStoreAssumption DEF Accepted
  <2>4. \A i \in DOMAIN Base : stable_hash(provided[i]) = stable_hash(Base[i])
    BY <2>1, <2>2, <2>3, BaseMetaFacts, BaseFacts DEF Accepted
  <2>5. ConfigFits'
    BY <2>1, <2>3, <2>4 DEF ConfigFits
  <2>6. Routed(registry')
    BY <2>1 DEF ConfigInv, Routed, Registered, EmptyRegistry
  <2> QED
    BY <2>1, <2>5, <2>6 DEF ConfigInv, Routed
<1>5. ASSUME NEW r \in Requests, CRegister(r) PROVE ConfigInv'
  <2> DEFINE k == SeriesKey(r.name, r.labels)
  <2>1. k \in Keys /\ Register(k) /\ UNCHANGED configVars
    BY <1>5, ConfiguredStoreAssumption DEF CRegister
  <2> HIDE DEF k
  <2>2. Routed(registry')
    <3>1. CASE UNCHANGED registry
      BY <3>1 DEF ConfigInv, Routed
    <3>2. CASE registry' = register(registry, k) /\ ~UNCHANGED registry
      <4>1. /\ k \notin Registered(registry) /\ Matches[k] # {}
            /\ registry.next_series_id[find_matching_schema(k)] < MaxSeries[find_matching_schema(k)]
        BY <2>1, <3>2 DEF Register
      <4>2. Sound(registry) /\ Routed(registry)
        BY DEF HandlesInv, ConfigInv
      <4>3. Routed(register(registry, k))
        BY <2>1, <4>1, <4>2, RegisterRouted
      <4> QED
        BY <3>2, <4>3
    <3> QED
      BY <2>1, <3>1, <3>2 DEF Register
  <2>3. /\ UNCHANGED <<config, meta, meta_schemas, slabs, headers, saved>>
        /\ phase = "open" /\ phase' = "registering"
    BY <2>1 DEF Register, files, configVars
  <2> QED
    BY <1>0, <2>2, <2>3 DEF ConfigInv, Routed, InUse
<1>6. CASE COther
  <2>1. UNCHANGED <<config, meta_schemas, headers>>
    BY <1>6 DEF COther, configVars
  <2>2. CASE CreateIndex
    <3>1. /\ UNCHANGED <<meta, slabs>> /\ registry' = EmptyRegistry /\ saved' = EmptyRegistry
          /\ phase' = "open" /\ \A id \in SlabIds : slabs[id] = "good"
      BY <2>2 DEF CreateIndex
    <3>2. Routed(registry') /\ Routed(saved')
      BY <3>1 DEF Routed, Registered, EmptyRegistry
    <3> QED
      BY <2>1, <3>1, <3>2 DEF ConfigInv, ConfigFits
  <2>3. CASE Close \/ SyncSlabs \/ SaveIndex \/ SaveError
    <3>1. UNCHANGED <<meta, slabs, registry>> /\ saved' \in {saved, registry} /\ phase' # "creating"
          /\ InUse
      BY <2>3 DEF Close, SyncSlabs, SaveIndex, SaveError, files, InUse
    <3>2. Routed(registry') /\ Routed(saved')
      BY <3>1 DEF ConfigInv, Routed
    <3> QED
      BY <1>0, <2>1, <3>1, <3>2
  <2> QED
    BY <1>6, <2>2, <2>3 DEF COther
<1>7. CASE CCrash
  <2>1. /\ UNCHANGED <<config, meta_schemas, saved, registry>> /\ phase' = "closed"
        /\ meta' \in {meta, "truncated"}
    BY <1>7 DEF CCrash, Crash, TornFile, files
  <2>2. headers' = [id \in SlabIds |-> IF slabs[id] = "missing" /\ slabs'[id] = "unfilled"
                                        THEN SlabHeader(id) ELSE headers[id]]
    BY <1>7 DEF CCrash
  <2>3. ASSUME NEW id \in SlabIds
        PROVE  /\ headers'[id] \in {<< >>, BaseHeader(id)}
               /\ slabs'[id] \in {"good", "unfilled"} => headers'[id] = BaseHeader(id)
    <3>1. SlabHeader(id) = BaseHeader(id) /\ headers[id] \in {<< >>, BaseHeader(id)}
      BY SameHeaders DEF ConfigInv
    <3>2. slabs'[id] = slabs[id] \/ (slabs[id] = "missing" /\ slabs'[id] \in {"bad", "unfilled"})
      BY <1>7 DEF CCrash, Crash, TornFile, NextSlab, files, TypeOK
    <3> QED
      BY <2>2, <3>1, <3>2 DEF ConfigInv
  <2> QED
    BY <2>1, <2>2, <2>3 DEF ConfigInv, ConfigFits, Routed, InUse
<1>8. CASE ToolOpen \/ (\E selector \in Selectors : ToolSelect(selector)) \/ ToolExit \/ UNCHANGED allVars
  <2>1. UNCHANGED <<vars, configVars>>
    BY <1>8 DEF ToolOpen, ToolSelect, ToolExit, allVars
  <2> QED
    BY <1>0, <2>1 DEF vars, files, process, configVars, ConfigInv, Routed, InUse
<1> QED
  BY <1>1, <1>2, <1>3, <1>4, <1>5, <1>6, <1>7, <1>8 DEF CNext

(* Each step keeps the part about the tool.                                *)
LEMMA ToolInvStep == CInv /\ [CNext]_allVars => ToolInv'
<1> SUFFICES ASSUME CInv, [CNext]_allVars PROVE ToolInv'
  OBVIOUS
<1> USE DEF CInv
<1>0. ASSUME UNCHANGED <<tool, saved, registry>>, InUse' => InUse,
             (~dir' \/ index' = "missing" \/ phase' = "creating") =>
               (~dir \/ index = "missing" \/ phase = "creating")
      PROVE  ToolInv'
  BY <1>0 DEF ToolInv, Extends
<1>1. CASE CCreate \/ CCreateMeta
  BY <1>0, <1>1 DEF CCreate, CreateDirectory, CCreateMeta, CreateMeta, process, InUse
<1>2. ASSUME NEW id \in SlabIds, CCreateSlab(id) PROVE ToolInv'
  BY <1>0, <1>2 DEF CCreateSlab, CreateSlab, process, InUse
<1>3. ASSUME NEW provided \in Offered, COpen(provided) PROVE ToolInv'
  <2>1. /\ UNCHANGED <<tool, dir, index, saved>> /\ phase' = "open" /\ dir
        /\ registry' = (IF index = "missing" THEN EmptyRegistry ELSE saved)
    BY <1>3 DEF COpen, OpenExisting, files
  <2>2. Extends(registry', saved.series)
    BY <2>1 DEF ToolInv, Extends, Registered
  <2> QED
    BY <2>1, <2>2 DEF ToolInv, Extends
<1>4. ASSUME NEW r \in Requests, CRegister(r) PROVE ToolInv'
  <2> DEFINE k == SeriesKey(r.name, r.labels)
  <2>1. k \in Keys /\ Register(k) /\ UNCHANGED tool
    BY <1>4, ConfiguredStoreAssumption DEF CRegister
  <2> HIDE DEF k
  <2>2. UNCHANGED <<dir, index, saved>> /\ phase = "open" /\ phase' = "registering"
    BY <2>1 DEF Register, files
  <2>3. \A j \in Registered(registry) : j \in Registered(registry') /\ registry'.series[j] = registry.series[j]
    <3>1. CASE UNCHANGED registry
      BY <3>1
    <3>2. CASE registry' = register(registry, k) /\ ~UNCHANGED registry
      <4>1. /\ k \notin Registered(registry) /\ Matches[k] # {} /\ Sound(registry)
            /\ registry.next_series_id[find_matching_schema(k)] < MaxSeries[find_matching_schema(k)]
        BY <2>1, <3>2 DEF Register, HandlesInv
      <4> QED
        BY <2>1, <3>2, <4>1, RegisterSound
    <3> QED
      BY <2>1, <3>1, <3>2 DEF Register
  <2>4. Extends(registry', saved.series)
    BY <2>2, <2>3 DEF ToolInv, Extends, InUse
  <2> QED
    BY <2>1, <2>2, <2>4 DEF ToolInv, Extends
<1>5. CASE COther
  <2>1. CASE CreateIndex
    <3>1. /\ tool' = tool /\ saved' = EmptyRegistry /\ registry' = EmptyRegistry
          /\ Registered(EmptyRegistry) = {} /\ DOMAIN EmptyRegistry.series = {}
          /\ phase = "creating" /\ phase' = "open"
      BY <1>5, <2>1 DEF COther, CreateIndex, Registered, EmptyRegistry
    <3>2. tool.at \in {"open", "query"} => DOMAIN tool.series = {}
      BY <3>1 DEF ToolInv, Extends
    <3> QED
      BY <3>1, <3>2 DEF ToolInv, Extends
  <2>2. CASE Close \/ SyncSlabs \/ SaveError
    BY <1>0, <1>5, <2>2 DEF COther, Close, SyncSlabs, SaveError, files, InUse
  <2>3. CASE SaveIndex
    <3>1. /\ UNCHANGED <<tool, dir, registry>> /\ saved' = registry /\ index' = "good"
          /\ phase = "saving" /\ phase' = "open"
      BY <1>5, <2>3 DEF COther, SaveIndex
    <3>2. dir
      BY <3>1 DEF HandlesInv
    <3>3. tool.at \in {"open", "query"} => Extends(registry, tool.series)
      BY <3>1 DEF ToolInv, Extends, InUse, Registered
    <3> QED
      BY <3>1, <3>2, <3>3 DEF ToolInv, Extends, Registered
  <2> QED
    BY <1>5, <2>1, <2>2, <2>3 DEF COther
<1>6. CASE CCrash
  <2>1. /\ UNCHANGED <<tool, dir, saved, registry>> /\ phase' = "closed"
        /\ index' \in {index, "truncated"}
    BY <1>6 DEF CCrash, Crash, TornFile, files
  <2> QED
    BY <1>0, <2>1 DEF InUse
<1>7. CASE ToolOpen
  <2>1. UNCHANGED <<dir, index, phase, saved, registry>>
    BY <1>7 DEF ToolOpen, vars, files, process
  <2>2. \/ tool' = [at |-> "refused"]
        \/ tool' = [at |-> "open", series |-> EmptyRegistry.series]
        \/ tool' = [at |-> "open", series |-> saved.series]
    BY <1>7 DEF ToolOpen
  <2>3. tool'.at \in {"none", "refused", "open", "query"}
        /\ (tool'.at \in {"open", "query"} => Extends(saved, tool'.series))
    BY <2>2 DEF Extends, Registered, EmptyRegistry
  <2> QED
    BY <2>1, <2>3 DEF ToolInv, Extends, InUse
<1>8. ASSUME NEW selector \in Selectors, ToolSelect(selector) PROVE ToolInv'
  <2>1. UNCHANGED <<dir, index, phase, saved, registry>>
    BY <1>8 DEF ToolSelect, vars, files, process
  <2>2. PICK k \in DOMAIN tool.series : tool' = [at |-> "query", series |-> [x \in {k} |-> tool.series[x]]]
    BY <1>8 DEF ToolSelect
  <2>3. Extends(saved, tool.series)
    BY <1>8 DEF ToolSelect, ToolInv
  <2>4. tool'.at = "query" /\ Extends(saved, tool'.series)
    BY <2>2, <2>3 DEF Extends
  <2> QED
    BY <2>1, <2>4 DEF ToolInv, Extends, InUse
<1>9. CASE ToolExit
  BY <1>9 DEF ToolExit, NoTool, vars, files, process, ToolInv, Extends, InUse
<1>10. CASE UNCHANGED allVars
  BY <1>0, <1>10 DEF allVars, vars, files, process, InUse
<1> QED
  BY <1>1, <1>2, <1>3, <1>4, <1>5, <1>6, <1>7, <1>8, <1>9, <1>10 DEF CNext

(* Together the parts are inductive.                                       *)
LEMMA CInvAlways == CSpec => []CInv
<1>1. CInv /\ [CNext]_allVars => CInv'
  BY CNextImplements, InvNext, StoreTypesStep, ConfigInvStep, ToolInvStep DEF CInv
<1> QED
  BY <1>1, CInvInit, PTL DEF CSpec

-----------------------------------------------------------------------------
(* The files and the registry keep their types whichever configuration     *)
(* opens the store (Store::open, SeriesRegistry::register).                *)
THEOREM ConfiguredTypes == CSpec => []CTypeOK
<1>1. CInv => CTypeOK
  BY DEF CInv, CTypeOK, ConfigInv, ConfigFits, ToolInv
<1> QED
  BY <1>1, CInvAlways, PTL

(* An open store has slabs of the geometry its process configured and      *)
(* routes every series as when it was registered: comparing the hashes in  *)
(* meta.json is enough (Store::open), for any set of configurations.       *)
THEOREM SchemasStayKept == CSpec => []SchemasKept
<1>1. CInv => SchemasKept
  <2> SUFFICES ASSUME CInv, phase = "open" PROVE SchemasKept
    BY DEF SchemasKept
  <2>1. ConfigFits /\ Routed(registry) /\ \A id \in SlabIds : headers[id] = BaseHeader(id)
    BY DEF CInv, ConfigInv, InUse
  <2>2. \A id \in SlabIds : headers[id] = SlabHeader(id)
    BY <2>1, SameHeaders
  <2>3. ASSUME NEW k \in Registered(registry)
        PROVE  /\ matches(config[registry.series[k].schema + 1].label_matcher, k.labels)
               /\ \A s \in 0 .. registry.series[k].schema - 1 :
                    ~matches(config[s + 1].label_matcher, k.labels)
    <3>1. k \in Keys
      BY DEF CInv, TypeOK, RegistryOK
    <3>2. /\ registry.series[k].schema \in Matches[k] /\ registry.series[k].schema \in Schemas
          /\ \A o \in Matches[k] : registry.series[k].schema <= o
      BY <2>1, <3>1, SchemaFound DEF Routed
    <3>3. \A s \in Schemas : config[s + 1].label_matcher = Base[s + 1].label_matcher
      <4> SUFFICES ASSUME NEW s \in Schemas PROVE config[s + 1].label_matcher = Base[s + 1].label_matcher
        OBVIOUS
      <4>1. s + 1 \in DOMAIN Base
        BY BaseFacts, ConfiguredStoreAssumption
      <4> QED
        BY <2>1, <4>1 DEF ConfigFits, stable_hash
    <3>4. \A s \in Schemas : s \in Matches[k] <=> matches(config[s + 1].label_matcher, k.labels)
      BY <3>1, <3>3, ConfiguredStoreAssumption
    <3>5. \A s \in 0 .. registry.series[k].schema - 1 : s \in Schemas /\ s \notin Matches[k]
      <4>1. Schemas = 0 .. Len(Base) - 1 /\ Len(Base) \in Nat
        BY ConfiguredStoreAssumption
      <4> QED
        BY <3>2, <4>1
    <3> QED
      BY <3>2, <3>4, <3>5
  <2> QED
    BY <2>2, <2>3 DEF SchemasKept
<1> QED
  BY <1>1, CInvAlways, PTL

(* No two cells of any slab of the store overlap, for every configuration  *)
(* that validate accepts (SlabLayout::new).                                *)
THEOREM SlabCellsApart == CSpec => []CellsApart
<1>1. ASSUME NEW id \in SlabIds PROVE CellsApartIn(BaseHeader(id))
  <2> DEFINE schema == Base[id[1] + 1]
             tier   == schema.tiers[id[2] + 1]
  <2>1. IsSchema(schema) /\ IsTier(tier)
    BY BaseFacts, ConfiguredStoreAssumption DEF IsSchema
  <2>2. interval_nanos(tier) \in Nat /\ tier.retention % U64 \in Nat
    <3>1. tier.interval \in Nat /\ tier.retention \in Nat
      BY <2>1 DEF IsTier
    <3>2. \A a \in Nat : a % U64 \in Nat
      BY SchemaAssumption
    <3> QED BY <3>1, <3>2 DEF interval_nanos
  <2>3. \A a \in Nat, b \in Nat \ {0} : a \div b \in Nat
    OBVIOUS
  <2>4. slot_count(tier) \in Nat
    BY <2>2, <2>3 DEF slot_count
  <2>5. BaseHeader(id).slot_count \in Nat /\ BaseHeader(id).max_series \in Nat
    BY <2>1, <2>4 DEF BaseHeader, IsSchema
  <2> QED
    BY <2>5, LayoutApart
<1>2. CInv => CellsApart
  BY <1>1 DEF CInv, ConfigInv, CellsApart
<1> QED
  BY <1>2, CInvAlways, PTL

(* What the tool has found stays true of the owner's registry over         *)
(* crashes, failed saves and reopening (rondo-cli beside Store::register). *)
THEOREM ToolStaysInAgreement == CSpec => []ToolAgrees
<1>1. CInv => ToolAgrees
  BY DEF CInv, ToolInv, ToolAgrees, Extends, InUse, Registered
<1> QED
  BY <1>1, CInvAlways, PTL

(* A schema whose durations f64 seconds are precise for comes back from    *)
(* meta.json as it was.                                                    *)
LEMMA RereadSame ==
  ASSUME NEW schema, IsSchema(schema),
         \A t \in DOMAIN schema.tiers :
           schema.tiers[t].interval < F64Exact /\ schema.tiers[t].retention < F64Exact
  PROVE  Reread(schema) = schema
<1>1. ASSUME NEW i \in DOMAIN schema.tiers PROVE RereadTier(schema.tiers[i]) = schema.tiers[i]
  <2> DEFINE t == schema.tiers[i]
  <2>1. IsTier(t) /\ t.interval < F64Exact /\ t.retention < F64Exact
    BY <1>1 DEF IsSchema
  <2> HIDE DEF t
  <2>2. duration_serde(t.interval) = t.interval /\ duration_serde(t.retention) = t.retention
    BY <2>1 DEF duration_serde
  <2>3. RereadTier(t) = [t EXCEPT !.interval = t.interval, !.retention = t.retention]
    BY <2>2 DEF RereadTier
  <2>4. t = [interval |-> t.interval, retention |-> t.retention, consolidation_fn |-> t.consolidation_fn]
    BY <2>1 DEF IsTier
  <2>5. RereadTier(t) = t
    BY <2>3, <2>4
  <2> QED
    BY <2>5 DEF t
<1>2. Reread(schema) = [schema EXCEPT !.tiers = [i \in DOMAIN schema.tiers |-> RereadTier(schema.tiers[i])]]
  BY DEF Reread
<1>3. [i \in DOMAIN schema.tiers |-> RereadTier(schema.tiers[i])] = schema.tiers
  BY <1>1 DEF IsSchema
<1>4. schema = [name |-> schema.name, label_matcher |-> schema.label_matcher,
                tiers |-> schema.tiers, max_series |-> schema.max_series]
  BY DEF IsSchema
<1> QED
  BY <1>2, <1>3, <1>4

(* The tool is refused only by a store its owner could not open either, in *)
(* the instant the owner rewrites the index, or over a duration that f64   *)
(* seconds round: reconstruct_schemas of rondo-cli gives back the hashes   *)
(* of any other configuration.                                             *)
THEOREM ToolOpensGoodStores == CSpec => ToolOpensGood
<1>1. ASSUME CInv, ~Imprecise, meta = "good" PROVE Accepted(reconstruct_schemas)
  <2>1. \A i \in DOMAIN Base : Reread(Base[i]) = Base[i]
    <3> SUFFICES ASSUME NEW i \in DOMAIN Base PROVE Reread(Base[i]) = Base[i]
      OBVIOUS
    <3>1. IsSchema(Base[i])
      BY ConfiguredStoreAssumption
    <3>2. \A t \in DOMAIN Base[i].tiers :
            Base[i].tiers[t].interval < F64Exact /\ Base[i].tiers[t].retention < F64Exact
      <4> SUFFICES ASSUME NEW t \in DOMAIN Base[i].tiers
                   PROVE  Base[i].tiers[t].interval < F64Exact /\ Base[i].tiers[t].retention < F64Exact
        OBVIOUS
      <4>1. Base[i].tiers[t].interval \in Nat /\ Base[i].tiers[t].retention \in Nat /\ F64Exact \in Nat
        BY <3>1, SchemaAssumption DEF IsSchema, IsTier
      <4>2. ~(Base[i].tiers[t].interval >= F64Exact) /\ ~(Base[i].tiers[t].retention >= F64Exact)
        BY <1>1 DEF Imprecise
      <4> QED
        BY <4>1, <4>2
    <3> QED
      BY <3>1, <3>2, RereadSame
  <2>2. meta_schemas = BaseMeta
    BY <1>1 DEF CInv, ConfigInv
  <2>3. reconstruct_schemas = [i \in DOMAIN Base |-> Base[i]]
    BY <2>1, <2>2, BaseMetaFacts DEF reconstruct_schemas
  <2>4. /\ DOMAIN reconstruct_schemas = DOMAIN Base
        /\ \A i \in DOMAIN Base : reconstruct_schemas[i] = Base[i]
    BY <2>3
  <2>5. Len(reconstruct_schemas) = Len(Base)
    <3> DEFINE range == {Base[i] : i \in DOMAIN Base}
    <3>1. \A i \in DOMAIN Base : Base[i] \in range
      OBVIOUS
    <3> HIDE DEF range
    <3>2. reconstruct_schemas \in Seq(range)
      BY <2>3, <3>1, BaseFacts
    <3>3. DOMAIN reconstruct_schemas = 1 .. Len(reconstruct_schemas) /\ Len(reconstruct_schemas) \in Nat
      BY <3>2
    <3>4. 1 .. Len(reconstruct_schemas) = 1 .. Len(Base) /\ Len(Base) \in Nat
      BY <2>4, <3>3, BaseFacts
    <3> QED
      BY <3>3, <3>4
  <2>6. \A i \in DOMAIN Base : validate(Base[i])
    <3> SUFFICES ASSUME NEW i \in DOMAIN Base PROVE validate(Base[i])
      OBVIOUS
    <3>1. i - 1 \in Schemas /\ (i - 1) + 1 = i
      BY BaseFacts, ConfiguredStoreAssumption
    <3> QED
      BY <3>1, ConfiguredStoreAssumption
  <2> QED
    BY <2>2, <2>4, <2>5, <2>6, BaseMetaFacts DEF Accepted
<1>2. CInv /\ [CNext]_allVars =>
        [(tool = NoTool /\ tool'.at = "refused") => ~Readable(index) \/ phase = "saving" \/ Imprecise]_tool
  <2> SUFFICES ASSUME CInv, [CNext]_allVars, tool = NoTool, tool'.at = "refused", tool' # tool,
                      Readable(index), phase # "saving", ~Imprecise
               PROVE  FALSE
    OBVIOUS
  <2>1. ToolOpen
    <3>1. tool.at = "none"
      BY DEF NoTool
    <3>2. ToolOpen \/ (\E selector \in Selectors : ToolSelect(selector)) \/ ToolExit
      BY DEF CNext, CCreate, CCreateMeta, CCreateSlab, COpen, CRegister, COther, CCrash, allVars
    <3> QED
      BY <3>1, <3>2 DEF ToolSelect, ToolExit
  <2>2. Accepted(reconstruct_schemas)
    BY <1>1 DEF Readable
  <2>3. PICK index_ \in {index} \cup (IF phase = "saving" THEN {"truncated"} ELSE {}) :
          tool' = IF Readable(index_) /\ Accepted(reconstruct_schemas)
                    THEN [at |-> "open",
                          series |-> IF index_ = "missing" THEN EmptyRegistry.series ELSE saved.series]
                    ELSE [at |-> "refused"]
    BY <2>1 DEF ToolOpen
  <2>4. index_ = index
    BY <2>3
  <2>5. tool'.at = "open"
    BY <2>2, <2>3, <2>4
  <2> QED
    BY <2>5
<1> QED
  BY <1>2, CInvAlways, PTL DEF CSpec, ToolOpensGood

-----------------------------------------------------------------------------
(* Sorting labels, for any number of them.                                 *)

Pairs == Nat \X Nat

Before(s, j, i) == s[j][1] < s[i][1] \/ (s[j][1] = s[i][1] /\ j < i)

Place(s, i) == 1 + Cardinality({j \in DOMAIN s : Before(s, j, i)})

(* Labels are pairs of numbers at the positions 1 .. Len.                  *)
LEMMA PairsFacts ==
  ASSUME NEW s \in Seq(Pairs)
  PROVE  /\ Len(s) \in Nat /\ DOMAIN s = 1 .. Len(s)
         /\ \A i \in DOMAIN s : i \in Nat /\ s[i] \in Pairs /\ s[i][1] \in Nat
<1>1. Len(s) \in Nat /\ DOMAIN s = 1 .. Len(s) /\ \A i \in DOMAIN s : s[i] \in Pairs
  OBVIOUS
<1>2. \A x \in Pairs : x[1] \in Nat
  BY DEF Pairs
<1> QED
  BY <1>1, <1>2

(* Labels come in one order.                                               *)
LEMMA BeforeFacts ==
  ASSUME NEW s \in Seq(Pairs)
  PROVE  /\ \A i \in DOMAIN s : ~Before(s, i, i)
         /\ \A i, j \in DOMAIN s : i # j => Before(s, i, j) \/ Before(s, j, i)
         /\ \A h, i, j \in DOMAIN s : Before(s, h, i) /\ Before(s, i, j) => Before(s, h, j)
  BY PairsFacts DEF Before

(* A label's place is behind those of all labels before it.                *)
LEMMA PlaceFacts ==
  ASSUME NEW s \in Seq(Pairs)
  PROVE  /\ \A i \in DOMAIN s : Place(s, i) \in DOMAIN s
         /\ \A i, j \in DOMAIN s : Before(s, i, j) => Place(s, i) < Place(s, j)
<1> DEFINE ahead(i) == {j \in DOMAIN s : Before(s, j, i)}
<1>1. DOMAIN s = 1 .. Len(s) /\ Len(s) \in Nat
  BY PairsFacts
<1>2. IsFiniteSet(DOMAIN s) /\ Cardinality(DOMAIN s) = Len(s)
  <2>1. IsFiniteSet(1 .. Len(s)) /\ Cardinality(1 .. Len(s)) = (IF 1 > Len(s) THEN 0 ELSE Len(s) - 1 + 1)
    BY <1>1, FS_Interval
  <2> QED
    BY <1>1, <2>1
<1>3. ASSUME NEW i \in DOMAIN s
      PROVE  /\ IsFiniteSet(ahead(i)) /\ Cardinality(ahead(i)) \in Nat
             /\ Place(s, i) = 1 + Cardinality(ahead(i)) /\ Cardinality(ahead(i)) < Len(s)
  <2>1. ahead(i) \in SUBSET DOMAIN s /\ i \notin ahead(i)
    BY BeforeFacts
  <2>2. Place(s, i) = 1 + Cardinality(ahead(i))
    BY DEF Place
  <2> HIDE DEF ahead
  <2>3. /\ IsFiniteSet(ahead(i)) /\ Cardinality(ahead(i)) <= Cardinality(DOMAIN s)
        /\ (Cardinality(DOMAIN s) = Cardinality(ahead(i)) => DOMAIN s = ahead(i))
    BY <1>2, <2>1, FS_Subset
  <2>4. Cardinality(ahead(i)) \in Nat
    BY <2>3, FS_CardinalityType
  <2>5. Cardinality(ahead(i)) # Cardinality(DOMAIN s)
    BY <2>1, <2>3
  <2> QED
    BY <1>1, <1>2, <2>2, <2>3, <2>4, <2>5
<1>4. ASSUME NEW i \in DOMAIN s, NEW j \in DOMAIN s, Before(s, i, j)
      PROVE  Cardinality(ahead(i)) < Cardinality(ahead(j))
  <2>1. ahead(i) \in SUBSET ahead(j) /\ i \in ahead(j) /\ i \notin ahead(i)
    BY <1>4, BeforeFacts
  <2>2. IsFiniteSet(ahead(j)) /\ Cardinality(ahead(i)) \in Nat /\ Cardinality(ahead(j)) \in Nat
    BY <1>3
  <2> HIDE DEF ahead
  <2>3. /\ Cardinality(ahead(i)) <= Cardinality(ahead(j))
        /\ (Cardinality(ahead(j)) = Cardinality(ahead(i)) => ahead(j) = ahead(i))
    BY <2>1, <2>2, FS_Subset
  <2>4. Cardinality(ahead(j)) # Cardinality(ahead(i))
    BY <2>1, <2>3
  <2> QED
    BY <2>2, <2>3, <2>4
<1> HIDE DEF ahead
<1>5. \A i \in DOMAIN s : Place(s, i) \in DOMAIN s
  BY <1>1, <1>3
<1> QED
  BY <1>3, <1>4, <1>5

(* Every place is taken.                                                   *)
LEMMA PlacesTaken ==
  ASSUME NEW s \in Seq(Pairs), NEW p \in DOMAIN s
  PROVE  \E i \in DOMAIN s : Place(s, i) = p
<1> DEFINE f == [i \in DOMAIN s |-> Place(s, i)]
<1>1. f \in [DOMAIN s -> DOMAIN s]
  BY PlaceFacts
<1>2. ASSUME NEW i \in DOMAIN s, NEW j \in DOMAIN s, i # j PROVE f[i] # f[j]
  <2>1. Before(s, i, j) \/ Before(s, j, i)
    BY <1>2, BeforeFacts
  <2>2. Place(s, i) \in Nat /\ Place(s, j) \in Nat
    BY PlaceFacts, PairsFacts
  <2> QED
    BY <2>1, <2>2, PlaceFacts
<1> HIDE DEF f
<1>3. f \in Injection(DOMAIN s, DOMAIN s)
  BY <1>1, <1>2, Zenon DEF Injection, IsInjective
<1>4. IsFiniteSet(DOMAIN s)
  <2>1. DOMAIN s = 1 .. Len(s) /\ Len(s) \in Nat
    BY PairsFacts
  <2> QED
    BY <2>1, FS_Interval
<1>5. f \in Surjection(DOMAIN s, DOMAIN s)
  BY <1>3, <1>4, FS_Injection
<1>6. PICK i \in DOMAIN s : f[i] = p
  BY <1>5, Zenon DEF Surjection
<1> QED
  BY <1>6 DEF f

(* Sorting keeps the labels, puts the keys in ascending order and, when    *)
(* they are distinct, in strictly ascending order.                         *)
LEMMA SortFacts ==
  ASSUME NEW s \in Seq(Pairs)
  PROVE  /\ SortByKey(s) \in Seq(Pairs) /\ DOMAIN SortByKey(s) = DOMAIN s /\ Len(SortByKey(s)) = Len(s)
         /\ \A p \in DOMAIN s : \E i \in DOMAIN s : SortByKey(s)[p] = s[i] /\ Place(s, i) = p
         /\ \A i \in DOMAIN s : SortByKey(s)[Place(s, i)] = s[i]
<1> DEFINE at(p) == CHOOSE i \in DOMAIN s : Place(s, i) = p
<1>1. SortByKey(s) = [p \in DOMAIN s |-> s[at(p)]]
  BY DEF SortByKey, Place, Before
<1>2. ASSUME NEW p \in DOMAIN s PROVE at(p) \in DOMAIN s /\ Place(s, at(p)) = p
  BY PlacesTaken
<1>3. ASSUME NEW i \in DOMAIN s PROVE at(Place(s, i)) = i
  <2>1. Place(s, i) \in DOMAIN s
    BY PlaceFacts
  <2>2. at(Place(s, i)) \in DOMAIN s /\ Place(s, at(Place(s, i))) = Place(s, i)
    BY <1>2, <2>1
  <2> HIDE DEF at
  <2>3. Place(s, i) \in Nat
    BY <2>1, PairsFacts
  <2> QED
    BY <2>2, <2>3, BeforeFacts, PlaceFacts
<1> HIDE DEF at
<1>4. DOMAIN s = 1 .. Len(s) /\ Len(s) \in Nat
  BY PairsFacts
<1>5. SortByKey(s) \in Seq(Pairs)
  BY <1>1, <1>2, <1>4, PairsFacts
<1>6. DOMAIN SortByKey(s) = DOMAIN s
  BY <1>1
<1>7. Len(SortByKey(s)) = Len(s)
  <2>1. DOMAIN SortByKey(s) = 1 .. Len(SortByKey(s)) /\ Len(SortByKey(s)) \in Nat
    BY <1>5, PairsFacts
  <2> QED
    BY <1>4, <1>6, <2>1
<1>8. \A i \in DOMAIN s : SortByKey(s)[Place(s, i)] = s[i]
  BY <1>1, <1>3, PlaceFacts
<1> QED
  BY <1>1, <1>2, <1>5, <1>6, <1>7, <1>8

KeysDistinct(s) == \A i, j \in DOMAIN s : i # j => s[i][1] # s[j][1]

Ascending(s) == \A p, q \in DOMAIN s : p < q => s[p][1] < s[q][1]

(* The keys of sorted labels ascend.                                       *)
LEMMA SortedAscends ==
  ASSUME NEW s \in Seq(Pairs), KeysDistinct(s)
  PROVE  Ascending(SortByKey(s))
<1> SUFFICES ASSUME NEW p \in DOMAIN s, NEW q \in DOMAIN s, p < q
             PROVE  SortByKey(s)[p][1] < SortByKey(s)[q][1]
  BY SortFacts DEF Ascending
<1>1. PICK i \in DOMAIN s : SortByKey(s)[p] = s[i] /\ Place(s, i) = p
  BY SortFacts
<1>2. PICK j \in DOMAIN s : SortByKey(s)[q] = s[j] /\ Place(s, j) = q
  BY SortFacts
<1>3. p \in Nat /\ q \in Nat /\ i # j
  BY <1>1, <1>2, PairsFacts
<1>4. ~Before(s, j, i)
  BY <1>1, <1>2, <1>3, PlaceFacts
<1>5. Before(s, i, j)
  BY <1>3, <1>4, BeforeFacts
<1> QED
  BY <1>1, <1>2, <1>3, <1>5, PairsFacts DEF Before, KeysDistinct

(* A sorted sequence with distinct keys is one that ascends; so is what is *)
(* sorted, if its result has distinct keys.                                *)
LEMMA SortedDistinct ==
  ASSUME NEW s \in Seq(Pairs), KeysDistinct(SortByKey(s))
  PROVE  KeysDistinct(s)
<1> SUFFICES ASSUME NEW i \in DOMAIN s, NEW j \in DOMAIN s, i # j PROVE s[i][1] # s[j][1]
  BY DEF KeysDistinct
<1>1. /\ Place(s, i) \in DOMAIN s /\ Place(s, j) \in DOMAIN s
      /\ SortByKey(s)[Place(s, i)] = s[i] /\ SortByKey(s)[Place(s, j)] = s[j]
  BY PlaceFacts, SortFacts
<1>2. Place(s, i) # Place(s, j)
  <2>1. Place(s, i) \in Nat /\ Place(s, j) \in Nat
    BY <1>1, PairsFacts
  <2> QED
    BY <2>1, BeforeFacts, PlaceFacts
<1>3. \A p, q \in DOMAIN s : p # q => SortByKey(s)[p][1] # SortByKey(s)[q][1]
  BY SortFacts DEF KeysDistinct
<1> QED
  BY <1>1, <1>2, <1>3

(* A set of positions has a first one.                                     *)
LEMMA LeastPosition ==
  ASSUME NEW S \in SUBSET Nat, S # {}
  PROVE  \E s \in S : \A o \in S : s <= o
<1>1. IsWellFoundedOn(OpToRel(<, Nat), Nat)
  BY NatLessThanWellFounded
<1>2. PICK s \in S : \A o \in S : <<o, s>> \notin OpToRel(<, Nat)
  <2> HIDE DEF OpToRel
  <2> QED
    BY <1>1, WFMin
<1>3. ASSUME NEW o \in S PROVE s <= o
  <2>1. s \in Nat /\ o \in Nat
    OBVIOUS
  <2>2. o < s => <<o, s>> \in OpToRel(<, Nat)
    BY <2>1, Zenon DEF OpToRel
  <2>3. ~(o < s)
    BY <1>2, <2>2, Zenon
  <2> QED
    BY <2>1, <2>3
<1> QED
  BY <1>2, <1>3

(* Of two numbers one is not below the other.                              *)
LEMMA NatOrder == \A x, y \in Nat : ~(x < y /\ y < x)
  OBVIOUS

(* Two ascending sequences with the same labels are the same.              *)
LEMMA AscendingUnique ==
  ASSUME NEW s \in Seq(Pairs), NEW t \in Seq(Pairs), Ascending(s), Ascending(t), DOMAIN s = DOMAIN t,
         \A i \in DOMAIN s : \E j \in DOMAIN t : s[i] = t[j],
         \A i \in DOMAIN t : \E j \in DOMAIN s : t[i] = s[j]
  PROVE  s = t
<1> DEFINE differ == {p \in DOMAIN s : s[p] # t[p]}
<1>1. SUFFICES ASSUME differ # {} PROVE FALSE
  <2>1. ASSUME differ = {} PROVE s = t
    <3>1. \A p \in DOMAIN s : s[p] = t[p]
      BY <2>1
    <3>2. s = [p \in DOMAIN s |-> s[p]] /\ t = [p \in DOMAIN t |-> t[p]]
      OBVIOUS
    <3> QED
      BY <3>1, <3>2
  <2> QED
    BY <2>1
<1>2. differ \in SUBSET Nat
  BY PairsFacts
<1>3. PICK p \in differ : \A o \in differ : p <= o
  <2> HIDE DEF differ
  <2> QED
    BY <1>1, <1>2, LeastPosition
<1>4. p \in DOMAIN s /\ p \in Nat /\ s[p] # t[p] /\ \A o \in DOMAIN s : o < p => s[o] = t[o]
  <2>1. p \in DOMAIN s /\ s[p] # t[p]
    BY <1>3
  <2>2. ASSUME NEW o \in DOMAIN s, o < p PROVE s[o] = t[o]
    <3>1. o \in Nat /\ p \in Nat
      BY <2>1, PairsFacts
    <3> QED
      BY <1>3, <2>2, <3>1
  <2> QED
    BY <2>1, <2>2, PairsFacts
<1>5. PICK j \in DOMAIN t : s[p] = t[j]
  BY <1>4
<1>6. PICK i \in DOMAIN s : t[p] = s[i]
  BY <1>4
<1>7. j \in Nat /\ i \in Nat /\ s[p][1] \in Nat /\ t[p][1] \in Nat
  BY <1>4, PairsFacts
<1>8. p < j
  <2>1. ~(j < p)
    <3> SUFFICES ASSUME j < p PROVE FALSE
      OBVIOUS
    <3>1. s[j] = s[p] /\ s[j][1] < s[p][1]
      BY <1>4, <1>5 DEF Ascending
    <3>2. s[p][1] < s[p][1]
      BY <3>1, Zenon
    <3> QED
      BY <1>7, <3>2, NatOrder, Zenon
  <2> QED
    BY <1>4, <1>5, <1>7, <2>1
<1>9. p < i
  <2>1. ~(i < p)
    <3> SUFFICES ASSUME i < p PROVE FALSE
      OBVIOUS
    <3>1. t[i] = t[p] /\ t[i][1] < t[p][1]
      BY <1>4, <1>6 DEF Ascending
    <3>2. t[p][1] < t[p][1]
      BY <3>1, Zenon
    <3> QED
      BY <1>7, <3>2, NatOrder, Zenon
  <2> QED
    BY <1>4, <1>6, <1>7, <2>1
<1>10. t[p][1] < t[j][1] /\ s[p][1] < s[i][1]
  BY <1>4, <1>8, <1>9 DEF Ascending
<1>11. t[j][1] = s[p][1] /\ s[i][1] = t[p][1]
  BY <1>5, <1>6
<1>12. t[p][1] < s[p][1] /\ s[p][1] < t[p][1]
  BY <1>10, <1>11
<1> QED
  BY <1>7, <1>12, NatOrder, Zenon

-----------------------------------------------------------------------------
(* The labels of a series on the wire.                                     *)

(* What build_labels sorts.                                                *)
Joined(name, a, e) == <<(<<Reserved, name>>)>> \o a \o e

(* One sequence after another.                                             *)
LEMMA JoinFacts ==
  ASSUME NEW a \in Seq(Pairs), NEW b \in Seq(Pairs)
  PROVE  /\ a \o b \in Seq(Pairs) /\ Len(a \o b) = Len(a) + Len(b)
         /\ \A i \in DOMAIN a : (a \o b)[i] = a[i]
         /\ \A i \in DOMAIN b : (a \o b)[Len(a) + i] = b[i]
         /\ DOMAIN (a \o b) = 1 .. Len(a) + Len(b)
  OBVIOUS

(* The name comes first, the other labels after it.                        *)
LEMMA JoinedFacts ==
  ASSUME NEW name \in Nat, NEW a \in Seq(Pairs), NEW e \in Seq(Pairs)
  PROVE  /\ Joined(name, a, e) \in Seq(Pairs) /\ a \o e \in Seq(Pairs)
         /\ Len(Joined(name, a, e)) = 1 + Len(a) + Len(e) /\ Len(a \o e) = Len(a) + Len(e)
         /\ Joined(name, a, e)[1] = <<Reserved, name>>
         /\ \A p \in DOMAIN (a \o e) : Joined(name, a, e)[1 + p] = (a \o e)[p]
         /\ \A i \in DOMAIN a : (a \o e)[i] = a[i]
         /\ \A i \in DOMAIN e : (a \o e)[Len(a) + i] = e[i]
<1> DEFINE n == <<(<<Reserved, name>>)>>
<1>1. <<Reserved, name>> \in Pairs
  BY DEF Pairs, Reserved
<1>2. n \in Seq(Pairs) /\ Len(n) = 1 /\ n[1] = <<Reserved, name>> /\ 1 \in DOMAIN n
  BY <1>1
<1> HIDE DEF n
<1>3. n \o a \in Seq(Pairs) /\ Len(n \o a) = 1 + Len(a)
  <2>1. n \o a \in Seq(Pairs) /\ Len(n \o a) = Len(n) + Len(a)
    BY <1>2, JoinFacts, Zenon
  <2> QED
    BY <1>2, <2>1
<1>4. (n \o a) \o e \in Seq(Pairs) /\ Len((n \o a) \o e) = 1 + Len(a) + Len(e)
  BY <1>3
<1>5. a \o e \in Seq(Pairs) /\ Len(a \o e) = Len(a) + Len(e)
  OBVIOUS
<1>6. \A i \in DOMAIN a : (a \o e)[i] = a[i]
  OBVIOUS
<1>7. \A i \in DOMAIN e : (a \o e)[Len(a) + i] = e[i]
  OBVIOUS
<1>8. (n \o a)[1] = n[1] /\ \A i \in DOMAIN a : (n \o a)[1 + i] = a[i]
  <2>1. /\ \A i \in DOMAIN n : (n \o a)[i] = n[i]
        /\ \A i \in DOMAIN a : (n \o a)[Len(n) + i] = a[i]
    BY <1>2, JoinFacts, Zenon
  <2> QED
    BY <1>2, <2>1
<1>9. ((n \o a) \o e)[1] = n[1]
  BY <1>2, <1>3, <1>8
<1>10. ASSUME NEW p \in DOMAIN (a \o e) PROVE ((n \o a) \o e)[1 + p] = (a \o e)[p]
  <2>1. Len(a) \in Nat /\ Len(e) \in Nat /\ DOMAIN a = 1 .. Len(a) /\ DOMAIN e = 1 .. Len(e)
        /\ p \in 1 .. Len(a) + Len(e)
    BY <1>5, PairsFacts
  <2>2. CASE p \in DOMAIN a
    BY <1>3, <1>8, <2>1, <2>2
  <2>3. CASE p \notin DOMAIN a
    <3>1. p - Len(a) \in DOMAIN e /\ p = Len(a) + (p - Len(a)) /\ 1 + p = (1 + Len(a)) + (p - Len(a))
      BY <2>1, <2>3
    <3>2. \A i \in DOMAIN e : ((n \o a) \o e)[(1 + Len(a)) + i] = e[i]
      BY <1>3, <2>1
    <3> QED
      BY <1>7, <3>1, <3>2
  <2> QED
    BY <2>2, <2>3
<1> QED
  BY <1>2, <1>4, <1>5, <1>6, <1>7, <1>9, <1>10 DEF Joined, n

(* Where no label is the name's, all keys on the wire are distinct.        *)
LEMMA JoinedDistinct ==
  ASSUME NEW name \in Nat, NEW a \in Seq(Pairs), NEW e \in Seq(Pairs), KeysDistinct(a \o e),
         \A i \in DOMAIN a : a[i][1] # Reserved, \A i \in DOMAIN e : e[i][1] # Reserved
  PROVE  KeysDistinct(Joined(name, a, e))
<1> DEFINE w == Joined(name, a, e)
           all == a \o e
<1>1. /\ w \in Seq(Pairs) /\ all \in Seq(Pairs) /\ Len(w) = 1 + Len(all) /\ Len(all) = Len(a) + Len(e)
      /\ w[1] = <<Reserved, name>>
      /\ \A p \in DOMAIN all : w[1 + p] = all[p]
  <2>1. Len(a) \in Nat /\ Len(e) \in Nat
    BY PairsFacts
  <2>2. /\ w \in Seq(Pairs) /\ all \in Seq(Pairs) /\ Len(w) = 1 + Len(a) + Len(e) /\ Len(all) = Len(a) + Len(e)
        /\ w[1] = <<Reserved, name>>
        /\ \A p \in DOMAIN all : w[1 + p] = all[p]
    BY JoinedFacts, ZenonT(60)
  <2> HIDE DEF w, all
  <2>3. Len(w) = 1 + Len(all)
    BY <2>1, <2>2
  <2> QED
    BY <2>2, <2>3
<1>2. \A p \in DOMAIN all : all[p][1] # Reserved
  <2> SUFFICES ASSUME NEW p \in DOMAIN all PROVE all[p][1] # Reserved
    OBVIOUS
  <2>1. Len(a) \in Nat /\ Len(e) \in Nat /\ DOMAIN a = 1 .. Len(a) /\ DOMAIN e = 1 .. Len(e)
        /\ p \in 1 .. Len(a) + Len(e)
    BY <1>1, PairsFacts
  <2>2. CASE p \in DOMAIN a
    BY <2>2, JoinedFacts
  <2>3. CASE p \notin DOMAIN a
    <3>1. p - Len(a) \in DOMAIN e /\ p = Len(a) + (p - Len(a))
      BY <2>1, <2>3
    <3>2. all[Len(a) + (p - Len(a))] = e[p - Len(a)]
      BY <3>1, JoinedFacts, ZenonT(60)
    <3> QED
      BY <3>1, <3>2
  <2> QED
    BY <2>2, <2>3
<1>3. KeysDistinct(all) /\ w[1][1] = Reserved
  BY <1>1
<1> HIDE DEF w, all
<1>4. DOMAIN w = 1 .. 1 + Len(all) /\ DOMAIN all = 1 .. Len(all) /\ Len(all) \in Nat
  BY <1>1, PairsFacts
<1>5. ASSUME NEW p \in DOMAIN w, p # 1
      PROVE  p - 1 \in DOMAIN all /\ w[p] = all[p - 1]
  <2>1. p - 1 \in DOMAIN all /\ 1 + (p - 1) = p
    BY <1>4, <1>5
  <2>2. w[1 + (p - 1)] = all[p - 1]
    BY <1>1, <2>1
  <2> QED
    BY <2>1, <2>2
<1>6. ASSUME NEW p \in DOMAIN w, NEW q \in DOMAIN w, p # q PROVE w[p][1] # w[q][1]
  <2>1. CASE p = 1
    BY <1>2, <1>3, <1>5, <1>6, <2>1
  <2>2. CASE q = 1
    BY <1>2, <1>3, <1>5, <1>6, <2>2
  <2>3. CASE p # 1 /\ q # 1
    <3>1. w[p] = all[p - 1] /\ w[q] = all[q - 1] /\ p - 1 \in DOMAIN all /\ q - 1 \in DOMAIN all
      BY <1>5, <2>3
    <3>2. p - 1 # q - 1
      BY <1>4, <1>6
    <3> QED
      BY <1>3, <3>1, <3>2 DEF KeysDistinct
  <2> QED
    BY <2>1, <2>2, <2>3
<1>7. KeysDistinct(w)
  BY <1>6 DEF KeysDistinct
<1> QED
  BY <1>7 DEF w

(* A key that register has filed: its labels were validated and sorted.    *)
Validated(k) ==
  \E r \in Requests : validate_labels(r.labels) /\ k = SeriesKey(r.name, r.labels)

(* Such a key has no label for the name, and if it is well labelled its    *)
(* labels ascend and all keys on the wire are distinct.                    *)
LEMMA ValidatedFacts ==
  ASSUME NEW k, Validated(k), WellLabelled(k)
  PROVE  /\ k = [name |-> k.name, labels |-> k.labels] /\ k.name \in Nat /\ k.labels \in Seq(Pairs)
         /\ external_labels \in Seq(Pairs)
         /\ Ascending(k.labels) /\ KeysDistinct(k.labels \o external_labels)
         /\ \A i \in DOMAIN k.labels : k.labels[i][1] # Reserved
         /\ KeysDistinct(Joined(k.name, k.labels, external_labels))
<1>1. PICK r \in Requests : validate_labels(r.labels) /\ k = SeriesKey(r.name, r.labels)
  BY DEF Validated
<1>2. r.name \in Nat /\ r.labels \in Seq(Pairs) /\ external_labels \in Seq(Pairs)
  BY ConfiguredStoreAssumption DEF Pairs
<1>3. k = [name |-> r.name, labels |-> SortByKey(r.labels)]
  BY <1>1 DEF SeriesKey
<1>4. k.name = r.name /\ k.labels = SortByKey(r.labels)
  BY <1>3
<1>5. k = [name |-> k.name, labels |-> k.labels] /\ k.name \in Nat /\ k.labels \in Seq(Pairs)
  BY <1>2, <1>3, <1>4, SortFacts
<1>6. /\ KeysDistinct(k.labels \o external_labels)
      /\ \A i \in DOMAIN external_labels : external_labels[i][1] # Reserved
  BY DEF WellLabelled, KeysDistinct
<1>7. \A i \in DOMAIN k.labels : k.labels[i][1] # Reserved
  <2> SUFFICES ASSUME NEW p \in DOMAIN k.labels PROVE k.labels[p][1] # Reserved
    OBVIOUS
  <2>1. PICK i \in DOMAIN r.labels : k.labels[p] = r.labels[i]
    BY <1>2, <1>4, SortFacts
  <2> QED
    BY <1>1, <2>1 DEF validate_labels
<1>8. KeysDistinct(k.labels)
  <2> DEFINE a == k.labels
             all == a \o external_labels
  <2>1. \A i \in DOMAIN a : all[i] = a[i] /\ i \in DOMAIN all
    BY <1>2, <1>5
  <2>2. KeysDistinct(all)
    BY <1>6
  <2> HIDE DEF a, all
  <2>3. KeysDistinct(a)
    BY <2>1, <2>2 DEF KeysDistinct
  <2> QED
    BY <2>3 DEF a
<1>9. Ascending(k.labels)
  BY <1>2, <1>4, <1>8, SortedDistinct, SortedAscends
<1>10. KeysDistinct(Joined(k.name, k.labels, external_labels))
  BY <1>2, <1>5, <1>6, <1>7, JoinedDistinct
<1> QED
  BY <1>2, <1>5, <1>6, <1>7, <1>9, <1>10

WireOf(k) == build_labels(k.name, k.labels, external_labels)

(* The labels on the wire ascend.                                          *)
LEMMA WireAscends ==
  ASSUME NEW k, Validated(k), WellLabelled(k)
  PROVE  WireOf(k) \in Seq(Pairs) /\ Ascending(WireOf(k))
<1>1. WireOf(k) = SortByKey(Joined(k.name, k.labels, external_labels))
  BY DEF WireOf, build_labels, Joined
<1>2. Joined(k.name, k.labels, external_labels) \in Seq(Pairs)
  BY ValidatedFacts, JoinedFacts
<1> QED
  BY <1>1, <1>2, ValidatedFacts, SortFacts, SortedAscends

LookSame(m, a, n, b, e) == SortByKey(Joined(m, a, e)) = SortByKey(Joined(n, b, e))

(* The name and the labels of a series can be told from the wire.          *)
LEMMA JoinedShows ==
  ASSUME NEW m \in Nat, NEW a \in Seq(Pairs), NEW n \in Nat, NEW b \in Seq(Pairs), NEW e \in Seq(Pairs),
         KeysDistinct(a \o e), KeysDistinct(Joined(n, b, e)), \A i \in DOMAIN a : a[i][1] # Reserved,
         LookSame(m, a, n, b, e)
  PROVE  m = n /\ DOMAIN a = DOMAIN b /\ \A i \in DOMAIN a : \E o \in DOMAIN b : a[i] = b[o]
<1> DEFINE u == Joined(m, a, e)
           v == Joined(n, b, e)
           x == a \o e
           y == b \o e
<1>1. /\ u \in Seq(Pairs) /\ v \in Seq(Pairs) /\ KeysDistinct(v) /\ SortByKey(u) = SortByKey(v)
      /\ Len(u) = 1 + Len(a) + Len(e) /\ Len(v) = 1 + Len(b) + Len(e)
      /\ u[1] = <<Reserved, m>> /\ v[1] = <<Reserved, n>>
      /\ \A p \in DOMAIN x : u[1 + p] = x[p]
      /\ \A p \in DOMAIN y : v[1 + p] = y[p]
  <2>1. /\ u \in Seq(Pairs) /\ Len(u) = 1 + Len(a) + Len(e) /\ u[1] = <<Reserved, m>>
        /\ \A p \in DOMAIN x : u[1 + p] = x[p]
    BY JoinedFacts, ZenonT(60)
  <2>2. /\ v \in Seq(Pairs) /\ Len(v) = 1 + Len(b) + Len(e) /\ v[1] = <<Reserved, n>>
        /\ \A p \in DOMAIN y : v[1 + p] = y[p]
    BY JoinedFacts, ZenonT(60)
  <2>3. KeysDistinct(v) /\ SortByKey(u) = SortByKey(v)
    BY DEF LookSame
  <2> QED
    BY <2>1, <2>2, <2>3
<1>2. /\ KeysDistinct(x)
      /\ DOMAIN x = 1 .. Len(a) + Len(e) /\ DOMAIN y = 1 .. Len(b) + Len(e)
      /\ \A i \in DOMAIN a : x[i] = a[i]
      /\ \A i \in DOMAIN e : x[Len(a) + i] = e[i]
      /\ \A i \in DOMAIN b : y[i] = b[i]
      /\ \A i \in DOMAIN e : y[Len(b) + i] = e[i]
  BY JoinFacts, ZenonT(60)
<1> HIDE DEF u, v, x, y
<1>3. Len(u) = Len(v)
  BY <1>1, SortFacts
<1>4. /\ Len(a) \in Nat /\ Len(b) \in Nat /\ Len(e) \in Nat
      /\ DOMAIN a = 1 .. Len(a) /\ DOMAIN b = 1 .. Len(b) /\ DOMAIN e = 1 .. Len(e)
      /\ DOMAIN u = 1 .. Len(u) /\ DOMAIN v = 1 .. Len(v)
  BY <1>1, PairsFacts
<1>5. /\ Len(a) = Len(b) /\ DOMAIN a = DOMAIN b /\ DOMAIN x = DOMAIN y
      /\ DOMAIN u = 1 .. 1 + Len(a) + Len(e) /\ DOMAIN v = 1 .. 1 + Len(a) + Len(e)
  <2>1. 1 + Len(a) + Len(e) = 1 + Len(b) + Len(e)
    BY <1>1, <1>3
  <2>2. Len(a) = Len(b)
    <3>1. \A p, q, o \in Nat : 1 + p + o = 1 + q + o => p = q
      OBVIOUS
    <3> QED
      BY <1>4, <2>1, <3>1, Zenon
  <2>3. DOMAIN a = DOMAIN b /\ DOMAIN x = DOMAIN y
    BY <1>2, <1>4, <2>2, Zenon
  <2>4. DOMAIN u = 1 .. 1 + Len(a) + Len(e) /\ DOMAIN v = 1 .. 1 + Len(a) + Len(e)
    BY <1>1, <1>3, <1>4, Zenon
  <2> QED
    BY <2>2, <2>3, <2>4
<1>6. ASSUME NEW p \in DOMAIN u PROVE \E q \in DOMAIN v : u[p] = v[q]
  <2>1. SortByKey(u)[Place(u, p)] = u[p] /\ Place(u, p) \in DOMAIN u
    BY <1>1, SortFacts, PlaceFacts
  <2>2. Place(u, p) \in DOMAIN v
    BY <1>5, <2>1
  <2>3. PICK q \in DOMAIN v : SortByKey(v)[Place(u, p)] = v[q]
    BY <1>1, <2>2, SortFacts
  <2> QED
    BY <1>1, <2>1, <2>3
<1>7. m = n
  <2>1. 1 \in DOMAIN u /\ 1 \in DOMAIN v
    BY <1>4, <1>5
  <2>2. PICK q \in DOMAIN v : u[1] = v[q]
    BY <1>6, <2>1
  <2>3. v[q][1] = v[1][1]
    BY <1>1, <2>2
  <2>4. q = 1
    BY <1>1, <2>1, <2>3 DEF KeysDistinct
  <2>5. <<Reserved, m>> = <<Reserved, n>>
    BY <1>1, <2>2, <2>4
  <2> QED
    BY <2>5
<1>8. ASSUME NEW i \in DOMAIN a PROVE \E o \in DOMAIN b : a[i] = b[o]
  <2>1. i \in DOMAIN x /\ 1 + i \in DOMAIN u /\ x[i] = a[i] /\ i \in Nat
    BY <1>2, <1>4, <1>5
  <2>2. u[1 + i] = a[i]
    BY <1>1, <2>1
  <2>3. PICK q \in DOMAIN v : a[i] = v[q]
    BY <1>6, <2>1, <2>2
  <2>4. q # 1
    <3> SUFFICES ASSUME q = 1 PROVE FALSE
      OBVIOUS
    <3>1. a[i] = <<Reserved, n>>
      BY <1>1, <2>3
    <3> QED
      BY <3>1
  <2>5. PICK p \in DOMAIN y : v[q] = y[p]
    <3>1. q - 1 \in DOMAIN y /\ 1 + (q - 1) = q
      BY <1>2, <1>4, <1>5, <2>3, <2>4
    <3>2. v[1 + (q - 1)] = y[q - 1]
      BY <1>1, <3>1
    <3> QED
      BY <3>1, <3>2
  <2>6. CASE p \in DOMAIN b
    BY <1>2, <2>3, <2>5, <2>6
  <2>7. CASE p \notin DOMAIN b
    <3>1. PICK k \in DOMAIN e : p = Len(b) + k
      <4>1. p - Len(b) \in DOMAIN e /\ p = Len(b) + (p - Len(b))
        BY <1>2, <1>4, <2>5, <2>7
      <4> QED
        BY <4>1
    <3>2. y[p] = e[k] /\ x[Len(a) + k] = e[k]
      BY <1>2, <3>1
    <3>3. Len(a) + k \in DOMAIN x /\ Len(a) + k # i
      BY <1>2, <1>4, <2>1, <3>1, SMTT(30)
    <3>4. x[i][1] # x[Len(a) + k][1]
      BY <1>2, <2>1, <3>3 DEF KeysDistinct
    <3>5. x[i] = x[Len(a) + k]
      BY <2>1, <2>3, <2>5, <3>2, Zenon
    <3> QED
      BY <3>4, <3>5
  <2> QED
    BY <2>6, <2>7
<1> QED
  BY <1>5, <1>7, <1>8

(* So two series that look the same on the wire have the same labels.      *)
LEMMA WireShows ==
  ASSUME NEW j, Validated(j), WellLabelled(j), NEW k, Validated(k), WellLabelled(k), WireOf(j) = WireOf(k)
  PROVE  /\ j.name = k.name /\ DOMAIN j.labels = DOMAIN k.labels
         /\ \A i \in DOMAIN j.labels : \E o \in DOMAIN k.labels : j.labels[i] = k.labels[o]
<1>1. /\ j.name \in Nat /\ j.labels \in Seq(Pairs) /\ k.name \in Nat /\ k.labels \in Seq(Pairs)
      /\ external_labels \in Seq(Pairs) /\ KeysDistinct(j.labels \o external_labels)
      /\ KeysDistinct(Joined(k.name, k.labels, external_labels))
      /\ \A i \in DOMAIN j.labels : j.labels[i][1] # Reserved
  BY ValidatedFacts, Zenon
<1>2. LookSame(j.name, j.labels, k.name, k.labels, external_labels)
  BY DEF LookSame, WireOf, build_labels, Joined
<1> DEFINE m == j.name
           a == j.labels
           n == k.name
           b == k.labels
           e == external_labels
<1>3. /\ m \in Nat /\ a \in Seq(Pairs) /\ n \in Nat /\ b \in Seq(Pairs) /\ e \in Seq(Pairs)
      /\ KeysDistinct(a \o e) /\ KeysDistinct(Joined(n, b, e)) /\ LookSame(m, a, n, b, e)
      /\ \A i \in DOMAIN a : a[i][1] # Reserved
  BY <1>1, <1>2, Zenon
<1> HIDE DEF m, a, n, b, e
<1>4. m = n /\ DOMAIN a = DOMAIN b /\ \A i \in DOMAIN a : \E o \in DOMAIN b : a[i] = b[o]
  BY <1>3, JoinedShows
<1> QED
  BY <1>4 DEF m, a, n, b

(* Every registered key was validated.                                     *)
KeysInv == \A k \in Registered(registry) \cup Registered(saved) : Validated(k)

(* Every step keeps that.                                                  *)
LEMMA KeysInvStep == CInv /\ KeysInv /\ [CNext]_allVars => KeysInv'
<1> SUFFICES ASSUME CInv, KeysInv, [CNext]_allVars PROVE KeysInv'
  OBVIOUS
<1>0. Registered(EmptyRegistry) = {}
  BY DEF Registered, EmptyRegistry
<1>1. ASSUME registry' \in {registry, saved, EmptyRegistry}, saved' \in {registry, saved, EmptyRegistry}
      PROVE  KeysInv'
  BY <1>0, <1>1 DEF KeysInv, Validated
<1>2. CASE CCreate
  BY <1>1, <1>2 DEF CCreate, CreateDirectory
<1>3. CASE CCreateMeta
  BY <1>1, <1>3 DEF CCreateMeta, CreateMeta, process
<1>4. ASSUME NEW id \in SlabIds, CCreateSlab(id) PROVE KeysInv'
  BY <1>1, <1>4 DEF CCreateSlab, CreateSlab, process
<1>5. ASSUME NEW provided \in Offered, COpen(provided) PROVE KeysInv'
  BY <1>1, <1>5 DEF COpen, OpenExisting, files
<1>6. ASSUME NEW r \in Requests, CRegister(r) PROVE KeysInv'
  <2> DEFINE k == SeriesKey(r.name, r.labels)
  <2>1. k \in Keys /\ Register(k) /\ Validated(k)
    BY <1>6, ConfiguredStoreAssumption DEF CRegister, Validated
  <2> HIDE DEF k
  <2>2. saved' = saved
    BY <2>1 DEF Register, files
  <2>3. CASE registry' = registry
    BY <1>1, <2>2, <2>3
  <2>4. CASE registry' # registry
    <3>1. /\ k \notin Registered(registry) /\ Matches[k] # {} /\ Sound(registry)
          /\ registry.next_series_id[find_matching_schema(k)] < MaxSeries[find_matching_schema(k)]
          /\ registry' = register(registry, k)
      BY <2>1, <2>4 DEF Register, CInv, HandlesInv
    <3>2. Registered(registry') = Registered(registry) \cup {k}
      BY <2>1, <3>1, RegisterSound
    <3> QED
      BY <2>1, <2>2, <3>2 DEF KeysInv, Validated
  <2> QED
    BY <2>3, <2>4
<1>7. CASE COther
  BY <1>1, <1>7 DEF COther, CreateIndex, Close, SyncSlabs, SaveIndex, SaveError, files
<1>8. CASE CCrash
  <2>1. UNCHANGED <<registry, saved>>
    BY <1>8 DEF CCrash, Crash, TornFile, files
  <2> QED
    BY <1>1, <2>1
<1>9. CASE ToolOpen \/ (\E selector \in Selectors : ToolSelect(selector)) \/ ToolExit \/ UNCHANGED allVars
  BY <1>1, <1>9 DEF ToolOpen, ToolSelect, ToolExit, allVars, vars, files, process
<1> QED
  BY <1>2, <1>3, <1>4, <1>5, <1>6, <1>7, <1>8, <1>9 DEF CNext

(* On the wire the labels of every series are in strict order and no two   *)
(* series look the same (build_labels of remote_write.rs behind the checks *)
(* of SeriesRegistry::register), for any series, labels and exporter.      *)
THEOREM WireLabelsStayDistinct == CSpec => []WireLabelsDistinct
<1>1. CInit => KeysInv
  BY DEF CInit, Init, KeysInv, Registered, EmptyRegistry
<1>2. CInv /\ KeysInv => WireLabelsDistinct
  <2> SUFFICES ASSUME CInv, KeysInv,
                      NEW j \in Registered(registry), WellLabelled(j),
                      NEW k \in Registered(registry), WellLabelled(k)
               PROVE  /\ \A p \in 1 .. Len(Wire[k]) - 1 : Wire[k][p][1] < Wire[k][p + 1][1]
                      /\ Wire[j] = Wire[k] => j = k
    BY DEF WireLabelsDistinct
  <2>1. j \in Keys /\ k \in Keys /\ Validated(j) /\ Validated(k)
    BY DEF CInv, TypeOK, RegistryOK, KeysInv
  <2>2. Wire[j] = WireOf(j) /\ Wire[k] = WireOf(k)
    BY <2>1 DEF Wire, WireOf
  <2>3. \A p \in 1 .. Len(WireOf(k)) - 1 : WireOf(k)[p][1] < WireOf(k)[p + 1][1]
    <3>1. WireOf(k) \in Seq(Pairs) /\ Ascending(WireOf(k))
      BY <2>1, WireAscends
    <3>2. Len(WireOf(k)) \in Nat /\ DOMAIN WireOf(k) = 1 .. Len(WireOf(k))
      BY <3>1, PairsFacts
    <3>3. ASSUME NEW p \in 1 .. Len(WireOf(k)) - 1
          PROVE  p \in DOMAIN WireOf(k) /\ p + 1 \in DOMAIN WireOf(k) /\ p < p + 1
      BY <3>2
    <3> QED
      BY <3>1, <3>3 DEF Ascending
  <2>4. ASSUME WireOf(j) = WireOf(k) PROVE j = k
    <3>1. /\ j.name = k.name /\ DOMAIN j.labels = DOMAIN k.labels
          /\ \A i \in DOMAIN j.labels : \E o \in DOMAIN k.labels : j.labels[i] = k.labels[o]
          /\ \A i \in DOMAIN k.labels : \E o \in DOMAIN j.labels : k.labels[i] = j.labels[o]
      BY <2>1, <2>4, WireShows
    <3>2. /\ j.labels \in Seq(Pairs) /\ k.labels \in Seq(Pairs) /\ Ascending(j.labels) /\ Ascending(k.labels)
          /\ j = [name |-> j.name, labels |-> j.labels] /\ k = [name |-> k.name, labels |-> k.labels]
      BY <2>1, ValidatedFacts
    <3>3. j.labels = k.labels
      BY <3>1, <3>2, AscendingUnique
    <3> QED
      BY <3>1, <3>2, <3>3
  <2> QED
    BY <2>2, <2>3, <2>4
<1> QED
  BY <1>1, <1>2, CInvAlways, KeysInvStep, PTL DEF CSpec
=============================================================================
