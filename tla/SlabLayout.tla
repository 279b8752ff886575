----------------------------- MODULE SlabLayout -----------------------------
(***************************************************************************)
(* Where things are in a slab file (SlabLayout and the accessors of        *)
(* rondo/src/slab.rs): a header, the series directory with one entry for   *)
(* each series, the timestamp column with one entry for each slot, and the *)
(* value columns, one after the other.                                     *)
(*                                                                         *)
(* A slab is a record with the slot_count and max_series of its header;    *)
(* offsets are in bytes.  usize is taken to hold every offset.             *)
(***************************************************************************)
EXTENDS Integers

HEADER_SIZE           == 64
SERIES_DIR_ENTRY_SIZE == 4
TIMESTAMP_SIZE        == 8
VALUE_SIZE            == 8

series_dir_offset == HEADER_SIZE

(* Mutant: the directory is laid out for one entry less.                   *)
TimestampsTooEarly(slab) ==
  series_dir_offset + (slab.max_series - 1) * SERIES_DIR_ENTRY_SIZE

timestamp_column_offset(slab) == series_dir_offset + slab.max_series * SERIES_DIR_ENTRY_SIZE

value_columns_offset(slab) == timestamp_column_offset(slab) + slab.slot_count * TIMESTAMP_SIZE

value_column_size(slab) == slab.slot_count * VALUE_SIZE

file_size(slab) == value_columns_offset(slab) + slab.max_series * value_column_size(slab)

value_column_offset(slab, column) == value_columns_offset(slab) + column * value_column_size(slab)

(* What the accessors touch: [from, to) of a directory entry, of the       *)
(* timestamp of a slot and of the value of a slot and column.              *)
DirectoryEntry(id) ==
  [from |-> series_dir_offset + id * SERIES_DIR_ENTRY_SIZE,
   to   |-> series_dir_offset + (id + 1) * SERIES_DIR_ENTRY_SIZE]

Timestamp(slab, slot) ==
  [from |-> timestamp_column_offset(slab) + slot * TIMESTAMP_SIZE,
   to   |-> timestamp_column_offset(slab) + (slot + 1) * TIMESTAMP_SIZE]

Value(slab, slot, column) ==
  [from |-> value_column_offset(slab, column) + slot * VALUE_SIZE,
   to   |-> value_column_offset(slab, column) + (slot + 1) * VALUE_SIZE]

Apart(a, b) == a.to <= b.from \/ b.to <= a.from

-----------------------------------------------------------------------------
(* Series ids, slots and columns within their bounds never touch each      *)
(* other's bytes, the header or what is behind the end of the file.        *)
CellsApartIn(slab) ==
  LET Ids == 0 .. slab.max_series - 1
      Ss  == 0 .. slab.slot_count - 1
  IN  /\ \A id \in Ids : /\ HEADER_SIZE <= DirectoryEntry(id).from
                         /\ DirectoryEntry(id).to <= timestamp_column_offset(slab)
      /\ \A s \in Ss : /\ timestamp_column_offset(slab) <= Timestamp(slab, s).from
                       /\ Timestamp(slab, s).to <= value_columns_offset(slab)
      /\ \A s, t \in Ss, c, d \in Ids :
           /\ value_columns_offset(slab) <= Value(slab, s, c).from
           /\ Value(slab, s, c).to <= file_size(slab)
           /\ <<s, c>> # <<t, d>> => Apart(Value(slab, s, c), Value(slab, t, d))
=============================================================================
