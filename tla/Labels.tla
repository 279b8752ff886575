------------------------------- MODULE Labels -------------------------------
(***************************************************************************)
(* Names and labels of series: what register accepts and the key it files  *)
(* a series under (rondo/src/series.rs), the labels remote write gives it  *)
(* (rondo/src/remote_write.rs), and the selectors of the command line tool *)
(* (rondo-cli/src/main.rs).                                                *)
(*                                                                         *)
(* Keys, values and names are numbers in the order of the strings: 0 is    *)
(* the empty string and Reserved the key "__name__"; the keys from 2 on do *)
(* not start with "__".                                                    *)
(***************************************************************************)
EXTENDS Integers, Sequences, FiniteSets

Reserved == 1

(* sort_by on the key: labels with the same key keep their order.          *)
SortByKey(labels) ==
  LET before(j, i) == \/ labels[j][1] < labels[i][1]
                      \/ labels[j][1] = labels[i][1] /\ j < i
      place(i)     == 1 + Cardinality({j \in DOMAIN labels : before(j, i)})
  IN  [p \in DOMAIN labels |-> labels[CHOOSE i \in DOMAIN labels : place(i) = p]]

SeriesKey(name, labels) == [name |-> name, labels |-> SortByKey(labels)]

validate_name(name) == name # 0

NoReservedCheck(labels) ==    \* mutant of validate_labels
  \A i \in DOMAIN labels : labels[i][1] # 0 /\ labels[i][2] # 0

validate_labels(labels) ==
  \A i \in DOMAIN labels : labels[i][1] # 0 /\ labels[i][2] # 0 /\ labels[i][1] # Reserved

(* The labels of a series on the wire: the name, its own labels, those of  *)
(* the exporter, sorted.                                                   *)
build_labels(name, labels, external_labels) ==
  SortByKey(<<(<<Reserved, name>>)>> \o labels \o external_labels)

(* The tool's filter, which looks at all labels with a key.                *)
matches_labels(labels, filter) ==
  \A i \in DOMAIN filter : \E j \in DOMAIN labels : labels[j] = filter[i]
=============================================================================
