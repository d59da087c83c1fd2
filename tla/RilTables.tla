----------------------------- MODULE RilTables ------------------------------
(***************************************************************************)
(* Tables: functions from names, put together from parts that have no name *)
(* in common.                                                              *)
(***************************************************************************)

Table(parts) ==
  [x \in UNION {DOMAIN parts[i] : i \in DOMAIN parts} |->
     parts[CHOOSE i \in DOMAIN parts : x \in DOMAIN parts[i]][x]]

\* the part of one row
Row(x, value) == [y \in {x} |-> value]
============================================================================
