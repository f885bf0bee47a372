------------------------------ MODULE EosTable ------------------------------
(***************************************************************************)
(* The EOSIO multi_index table, as the contracts use it: a partial         *)
(* function from primary key to row.  The table library is not in the      *)
(* repository; emplace, modify and erase are modelled from their use.      *)
(* Every contract action is one transaction, so a failed check() undoes    *)
(* the whole action: it is a guard of the TLA+ action.                     *)
(***************************************************************************)
EXTENDS Integers

\* emplace of a new row, or modify of an existing one.
Put(table, key, row) ==
  [k \in DOMAIN table \cup {key} |-> IF k = key THEN row ELSE table[k]]

\* emplace of several rows, none of them in the table yet.
PutAll(table, rows) ==
  [k \in DOMAIN table \cup DOMAIN rows |->
     IF k \in DOMAIN table THEN table[k] ELSE rows[k]]

\* erase of one row.
Drop(table, key) == [k \in DOMAIN table \ {key} |-> table[k]]

\* A table with no row.
EmptyTable == [k \in {} |-> {}]
=============================================================================
