---------------------------- MODULE MCTableStore ----------------------------
(***************************************************************************)
(* A small store for TableStore: one column beyond those most tables have, *)
(* and the cells 1, 01 (the same number) and the empty string.             *)
(***************************************************************************)
EXTENDS TableStore, TLC

CONSTANTS one, padded

\* strtoll reads 1 and 01 as the number 1 and no number in the empty string.
MCNumber == (one :> 1) @@ (padded :> 1) @@ (Empty :> NotNumber)
=============================================================================
