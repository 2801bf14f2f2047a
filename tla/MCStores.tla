------------------------------ MODULE MCStores ------------------------------
(***************************************************************************)
(* Small instances of Stores.                                               *)
(***************************************************************************)
EXTENDS Stores, TLC

CallSymmetry == Permutations(Calls)
=============================================================================
