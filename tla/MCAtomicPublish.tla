--------------------------- MODULE MCAtomicPublish ---------------------------
(***************************************************************************)
(* Small instances of AtomicPublish.                                        *)
(***************************************************************************)
EXTENDS AtomicPublish, TLC

Perms == Permutations(Publishers)

\* A tree that holds all files, a tree that holds none, any tree.
Complete == {Files}
Empty == {{}}
AnyTree == SUBSET Files
=============================================================================
