-------------------------- MODULE MCMemoryHierarchy --------------------------
(***************************************************************************)
(* Slices of two pixels and two images that have no pixel in common,     *)
(* nor twice the same.                                                     *)
(***************************************************************************)
EXTENDS MemoryHierarchy

MCImages == { [p \in 0 .. BIG_RAM_SIZE - 1 |-> 10 * n + p] : n \in {1, 2} }
MCPixel == {0} \cup UNION {{m[p] : p \in DOMAIN m} : m \in MCImages}
=============================================================================
