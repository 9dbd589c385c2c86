----------------------------- MODULE MCProcessor -----------------------------
(***************************************************************************)
(* Two images of which no two pixels are the same, and a kernel of which   *)
(* no two weights are.                                                     *)
(***************************************************************************)
EXTENDS Processor

MCImages == { [p \in 0 .. BIG_RAM_SIZE - 1 |-> 100 * n + p] : n \in {1, 2} }
MCPixel == {0} \cup UNION {{m[p] : p \in DOMAIN m} : m \in MCImages}
mc_kernel ==
  [k \in 1 .. branchCount * groupCount |->
     [i \in 1 .. peArraySize |-> 1 + peArraySize * (k - 1) + i]]
=============================================================================
