------------------------------- MODULE MCDemoDma -------------------------------
(***************************************************************************)
(* Bursts of two bytes; copies of nothing, of less than a burst, of a      *)
(* whole number of bursts and of a burst and a part.                       *)
(***************************************************************************)
EXTENDS DemoDma

MCJobs ==
  { [src_addr |-> s, dst_addr |-> 8 + s, len |-> n] :
      s \in {1, 4}, n \in {0, 1, 3, 4} }
=============================================================================
