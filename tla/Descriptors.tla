------------------------------ MODULE Descriptors ------------------------------
(***************************************************************************)
(* The descriptor programs that the user level driver sends to the DMAs of *)
(* the memory hierarchy (user-apps/user_level_tb/descriptors.h), for an    *)
(* image of any size.                                                      *)
(***************************************************************************)
EXTENDS DescriptorEngine

CONSTANT IMAGE_SIZE   (* The pixels of one image: 100 in the code.         *)

SMALL_RAM_SIZE == IMAGE_SIZE
BIG_RAM_SIZE == 3 * IMAGE_SIZE

ASSUME DescriptorsAssumption ==
  /\ IMAGE_SIZE \in Nat \ {0}
  /\ 3 * IMAGE_SIZE + 1 < Word

(* The pixels of the source RAM that come before those of slice k.         *)
Offset(k) == (k - 1) * SMALL_RAM_SIZE

desc_mm2s ==
  [next |-> 0, start |-> 0, state |-> TRANSFER,
   x_count |-> BIG_RAM_SIZE, x_modify |-> 1]

wait_descriptor(k) ==
  [next |-> 1, start |-> 0, state |-> WAIT,
   x_count |-> 1 + Offset(k), x_modify |-> 1]

slice_descriptor ==
  [next |-> 2, start |-> 0, state |-> TRANSFER,
   x_count |-> SMALL_RAM_SIZE, x_modify |-> 1]

done_descriptor ==
  [next |-> 0, start |-> 0, state |-> SUSPENDED, x_count |-> 0, x_modify |-> 1]

(***************************************************************************)
(* ram1_descriptors, ram2_descriptors and ram3_descriptors.  The mutants   *)
(* wait one edge too long, never leave the wait, and copy one pixel more.  *)
(***************************************************************************)
MutantRamWaitsTooLong(k) ==
  << [wait_descriptor(k) EXCEPT !.x_count = @ + 1],
     slice_descriptor, done_descriptor >>
MutantRamWaitsForever(k) ==
  << [wait_descriptor(k) EXCEPT !.next = 0], slice_descriptor, done_descriptor >>
MutantRamCopiesTooMany(k) ==
  << wait_descriptor(k), [slice_descriptor EXCEPT !.x_count = @ + 1],
     done_descriptor >>

ram_descriptors(k) == << wait_descriptor(k), slice_descriptor, done_descriptor >>

(* What the driver sends to DMA c: 0 is the MM2S one, k writes RAM k.      *)
Program(c) == IF c = 0 THEN <<desc_mm2s>> ELSE ram_descriptors(c)
=============================================================================
