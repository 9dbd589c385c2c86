---------------------------- MODULE DescriptorEngine ----------------------------
(***************************************************************************)
(* The data of one descriptor DMA (struct DMA in systemc/DMA.cc) and the   *)
(* pure functions its handlers apply to it.  Every one of the fourteen     *)
(* DMAs of the processor is a value of DmaState; the modules that hold     *)
(* such values decide when a function is applied.                          *)
(***************************************************************************)
EXTENDS Naturals, Sequences

CONSTANTS
  Word,     (* The modulus of unsigned arithmetic: 2^32 in the code.       *)
  Garbage   (* The descriptors that memory past the end of the descriptor
               vector may hold: the vector is indexed without a check.     *)

UInt == 0 .. (Word - 1)

Descriptor ==
  [next: UInt, start: UInt, state: UInt, x_count: UInt, x_modify: UInt]

ASSUME EngineAssumption ==
  /\ Word \in Nat
  /\ Word > 3
  /\ Garbage \subseteq Descriptor

SUSPENDED == 0
TRANSFER == 1
TRANSFER_WITH_FORWARD == 2
WAIT == 3

default_descriptor ==
  [next |-> 0, start |-> 0, state |-> SUSPENDED, x_count |-> 0, x_modify |-> 0]

DmaState ==
  [descriptors: Seq(Descriptor), execute_index: UInt, current_ram_index: UInt,
   x_count_remaining: UInt, descriptor_count: Nat]

(***************************************************************************)
(* The descriptors descriptors[i] may read: one inside the vector, and     *)
(* anything outside it.                                                    *)
(***************************************************************************)
Fetch(descriptors, i) ==
  IF i < Len(descriptors) THEN {descriptors[i + 1]} ELSE Garbage

Dma(ds, n, i, index, remaining) ==
  [descriptors |-> ds, descriptor_count |-> n, execute_index |-> i,
   current_ram_index |-> index, x_count_remaining |-> remaining]

(***************************************************************************)
(* The DMA with vector ds about to execute its descriptor number i, which  *)
(* reads as desc: the same three assignments end all three handlers.       *)
(***************************************************************************)
Enter(ds, n, i, desc) == Dma(ds, n, i, desc.start, desc.x_count)

(***************************************************************************)
(* update() while reset is high.  The mutants forget to rewind the         *)
(* descriptor index and the count of loaded descriptors.                   *)
(***************************************************************************)
MutantClearedKeepsIndex == Enter(<<default_descriptor>>, 0, 1, default_descriptor)
MutantClearedKeepsCount == Enter(<<default_descriptor>>, 1, 0, default_descriptor)

Cleared == Enter(<<default_descriptor>>, 0, 0, default_descriptor)

(***************************************************************************)
(* load_descriptor: the first one after a reset replaces the default       *)
(* descriptor and is entered, the others are appended.                     *)
(***************************************************************************)
Loaded(d, desc) ==
  IF d.descriptor_count = 0
    THEN Enter(<<desc>>, 1, 0, desc)
    ELSE Dma(Append(d.descriptors, desc), d.descriptor_count + 1,
             d.execute_index, d.current_ram_index, d.x_count_remaining)

(***************************************************************************)
(* Is the decrement of this update the one that ends the descriptor?  The  *)
(* mutant compares before it decrements.                                   *)
(***************************************************************************)
MutantLastCountOffByOne(d) == d.x_count_remaining = 0

LastCount(d) == d.x_count_remaining = 1

(***************************************************************************)
(* update() of an enabled DMA executing cur, where nxt is what             *)
(* descriptors[cur.next] reads.  The unsigned count wraps below zero.  The *)
(* mutant starts the same descriptor over instead of following next.       *)
(***************************************************************************)
MutantAdvancedIgnoresNext(d, cur, nxt) ==
  IF LastCount(d)
    THEN Enter(d.descriptors, d.descriptor_count, d.execute_index, cur)
    ELSE Dma(d.descriptors, d.descriptor_count, d.execute_index,
             IF cur.state = TRANSFER
               THEN (d.current_ram_index + cur.x_modify) % Word
               ELSE d.current_ram_index,
             (d.x_count_remaining + Word - 1) % Word)

Advanced(d, cur, nxt) ==
  IF LastCount(d)
    THEN Enter(d.descriptors, d.descriptor_count, cur.next, nxt)
    ELSE Dma(d.descriptors, d.descriptor_count, d.execute_index,
             IF cur.state = TRANSFER
               THEN (d.current_ram_index + cur.x_modify) % Word
               ELSE d.current_ram_index,
             (d.x_count_remaining + Word - 1) % Word)

(***************************************************************************)
(* Correctness: an enabled DMA about to be updated indexes its vector      *)
(* inside it, does not count below zero, and points into cells while it    *)
(* transfers.                                                              *)
(***************************************************************************)
WithinBounds(d, cells) ==
  LET cur == d.descriptors[d.execute_index + 1]
  IN  /\ d.execute_index < Len(d.descriptors)
      /\ cur.next < Len(d.descriptors)
      /\ cur.state # SUSPENDED => d.x_count_remaining > 0
      /\ cur.state = TRANSFER => d.current_ram_index \in cells
=============================================================================
