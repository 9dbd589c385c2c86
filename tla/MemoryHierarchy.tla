---------------------------- MODULE MemoryHierarchy ----------------------------
(***************************************************************************)
(* The memory hierarchy of the processor (struct LEFT): an MM2S DMA puts   *)
(* the source RAM on the stream bus, and three S2MM DMAs cut it into three *)
(* slices, each by waiting for its turn.  Nothing synchronises the four:   *)
(* no valid or ready signal, no pixel number; a slice is right only if the *)
(* WAIT counts of the descriptors match the latency of the bus, which      *)
(* shows at one clock edge what was written at the edge before.            *)
(*                                                                         *)
(* The driver is that of DmaChannel, extended by the pause that            *)
(* stop_processor and start_processor make possible in mid copy.  It never *)
(* enables the DMAs before all are loaded (a driver that dies with the     *)
(* processor enabled is a matter of DmaChannel), so a vector is never      *)
(* indexed past its end.                                                   *)
(***************************************************************************)
EXTENDS Descriptors

CONSTANTS
  Images,    (* The contents the source RAM may have.                      *)
  Pixel,     (* The values of a cell.                                      *)
  Zero,      (* The pixel zero: the RAMs hold it at first.                 *)
  RamSize,   (* The cells of a slice RAM: a slice and some padding.        *)
  Indeterminate  (* What an uninitialised unsigned member may hold.        *)

ASSUME HierarchyAssumption ==
  /\ Images \subseteq [0 .. BIG_RAM_SIZE - 1 -> Pixel]
  /\ Zero \in Pixel
  /\ RamSize \in Nat
  /\ SMALL_RAM_SIZE <= RamSize
  /\ Indeterminate \subseteq UInt

Slice == 1 .. 3
Channel == 0 .. 3

VARIABLES
  dma,             (* The four DMAs.                                       *)
  stream_bus,      (* The signal between them.                             *)
  ram,             (* The three slice RAMs.                                *)
  image,           (* The content of the source RAM.                       *)
  reset, enable,   (* The MMR signals.                                     *)
  pc,              (* What the driver has done last.                       *)
  lost             (* History: pixels of this run that were on the bus at
                      an edge at which the processor was disabled.         *)

hardware == <<dma, stream_bus, ram, lost>>
vars == <<hardware, image, reset, enable, pc>>

-----------------------------------------------------------------------------
(* How far the copy is: the number of clock edges it has run for, which    *)
(* the last of the slices to be written still counts, and the number of    *)
(* pixels that have been written.                                          *)

AllEdges == BIG_RAM_SIZE + 1

EdgesOf(d) ==
  IF d.descriptor_count # Len(Program(3)) THEN 0
  ELSE IF d.execute_index = 0 THEN 1 + Offset(3) - d.x_count_remaining
  ELSE IF d.execute_index = 1 THEN AllEdges - d.x_count_remaining
  ELSE AllEdges

Elapsed == EdgesOf(dma[3])

Copied == IF Elapsed = 0 THEN 0 ELSE Elapsed - 1

TypeOK ==
  /\ dma \in [Channel -> DmaState]
  /\ stream_bus \in Pixel
  /\ ram \in [Slice -> [0 .. RamSize - 1 -> Pixel]]
  /\ image \in Images
  /\ reset \in BOOLEAN
  /\ enable \in BOOLEAN
  /\ pc \in {"idle", "resetting", "loading", "running", "stopped"}
  /\ lost \subseteq 0 .. BIG_RAM_SIZE - 1

Init ==
  /\ \E i, x, n \in [Channel -> Indeterminate] :
       dma = [c \in Channel |-> Dma(<<>>, 0, i[c], x[c], n[c])]
  /\ stream_bus = Zero
  /\ ram = [k \in Slice |-> [i \in 0 .. RamSize - 1 |-> Zero]]
  /\ image \in Images
  /\ reset = FALSE
  /\ enable = FALSE
  /\ pc = "idle"
  /\ lost = {}

-----------------------------------------------------------------------------
(* One run of the four update() methods, in one delta cycle: each reads    *)
(* the bus as it was before any of them writes it.                         *)

Executing(d) == d.descriptors[d.execute_index + 1]
Active(d) == enable /\ Executing(d).state # SUSPENDED
Transferring(d) == Active(d) /\ Executing(d).state = TRANSFER

Stepped(d) ==
  IF Active(d)
    THEN Advanced(d, Executing(d), d.descriptors[Executing(d).next + 1])
    ELSE d

(* The mutant does not dereference the pointer into the source RAM.        *)
MutantOnBusSendsIndex(d) ==
  IF Transferring(d) THEN d.current_ram_index ELSE Zero

OnBus(d) == IF Transferring(d) THEN image[d.current_ram_index] ELSE Zero

(* The mutant moves the index before it writes.                            *)
MutantWrittenLate(d, cells) ==
  IF Transferring(d)
    THEN [cells EXCEPT ![d.current_ram_index + 1] = stream_bus]
    ELSE cells

Written(d, cells) ==
  IF Transferring(d)
    THEN [cells EXCEPT ![d.current_ram_index] = stream_bus]
    ELSE cells

InFlight == IF Elapsed \in 1 .. BIG_RAM_SIZE THEN {Copied} ELSE {}

UpdateReset ==
  /\ dma' = [c \in Channel |-> Cleared]
  /\ lost' = {}
  /\ UNCHANGED <<stream_bus, ram>>

UpdateRun ==
  /\ dma' = [c \in Channel |-> Stepped(dma[c])]
  /\ stream_bus' = OnBus(dma[0])
  /\ ram' = [k \in Slice |-> Written(dma[k], ram[k])]
  /\ lost' = IF enable THEN lost ELSE lost \cup InFlight

Clock ==
  /\ IF reset THEN UpdateReset ELSE UpdateRun
  /\ UNCHANGED <<image, reset, enable, pc>>

-----------------------------------------------------------------------------
(* The driver.                                                             *)

(* The source RAM is filled before a reset, when nothing reads it.         *)
AssertReset ==
  /\ pc \in {"idle", "stopped"}
  /\ pc' = "resetting"
  /\ image' \in Images
  /\ reset' = TRUE
  /\ IF reset THEN UNCHANGED hardware ELSE UpdateReset
  /\ UNCHANGED enable

ReleaseReset ==
  /\ pc = "resetting"
  /\ pc' = "loading"
  /\ reset' = FALSE
  /\ UpdateRun
  /\ UNCHANGED <<image, enable>>

Complete(c) == dma[c].descriptor_count = Len(Program(c))

LoadDescriptor(c) ==
  /\ pc = "loading"
  /\ ~Complete(c)
  /\ \A b \in 0 .. c - 1 : Complete(b)
  /\ dma' = [dma EXCEPT ![c] =
               Loaded(@, Program(c)[dma[c].descriptor_count + 1])]
  /\ UNCHANGED <<stream_bus, ram, lost, image, reset, enable, pc>>

StartProcessor ==
  /\ \/ pc = "loading" /\ \A c \in Channel : Complete(c)
     \/ pc = "stopped"
  /\ pc' = "running"
  /\ enable' = TRUE
  /\ UNCHANGED <<hardware, image, reset>>

StopProcessor ==
  /\ pc = "running"
  /\ pc' = "stopped"
  /\ enable' = FALSE
  /\ UNCHANGED <<hardware, image, reset>>

(* The driver dies, while it has the processor disabled.                   *)
Abort ==
  /\ pc \in {"resetting", "loading", "stopped"}
  /\ pc' = "idle"
  /\ UNCHANGED <<hardware, image, reset, enable>>

Next ==
  \/ Clock
  \/ AssertReset
  \/ ReleaseReset
  \/ \E c \in Channel : LoadDescriptor(c)
  \/ StartProcessor
  \/ StopProcessor
  \/ Abort

(* The simulation never stops its clock.                                   *)
Spec == Init /\ [][Next]_vars /\ WF_vars(Clock)

-----------------------------------------------------------------------------
(* Correctness.                                                            *)

(***************************************************************************)
(* No DMA of an enabled hierarchy indexes its vector or a RAM past the     *)
(* end, nor the padding behind a slice, and no count wraps below zero: the *)
(* code checks none of the three (DMA.cc 131-179).                         *)
(***************************************************************************)
AccessesInside ==
  enable =>
    /\ WithinBounds(dma[0], 0 .. BIG_RAM_SIZE - 1)
    /\ \A k \in Slice : WithinBounds(dma[k], 0 .. SMALL_RAM_SIZE - 1)

(***************************************************************************)
(* Every pixel that has been written is in the cell of the slice it        *)
(* belongs to, whatever pauses, resets, driver deaths and earlier images   *)
(* came before: the counts of the three WAIT descriptors fit the latency   *)
(* of the bus (descriptors.h 58-76, DMA.cc 131-147).  A pause blanks the   *)
(* one pixel that is on the bus and no other.                              *)
(***************************************************************************)
SlicesFaithful ==
  \A k \in Slice : \A i \in 0 .. SMALL_RAM_SIZE - 1 :
    LET p == Offset(k) + i
    IN  p < Copied =>
          \/ ram[k][i] = image[p]
          \/ ram[k][i] = Zero /\ p \in lost

(***************************************************************************)
(* The four unsynchronised DMAs implement a copy in order: no pixel is     *)
(* dealt twice, out of turn or to a cell of another one.                   *)
(***************************************************************************)
Copy == INSTANCE OrderedCopy
          WITH Size <- SMALL_RAM_SIZE, Blank <- Zero, copied <- Copied

CopiesInOrder == Copy!Spec

(***************************************************************************)
(* Once started, the copy is finished unless the processor is stopped.     *)
(***************************************************************************)
CopyCompletes == enable ~> (~enable \/ Copied = BIG_RAM_SIZE)
=============================================================================
