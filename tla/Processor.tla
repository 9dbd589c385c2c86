------------------------------- MODULE Processor -------------------------------
(***************************************************************************)
(* The processor (struct Processor, systemc/Processor.h): the memory       *)
(* hierarchy fills the three slice RAMs, the compute array reads them, and *)
(* the loopback DMA records the stream it produces behind the image in the *)
(* source RAM.  When it is done its trans_finished starts the AXI DMA that *)
(* carries the result to the host.  The fourteen DMAs share a clock, reset *)
(* and enable, and nothing else orders them.                               *)
(*                                                                         *)
(* LEFT and RIGHT are the handlers of MemoryHierarchy and SystolicArray,   *)
(* run at the same clock edge on the same RAMs.  The driver takes the      *)
(* steps of the test bench in its order: reset, all descriptors, all       *)
(* weights, start, stop; it does not pause, and dies only with the         *)
(* processor disabled.                                                     *)
(***************************************************************************)
EXTENDS Descriptors, Integers, FiniteSetsExt

CONSTANTS
  groupCount, peArraySize, IMAGE_WIDTH, kernel, Uninitialised, MaxEdges,
  Images, Pixel, RamSize, Indeterminate,
  RESULT,        (* Where the result starts in the source RAM: 512.        *)
  MaxRuns        (* A bound: the resets of one behaviour.                  *)

branchCount == 3

VARIABLES
  left, stream_bus, ram, lost,                            (* of LEFT       *)
  right, pixelInBus, pe, psumFirst, cloudFirst, weight, edges, (* of RIGHT *)
  loopback,        (* The loopback DMA.                                    *)
  trans_finished,  (* Its signal to the AXI DMA.                           *)
  output,          (* The source RAM from RESULT on.                       *)
  image,           (* The source RAM below.                                *)
  reset, enable,   (* The MMR signals.                                     *)
  pc, sent,        (* The driver's progress.                               *)
  runs             (* The resets so far, for the bound.                    *)

(* What the compute array sees of the RAMs.                                *)
slices == [b \in 1 .. branchCount |-> [i \in 0 .. IMAGE_SIZE - 1 |-> ram[b][i]]]

Left == INSTANCE MemoryHierarchy WITH dma <- left, Zero <- 0
Right == INSTANCE SystolicArray
           WITH dma <- right, slice <- slices,
                Slices <- {[b \in 1 .. branchCount |->
                              [i \in 0 .. IMAGE_SIZE - 1 |-> 0]]}

(* What the constants must be: those of both parts, and a source RAM in    *)
(* which image and result do not overlap.                                  *)
ASSUME ProcessorAssumption ==
  /\ Right!ArrayConstants
  /\ Images \subseteq [0 .. BIG_RAM_SIZE - 1 -> Pixel] /\ Pixel \subseteq Int
  /\ Indeterminate \subseteq UInt
  /\ {RESULT, MaxRuns, RamSize} \subseteq Nat
  /\ RESULT >= BIG_RAM_SIZE
  /\ RESULT + IMAGE_SIZE < Word
  /\ IMAGE_SIZE % IMAGE_WIDTH = 0
  /\ RamSize >= IMAGE_SIZE + (groupCount - 1) * IMAGE_WIDTH
  /\ RamSize < Word

left_vars == <<left, stream_bus, ram, lost>>
right_vars == <<right, pixelInBus, pe, psumFirst, cloudFirst, edges>>
loopback_vars == <<loopback, trans_finished, output>>
hardware == <<left_vars, right_vars, loopback_vars>>
vars == <<hardware, weight, image, reset, enable, pc, sent, runs>>

OutputCell == RESULT .. RESULT + IMAGE_SIZE - 1

TypeOK ==
  /\ Left!TypeOK
  /\ right \in [Right!Group -> DmaState]
  /\ pixelInBus \in [Right!Group -> Pixel]
  /\ pe \in [Right!Group -> [Right!Stage -> Int]]
  /\ psumFirst \in [Right!Group -> Int]
  /\ cloudFirst \in [Right!Branch -> Int]
  /\ weight \in [Right!Group -> [Right!Stage -> Int]]
  /\ edges \in 0 .. MaxEdges
  /\ sent \in 0 .. branchCount * groupCount
  /\ loopback \in DmaState
  /\ trans_finished \in BOOLEAN
  /\ output \in [OutputCell -> Int]
  /\ runs \in 0 .. MaxRuns

Init ==
  /\ Left!Init
  /\ Right!Init
  /\ loopback = Dma(<<>>, 0, 0, 0, 0)
  /\ trans_finished = FALSE
  /\ output = [i \in OutputCell |-> 0]
  /\ runs = 0

-----------------------------------------------------------------------------
(* The loopback DMA: S2MM from the stream of the compute array.            *)

LoopbackProgram(first, wait) ==
  << [next |-> first, start |-> 0, state |-> WAIT, x_count |-> wait,
      x_modify |-> 1],
     [next |-> 2, start |-> RESULT, state |-> TRANSFER,
      x_count |-> IMAGE_SIZE, x_modify |-> 1],
     [done_descriptor EXCEPT !.next = 2] >>

(* The mutants wait one edge too few, go back to the wait instead of to    *)
(* the transfer, and record one cell more.                                 *)
MutantLoopbackEarlier == LoopbackProgram(1, BIG_RAM_SIZE + Right!Stages - 1)
MutantLoopbackWaits == LoopbackProgram(0, BIG_RAM_SIZE + Right!Stages)
MutantLoopbackTooMany ==
  [LoopbackProgram(1, BIG_RAM_SIZE + Right!Stages) EXCEPT ![2].x_count = @ + 1]

loopback_descriptors == LoopbackProgram(1, BIG_RAM_SIZE + Right!Stages)

Executing == loopback.descriptors[loopback.execute_index + 1]
Active == enable /\ Executing.state # SUSPENDED
Recording == Active /\ Executing.state = TRANSFER

(* The mutant reports the end of any descriptor.                           *)
MutantFinishAfterWait ==
  IF Active THEN LastCount(loopback) ELSE trans_finished

Finish ==
  IF Active
    THEN LastCount(loopback) /\ Executing.state = TRANSFER
    ELSE trans_finished

LoopbackReset ==
  /\ loopback' = Cleared
  /\ trans_finished' = FALSE
  /\ UNCHANGED output

LoopbackRun ==
  /\ loopback' =
       IF Active
         THEN Advanced(loopback, Executing, loopback.descriptors[Executing.next + 1])
         ELSE loopback
  /\ trans_finished' = Finish
  /\ output' = IF Recording
                 THEN [output EXCEPT ![loopback.current_ram_index] = Right!streamOut]
                 ELSE output

-----------------------------------------------------------------------------
(* All update methods at one edge of the clock or of reset: each reads the *)
(* signals as they were before it.                                         *)

UpdateReset == Left!UpdateReset /\ Right!UpdateReset /\ LoopbackReset
UpdateRun == Left!UpdateRun /\ Right!UpdateRun /\ LoopbackRun

Clock ==
  /\ IF reset THEN UpdateReset ELSE UpdateRun
  /\ UNCHANGED <<weight, image, reset, enable, pc, sent, runs>>

-----------------------------------------------------------------------------
(* The driver.                                                             *)

(* The source RAM is filled before a reset.                                *)
AssertReset ==
  /\ pc \in {"idle", "stopped"}
  /\ runs < MaxRuns
  /\ runs' = runs + 1
  /\ pc' = "resetting"
  /\ image' \in Images
  /\ reset' = TRUE
  /\ IF reset THEN UNCHANGED hardware ELSE UpdateReset
  /\ sent' = 0
  /\ UNCHANGED <<weight, enable>>

ReleaseReset ==
  /\ pc = "resetting"
  /\ pc' = "loading"
  /\ reset' = FALSE
  /\ UpdateRun
  /\ UNCHANGED <<weight, image, enable, sent, runs>>

LeftLoaded == \A c \in Left!Channel : Left!Complete(c)
RightLoaded == \A k \in Right!Group : Right!Complete(k)
LoopbackLoaded == loopback.descriptor_count = Len(loopback_descriptors)

(* send_all_descriptors: LEFT, RIGHT, and the loopback last.               *)
LoadLeft ==
  /\ \E c \in Left!Channel : Left!LoadDescriptor(c)
  /\ UNCHANGED <<right_vars, loopback_vars, weight, sent, runs>>

LoadRight ==
  /\ LeftLoaded
  /\ UNCHANGED <<left_vars, loopback_vars, image, runs>>
  /\ \E k \in Right!Group : Right!LoadDescriptor(k)

LoadLoopback ==
  /\ pc = "loading"
  /\ RightLoaded
  /\ ~LoopbackLoaded
  /\ loopback' =
       Loaded(loopback, loopback_descriptors[loopback.descriptor_count + 1])
  /\ UNCHANGED <<left_vars, right_vars, trans_finished, output, weight, image,
                 reset, enable, pc, sent, runs>>

(* send_all_weights.                                                       *)
LoadWeights ==
  /\ LoopbackLoaded
  /\ UNCHANGED <<left_vars, loopback_vars, image, runs>>
  /\ \E k \in Right!Group : Right!LoadWeights(k)

StartProcessor ==
  /\ pc = "loading"
  /\ sent = branchCount * groupCount
  /\ pc' = "running"
  /\ enable' = TRUE
  /\ UNCHANGED <<hardware, weight, image, reset, sent, runs>>

StopProcessor ==
  /\ pc = "running"
  /\ pc' = "stopped"
  /\ enable' = FALSE
  /\ UNCHANGED <<hardware, weight, image, reset, sent, runs>>

(* The driver dies, while it has the processor disabled.                   *)
Abort ==
  /\ pc \in {"resetting", "loading", "stopped"}
  /\ pc' = "idle"
  /\ UNCHANGED <<hardware, weight, image, reset, enable, sent, runs>>

Next ==
  \/ Clock
  \/ AssertReset
  \/ ReleaseReset
  \/ LoadLeft
  \/ LoadRight
  \/ LoadLoopback
  \/ LoadWeights
  \/ StartProcessor
  \/ StopProcessor
  \/ Abort

(* The simulation never stops its clock.                                   *)
Spec == Init /\ [][Next]_vars /\ WF_vars(Clock)

-----------------------------------------------------------------------------
(* Correctness.                                                            *)

(***************************************************************************)
(* No DMA of the enabled processor indexes its vector past the end, counts *)
(* below zero, or leaves its RAM: the array stays in the slices and their  *)
(* padding, the loopback in the result (DMA.cc 131-179).                   *)
(***************************************************************************)
AccessesInside ==
  /\ Left!AccessesInside
  /\ enable =>
       /\ \A k \in Right!Group : WithinBounds(right[k], 0 .. RamSize - 1)
       /\ WithinBounds(loopback, OutputCell)

(* The image is three planes of rows of pixels.                            *)
IMAGE_HEIGHT == IMAGE_SIZE \div IMAGE_WIDTH
At(b, row, col) == image[(b - 1) * IMAGE_SIZE + row * IMAGE_WIDTH + col]

(***************************************************************************)
(* The convolution of the planes with the kernel at a pixel where all of   *)
(* the kernel lies on the image: what the accelerator is for.  Group row   *)
(* dr of a branch holds the weights of row dr of the kernel.               *)
(***************************************************************************)
Filtered(row, col) ==
  LET Term(t) ==
        kernel[(t[1] - 1) * groupCount + t[2] + 1][t[3] + 1]
          * At(t[1], row + t[2], col + t[3])
  IN  MapThenSumSet(Term, (1 .. branchCount) \X (0 .. groupCount - 1)
                            \X (0 .. peArraySize - 1))

Recorded ==
  IF ~LoopbackLoaded \/ loopback.execute_index = 0 THEN 0
  ELSE IF loopback.execute_index = 1
    THEN IMAGE_SIZE - loopback.x_count_remaining
    ELSE IMAGE_SIZE

(***************************************************************************)
(* Every pixel of the filtered image that has been recorded is in its cell *)
(* of the result, one cell behind where its row and column would put it:   *)
(* the chain of WAIT counts from the source RAM over the slices and the    *)
(* array to the loopback fits (descriptors.h 42-124), whatever was stopped *)
(* half way before.  The cells in between hold sums that mix two rows.     *)
(***************************************************************************)
ResultIsFiltered ==
  \A row \in 0 .. IMAGE_HEIGHT - groupCount :
    \A col \in 0 .. IMAGE_WIDTH - peArraySize :
      LET n == row * IMAGE_WIDTH + col + 1
      IN  n < Recorded => output[RESULT + n] = Filtered(row, col)

(***************************************************************************)
(* At every edge at which the compute array reads a cell of a slice, the   *)
(* memory hierarchy has written that cell at an earlier edge of this run:  *)
(* no stale pixel, and no access that depends on which of two methods the  *)
(* simulator calls first at an edge (DMA.cc 135, 142).                     *)
(***************************************************************************)
ReadersFollowWriters ==
  pc = "running" =>
    \A k \in Right!Group :
      LET d == right[k]
          cell == Offset(Right!BranchOf(k)) + d.current_ram_index
      IN  (Right!Executing(d).state = TRANSFER /\ d.current_ram_index < IMAGE_SIZE)
            => cell < Left!Copied

(***************************************************************************)
(* The AXI DMA is not started before the whole result is there.            *)
(***************************************************************************)
FinishedMeansRecorded == trans_finished => Recorded = IMAGE_SIZE

(***************************************************************************)
(* The first cell of the result is the first pixel of the filtered image,  *)
(* as the test bench expects (test_bench.c 15 and 87).  It is not.         *)
(***************************************************************************)
ResultStartsWithFirstPixel ==
  trans_finished => output[RESULT] = Filtered(0, 0)

(***************************************************************************)
(* Once started, the processor reports a result unless it is stopped.      *)
(***************************************************************************)
ResultArrives == enable ~> (~enable \/ trans_finished)
=============================================================================
