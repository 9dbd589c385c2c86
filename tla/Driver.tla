--------------------------------- MODULE Driver ---------------------------------
(***************************************************************************)
(* The test bench (user-apps/user_level_tb) against everything it talks    *)
(* to: the first AXI DMA copies the image out of the shared buffer into    *)
(* the source RAM, the processor filters it there, trans_finished starts   *)
(* the second AXI DMA, which copies the result back over the image and     *)
(* raises the interrupt that the UIO driver of the kernel hands to poll.   *)
(* Only the last step is waited for: the copy and the filter run side by   *)
(* side, and unmask_irq and wait_irq open the UIO file each for itself.    *)
(*                                                                         *)
(* The parts are the ones of DemoDma and Processor with their data         *)
(* abstracted to the run it belongs to: N cells of image, of which the     *)
(* result is filtered in M bursts.  The UIO driver is the kernel's: it     *)
(* masks the interrupt and counts an event; a file sees the events counted *)
(* since it was opened.                                                    *)
(***************************************************************************)
EXTENDS Naturals

CONSTANTS
  N,         (* The cells of the image.                                    *)
  M,         (* The bursts of the result.                                  *)
  MaxRuns    (* A bound: how often it is started.                          *)

ASSUME DriverAssumption ==
  /\ N \in Nat \ {0} /\ M \in 1 .. N
  /\ MaxRuns \in Nat

VARIABLES
  trigger, paced,   (* What the source leaves open: how the kernel takes the
                       line, and whether the first copy is always ahead of
                       the filter.                                         *)
  pc, run,          (* The test bench and its number.                      *)
  buffer,           (* The shared buffer, by cells.                        *)
  ram, copied,      (* The image in the source RAM; the first DMA's place. *)
  enable, read,     (* The processor: enabled, cells read since the reset, *)
  seen,             (* the runs whose images they were of,                 *)
  result,           (* the same of the result in the source RAM,           *)
  trans_finished,   (* and the signal of its loopback DMA.                 *)
  dma,              (* The second DMA.                                     *)
  line,             (* Its interrupt.                                      *)
  uio,              (* The UIO driver: masked, an edge not yet handled,
                       the events counted, and those the open file has
                       seen.                                               *)
  early, killed     (* History: an event of this run came before wait_irq
                       opened the file; the test bench has been killed.    *)

processor == <<enable, read, seen, result, trans_finished>>
open == <<trigger, paced, killed>>
vars == <<open, pc, run, buffer, ram, copied, processor, dma, line, uio, early>>

Run == 0 .. MaxRuns
Image(r) == [kind |-> "image", of |-> {r}]
Filtered(s) == [kind |-> "result", of |-> s]
Steps == {"down", "fill", "unmask", "program", "reset", "load", "start",
          "open", "poll", "stop", "compare"}

TypeOK ==
  /\ trigger \in {"edge", "level"} /\ paced \in BOOLEAN /\ killed \in BOOLEAN
  /\ pc \in Steps /\ run \in Run
  /\ buffer \in [1 .. N -> [kind: {"image", "result"}, of: SUBSET Run]]
  /\ ram \in [1 .. N -> SUBSET Run] /\ copied \in 0 .. N
  /\ enable \in BOOLEAN /\ trans_finished \in BOOLEAN
  /\ read \in 0 .. N /\ seen \subseteq Run /\ result \subseteq Run
  /\ dma \in [run: BOOLEAN, done: BOOLEAN, left: 0 .. M, delay: BOOLEAN]
  /\ line \in BOOLEAN /\ early \in BOOLEAN
  /\ uio \in [masked: BOOLEAN, edge: BOOLEAN, events: Nat, seen: Nat]
  /\ uio.seen <= uio.events

Init ==
  /\ trigger \in {"edge", "level"} /\ paced \in BOOLEAN /\ killed = FALSE
  /\ pc = "down" /\ run = 0
  /\ buffer = [i \in 1 .. N |-> Image(0)]
  /\ ram = [i \in 1 .. N |-> {0}] /\ copied = N
  /\ enable = FALSE /\ trans_finished = FALSE
  /\ read = 0 /\ seen = {} /\ result = {}
  /\ dma = [run |-> FALSE, done |-> FALSE, left |-> 0, delay |-> FALSE]
  /\ line = FALSE /\ early = FALSE
  /\ uio = [masked |-> TRUE, edge |-> FALSE, events |-> 0, seen |-> 0]

-----------------------------------------------------------------------------
(* The hardware.                                                           *)

Burst1 ==
  /\ copied < N
  /\ copied' = copied + 1
  /\ ram' = [ram EXCEPT ![copied'] = buffer[copied'].of]
  /\ UNCHANGED <<open, pc, run, buffer, processor, dma, line, uio, early>>

(* The mutant starts the copy of the result with its first element.        *)
MutantFilterFinishesEarly ==
  /\ enable /\ read < N /\ (paced => read < copied)
  /\ read' = read + 1
  /\ seen' = seen \cup ram[read']
  /\ trans_finished' = TRUE
  /\ result' = IF read' = N THEN seen' ELSE result
  /\ dma' = IF ~trans_finished THEN [dma EXCEPT !.run = TRUE, !.done = FALSE]
                               ELSE dma
  /\ UNCHANGED <<open, pc, run, buffer, ram, copied, enable, line, uio,
                 early>>

(* The processor reads a cell; with the last one the result is recorded,   *)
(* trans_finished rises and starts the second DMA.                         *)
Filter ==
  /\ enable /\ read < N /\ (paced => read < copied)
  /\ read' = read + 1
  /\ seen' = seen \cup ram[read']
  /\ IF read' = N
       THEN /\ trans_finished' = TRUE /\ result' = seen'
            /\ dma' = IF trans_finished
                        THEN dma ELSE [dma EXCEPT !.run = TRUE, !.done = FALSE]
       ELSE UNCHANGED <<trans_finished, result, dma>>
  /\ UNCHANGED <<open, pc, run, buffer, ram, copied, enable, line, uio,
                 early>>

Raise(up) ==
  /\ line' = up
  /\ uio' = [uio EXCEPT !.edge = (trigger = "edge" /\ up /\ ~line) \/ @]

(* do_dma_copy of the second DMA, a burst or a delay at a time.            *)
Burst2 ==
  /\ dma.run /\ ~dma.delay
  /\ buffer' = [i \in 1 .. N |->
                  IF dma.left > 0 /\ i = M - dma.left + 1 THEN Filtered(result)
                                                          ELSE buffer[i]]
  /\ LET left == IF dma.left > 0 THEN dma.left - 1 ELSE 0
     IN  IF left = 0
           THEN /\ dma' = [run |-> FALSE, done |-> TRUE, left |-> 0, delay |-> FALSE]
                /\ Raise(TRUE)
           ELSE /\ dma' = [dma EXCEPT !.left = left, !.delay = TRUE]
                /\ UNCHANGED <<line, uio>>
  /\ UNCHANGED <<open, pc, run, ram, copied, processor, early>>

DelayEnds2 ==
  /\ dma.delay
  /\ dma' = [dma EXCEPT !.delay = FALSE]
  /\ Raise(dma.done)
  /\ UNCHANGED <<open, pc, run, buffer, ram, copied, processor, early>>

(* The UIO driver's interrupt handler.                                     *)
Interrupt ==
  /\ ~uio.masked
  /\ IF trigger = "level" THEN line ELSE uio.edge
  /\ uio' = [uio EXCEPT !.masked = TRUE, !.edge = FALSE, !.events = @ + 1]
  /\ early' = (early \/ pc \in {"program", "reset", "load", "start", "open"})
  /\ UNCHANGED <<open, pc, run, buffer, ram, copied, processor, dma, line>>

-----------------------------------------------------------------------------
(* The test bench.                                                         *)

Goes(from, to) == pc = from /\ pc' = to

Start ==
  /\ Goes("down", "fill") /\ run < MaxRuns
  /\ run' = run + 1
  /\ early' = FALSE
  /\ UNCHANGED <<open, buffer, ram, copied, processor, dma, line, uio>>

Fill ==
  /\ Goes("fill", "unmask")
  /\ buffer' = [i \in 1 .. N |-> Image(run)]
  /\ UNCHANGED <<open, run, ram, copied, processor, dma, line, uio, early>>

(* The mutant takes the events counted back.                               *)
Mutantunmask_irqClears ==
  /\ Goes("unmask", "program")
  /\ uio' = [uio EXCEPT !.masked = FALSE, !.events = 0]
  /\ UNCHANGED <<open, run, buffer, ram, copied, processor, dma, line, early>>

(* Opens the file, writes one to it and closes it.                         *)
unmask_irq ==
  /\ Goes("unmask", "program")
  /\ uio' = [uio EXCEPT !.masked = FALSE]
  /\ UNCHANGED <<open, run, buffer, ram, copied, processor, dma, line, early>>

(* Sets the second DMA up and starts the first.                            *)
program_axi_dmas ==
  /\ Goes("program", "reset")
  /\ dma' = [dma EXCEPT !.left = M]
  /\ copied' = 0
  /\ UNCHANGED <<open, run, buffer, ram, processor, line, uio, early>>

(* The mutant leaves the signal of the last result up.                     *)
MutantResetKeepsFinished ==
  /\ Goes("reset", "load")
  /\ read' = 0 /\ seen' = {}
  /\ UNCHANGED <<open, run, buffer, ram, copied, enable, result,
                 trans_finished, dma, line, uio, early>>

(* Reset lowers trans_finished, on which the second DMA stops, with DONE.  *)
reset ==
  /\ Goes("reset", "load")
  /\ read' = 0 /\ seen' = {} /\ trans_finished' = FALSE
  /\ dma' = IF trans_finished THEN [dma EXCEPT !.run = FALSE, !.done = TRUE]
                              ELSE dma
  /\ UNCHANGED <<open, run, buffer, ram, copied, enable, result, line, uio,
                 early>>

Load ==
  /\ Goes("load", "start")
  /\ UNCHANGED <<open, run, buffer, ram, copied, processor, dma, line, uio,
                 early>>

start_processor ==
  /\ Goes("start", "open")
  /\ enable' = TRUE
  /\ UNCHANGED <<open, run, buffer, ram, copied, read, seen, result,
                 trans_finished, dma, line, uio, early>>

(* setup_irq in wait_irq: a new file, which has seen every event so far.   *)
OpenUio ==
  /\ Goes("open", "poll")
  /\ uio' = [uio EXCEPT !.seen = uio.events]
  /\ UNCHANGED <<open, run, buffer, ram, copied, processor, dma, line, early>>

(* poll and read.                                                          *)
wait_irq ==
  /\ Goes("poll", "stop")
  /\ uio.events # uio.seen
  /\ uio' = [uio EXCEPT !.seen = uio.events]
  /\ UNCHANGED <<open, run, buffer, ram, copied, processor, dma, line, early>>

stop_processor ==
  /\ Goes("stop", "compare")
  /\ enable' = FALSE
  /\ UNCHANGED <<open, run, buffer, ram, copied, read, seen, result,
                 trans_finished, dma, line, uio, early>>

Compare ==
  /\ Goes("compare", "down")
  /\ UNCHANGED <<open, run, buffer, ram, copied, processor, dma, line, uio,
                 early>>

Kill ==
  /\ pc # "down" /\ pc' = "down"
  /\ killed' = TRUE
  /\ UNCHANGED <<trigger, paced, run, buffer, ram, copied, processor, dma, line, uio,
                 early>>

Hardware == Burst1 \/ Filter \/ Burst2 \/ DelayEnds2 \/ Interrupt
TestBench ==
  \/ Start \/ Fill \/ unmask_irq \/ program_axi_dmas \/ reset \/ Load
  \/ start_processor \/ OpenUio \/ wait_irq \/ stop_processor \/ Compare

Next == Hardware \/ TestBench \/ Kill

(* Simulated time passes, the kernel runs and so does the program.         *)
Fairness ==
  /\ WF_vars(Burst1) /\ WF_vars(Filter) /\ WF_vars(Burst2)
  /\ WF_vars(DelayEnds2) /\ WF_vars(Interrupt) /\ WF_vars(TestBench)

Spec == Init /\ [][Next]_vars /\ Fairness

-----------------------------------------------------------------------------
(* Correctness.                                                            *)

(***************************************************************************)
(* When the test bench compares, the shared buffer holds the result of the *)
(* image of this run and nothing of an earlier one, although nobody waited *)
(* for either copy and the result has replaced the image (test_bench.c     *)
(* 38-81).  It takes an interrupt that is an edge, a first copy that stays *)
(* ahead of the filter and no test bench that was killed before.           *)
(***************************************************************************)
ComparesThisResult ==
  pc = "compare" /\ trigger = "edge" /\ paced /\ ~killed =>
    \A i \in 1 .. M : buffer[i] = Filtered({run})

(***************************************************************************)
(* wait_irq returns, unless the interrupt came before it opened the file   *)
(* (user_lvl_driver.c 254-312): the result always arrives and poll sees    *)
(* it.                                                                     *)
(***************************************************************************)
WaitReturns == pc = "poll" ~> pc # "poll" \/ early

(***************************************************************************)
(* user_lvl_driver.c:287 "setup and unmask irq": wait_irq sets the         *)
(* interrupt up for itself, so the processor that was started before it is *)
(* always waited for successfully.  It opens the file only, which hides an *)
(* interrupt that came earlier and leaves it masked.                       *)
(***************************************************************************)
WaitAlwaysReturns == pc = "poll" ~> pc = "stop"
=============================================================================
