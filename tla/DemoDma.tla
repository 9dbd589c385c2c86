-------------------------------- MODULE DemoDma --------------------------------
(***************************************************************************)
(* The AXI DMA of the platform (class demodma): the software copies an     *)
(* image into the accelerator with one of them, and the accelerator starts *)
(* the other one to copy the result back.                                  *)
(*                                                                         *)
(* Three processes share its registers: do_dma_copy, a thread that moves   *)
(* one burst at a time; b_transport, which runs in the thread of the       *)
(* software's bus access; and enable_transfer, which runs on an edge of    *)
(* transfer_ready.  They are coroutines, so a step of one of them runs to  *)
(* the next point at which it gives up control: a bus transaction (the bus *)
(* leads out of the simulation and may wait), wait(1 us) and wait(event).  *)
(*                                                                         *)
(* Bytes are symbolic: written holds the pairs <<destination, source>>     *)
(* that the run in progress has copied.  The byte enables are left zero.   *)
(***************************************************************************)
EXTENDS Naturals

CONSTANTS
  Word,             (* The modulus of unsigned arithmetic: 2^32.           *)
  Burst,            (* The bytes of the buffer: 32.                        *)
  Jobs,             (* The copies the software may program.                *)
  MaxPrograms,      (* Bound: how often the software programs it.          *)
  MaxChanges        (* Bound: edges of transfer_ready.                     *)

UInt == 0 .. (Word - 1)
Job == [src_addr: UInt, dst_addr: UInt, len: UInt]

ASSUME DemoDmaAssumption ==
  /\ Word \in Nat
  /\ Burst \in Nat \ {0}
  /\ Burst < Word
  /\ Jobs \subseteq Job
  /\ MaxPrograms \in Nat
  /\ MaxChanges \in Nat

VARIABLES
  regs,            (* The addresses and the length, as they count.         *)
  run, done,       (* The bits RUN and DONE of regs.ctrl.                  *)
  irq,             (* The interrupt signal.                                *)
  ev_dma_copy,     (* The event has been notified and has not occurred.    *)
  thread,          (* Where do_dma_copy is waiting.                        *)
  burst,           (* Its locals: what it reads or writes, and how much.   *)
  hardware_started,  (* transfer_ready, and not the software, starts it.   *)
  transfer_ready,  (* The signal from the loopback DMA.                    *)
  software,        (* What the software writes next.                       *)
  planned,         (* The copy it is programming.                          *)
  programs, changes,  (* The counters of the two bounds.                   *)
  job,             (* History: the registers when RUN was last set.        *)
  written,         (* History: what has been copied since.                 *)
  clobbered        (* History: the software wrote an address or the length
                      of a copy that was going on.                         *)

copying == <<burst, written>>
control == <<run, done, job>>
environment == <<hardware_started, transfer_ready, software, planned,
                 programs, changes>>
vars == <<regs, irq, ev_dma_copy, thread, copying, control, environment,
          clobbered>>

TypeOK ==
  /\ regs \in Job
  /\ run \in BOOLEAN /\ done \in BOOLEAN
  /\ irq \in BOOLEAN
  /\ ev_dma_copy \in BOOLEAN
  /\ thread \in {"not started", "waiting", "reading", "writing", "delay"}
  /\ burst \in [from: UInt, to: UInt, tlen: 0 .. Burst]
  /\ hardware_started \in BOOLEAN
  /\ transfer_ready \in BOOLEAN
  /\ software \in {"idle", "dst", "src", "len", "ctrl", "speculating"}
  /\ planned \in Jobs
  /\ programs \in 0 .. MaxPrograms
  /\ changes \in 0 .. MaxChanges
  /\ job \in Job
  /\ written \subseteq UInt \X UInt
  /\ clobbered \in BOOLEAN

Init ==
  /\ regs = [src_addr |-> 0, dst_addr |-> 0, len |-> 0]
  /\ run = FALSE /\ done = FALSE
  /\ irq = FALSE
  /\ ev_dma_copy = FALSE
  /\ thread = "not started"
  /\ burst = [from |-> 0, to |-> 0, tlen |-> 0]
  /\ hardware_started \in BOOLEAN
  /\ transfer_ready = FALSE
  /\ software = "idle"
  /\ planned \in Jobs
  /\ programs = 0 /\ changes = 0
  /\ job = regs
  /\ written = {}
  /\ clobbered = FALSE

-----------------------------------------------------------------------------
(* do_dma_copy: from one place where it waits to the next.                 *)

(* The mutant reads all there is into the buffer.                          *)
MutantBodyIgnoresBuffer ==
  \/ /\ run /\ regs.len > 0
     /\ thread' = "reading"
     /\ burst' = [from |-> regs.src_addr, to |-> 0, tlen |-> regs.len]
     /\ UNCHANGED control
  \/ /\ run /\ regs.len = 0
     /\ run' = FALSE /\ done' = TRUE
     /\ thread' = "waiting"
     /\ UNCHANGED <<burst, job>>
  \/ /\ ~run
     /\ thread' = "delay"
     /\ UNCHANGED <<burst, control>>

(* The body of the loop, up to its first bus transaction or delay.         *)
Body ==
  \/ /\ run /\ regs.len > 0
     /\ thread' = "reading"
     /\ burst' = [from |-> regs.src_addr, to |-> 0,
                  tlen |-> IF regs.len > Burst THEN Burst ELSE regs.len]
     /\ UNCHANGED control
  \/ /\ run /\ regs.len = 0
     /\ run' = FALSE /\ done' = TRUE
     /\ thread' = "waiting"
     /\ UNCHANGED <<burst, job>>
  \/ /\ ~run
     /\ thread' = "delay"
     /\ UNCHANGED <<burst, control>>

(* The mutant raises the interrupt before it sets DONE.                    *)
MutantUpdateIrqsBeforeDone == irq' = done

(* update_irqs follows a copy that is complete, and every delay.           *)
UpdateIrqs == irq' = done'

(* The event occurs; if the thread does not wait for it, it is lost.       *)
EventOccurs ==
  /\ ev_dma_copy
  /\ ev_dma_copy' = FALSE
  /\ \/ /\ thread = "waiting" \/ (thread = "not started" /\ run)
        /\ Body
        /\ IF thread' = "waiting" THEN UpdateIrqs ELSE UNCHANGED irq
     \/ /\ thread = "not started" /\ ~run
        /\ thread' = "waiting"
        /\ UNCHANGED <<irq, burst, control>>
     \/ /\ thread \in {"reading", "writing", "delay"}
        /\ UNCHANGED <<irq, thread, burst, control>>
  /\ UNCHANGED <<regs, written, environment, clobbered>>

ReadReturns ==
  /\ thread = "reading"
  /\ thread' = "writing"
  /\ burst' = [burst EXCEPT !.to = regs.dst_addr]
  /\ UNCHANGED <<regs, irq, ev_dma_copy, written, control, environment,
                 clobbered>>

(* What a burst of n bytes copies, and the registers after it.             *)
Bytes(to, from, n) ==
  {<<(to + i) % Word, (from + i) % Word>> : i \in 0 .. n - 1}

(* The mutant forgets to advance the source.                               *)
MutantMovedKeepsSource(r, n) ==
  [src_addr |-> r.src_addr, dst_addr |-> (r.dst_addr + n) % Word,
   len |-> (r.len + Word - n) % Word]

Moved(r, n) ==
  [src_addr |-> (r.src_addr + n) % Word, dst_addr |-> (r.dst_addr + n) % Word,
   len |-> (r.len + Word - n) % Word]

WriteReturns ==
  /\ thread = "writing"
  /\ written' = written \cup Bytes(burst.to, burst.from, burst.tlen)
  /\ regs' = Moved(regs, burst.tlen)
  /\ \/ /\ regs'.len = 0 /\ run
        /\ run' = FALSE /\ done' = TRUE
        /\ thread' = "waiting"
        /\ UpdateIrqs
     \/ /\ ~(regs'.len = 0 /\ run)
        /\ thread' = "delay"
        /\ UNCHANGED <<run, done, irq>>
  /\ UNCHANGED <<ev_dma_copy, burst, job, environment, clobbered>>

(* The mutant waits for the event whether or not it should run on.         *)
MutantDelayEndsThenWaits ==
  /\ thread = "delay"
  /\ thread' = "waiting"
  /\ irq' = done
  /\ UNCHANGED <<regs, ev_dma_copy, copying, control, environment, clobbered>>

DelayEnds ==
  /\ thread = "delay"
  /\ \/ /\ run
        /\ Body
        /\ irq' = (done \/ thread' = "waiting")
     \/ /\ ~run
        /\ thread' = "waiting"
        /\ irq' = done
        /\ UNCHANGED <<burst, control>>
  /\ UNCHANGED <<regs, ev_dma_copy, written, environment, clobbered>>

-----------------------------------------------------------------------------
(* enable_transfer.                                                        *)

(* RUN is set: a new copy, of what the registers say.                      *)
Begin ==
  /\ run' = TRUE /\ done' = FALSE
  /\ job' = regs
  /\ written' = {}

ReadyRises ==
  /\ hardware_started /\ ~transfer_ready /\ changes < MaxChanges
  /\ transfer_ready' = TRUE
  /\ changes' = changes + 1
  /\ Begin
  /\ ev_dma_copy' = TRUE
  /\ UNCHANGED <<hardware_started,
                 regs, irq, thread, burst, software, planned, programs,
                 clobbered>>

(* ctrl = ~RUN sets every other bit, DONE among them.                      *)
ReadyFalls ==
  /\ transfer_ready /\ changes < MaxChanges
  /\ transfer_ready' = FALSE
  /\ changes' = changes + 1
  /\ run' = FALSE /\ done' = TRUE
  /\ UNCHANGED <<hardware_started,
                 regs, irq, ev_dma_copy, thread, copying, job, software,
                 planned, programs, clobbered>>

-----------------------------------------------------------------------------
(* The software: program_dmas, one b_transport after the other.            *)

Busy == run \/ thread \in {"reading", "writing"}

Program ==
  /\ software = "idle" /\ programs < MaxPrograms
  /\ software' = "dst"
  /\ planned' \in Jobs
  /\ programs' = programs + 1
  /\ UNCHANGED <<hardware_started,
                 regs, irq, ev_dma_copy, thread, copying, control,
                 transfer_ready, changes, clobbered>>

WriteRegister(at, next, value) ==
  /\ software = at
  /\ software' = next
  /\ regs' = value
  /\ clobbered' = (clobbered \/ Busy)
  /\ UNCHANGED <<hardware_started,
                 irq, ev_dma_copy, thread, copying, control, transfer_ready,
                 planned, programs, changes>>

WriteDst ==
  WriteRegister("dst", "src", [regs EXCEPT !.dst_addr = planned.dst_addr])
WriteSrc ==
  WriteRegister("src", "len", [regs EXCEPT !.src_addr = planned.src_addr])
WriteLen ==
  WriteRegister("len", IF hardware_started THEN "idle" ELSE "ctrl",
                [regs EXCEPT !.len = planned.len])

(* The write to ctrl first reads from the bus, which may wait ...          *)
WriteCtrl ==
  /\ software = "ctrl"
  /\ software' = "speculating"
  /\ Begin
  /\ UNCHANGED <<hardware_started,
                 regs, irq, ev_dma_copy, thread, burst, transfer_ready,
                 planned, programs, changes, clobbered>>

(* ... and then notifies the thread.                                       *)
SpeculativeReadReturns ==
  /\ software = "speculating"
  /\ software' = "idle"
  /\ ev_dma_copy' = TRUE
  /\ UNCHANGED <<hardware_started,
                 regs, irq, thread, copying, control, transfer_ready, planned,
                 programs, changes, clobbered>>

-----------------------------------------------------------------------------
Next ==
  \/ EventOccurs \/ ReadReturns \/ WriteReturns \/ DelayEnds
  \/ ReadyRises \/ ReadyFalls
  \/ Program \/ WriteDst \/ WriteSrc \/ WriteLen
  \/ WriteCtrl \/ SpeculativeReadReturns

(* Time passes: delays end, notified events occur; the bus answers.        *)
Fairness ==
  /\ WF_vars(EventOccurs) /\ WF_vars(DelayEnds)
  /\ WF_vars(ReadReturns) /\ WF_vars(WriteReturns)
  /\ WF_vars(SpeculativeReadReturns)

Spec == Init /\ [][Next]_vars /\ Fairness

-----------------------------------------------------------------------------
(* Correctness.                                                            *)

(***************************************************************************)
(* Unless the software overwrites the registers of a copy that is going    *)
(* on, the bytes copied since RUN was set are the first ones of the job,   *)
(* each to its own place, and the registers stand just behind them:        *)
(* nothing is skipped, moved twice or written past the end, even when the  *)
(* copy is stopped between two bursts or in the middle of one, and started *)
(* again (demo-dma.cc 94-103 against 162-177).                             *)
(***************************************************************************)
CopiesExactly ==
  ~clobbered /\ Busy =>
    LET moved == (job.len + Word - regs.len) % Word
    IN  /\ regs.len <= job.len
        /\ written = Bytes(job.dst_addr, job.src_addr, moved)
        /\ regs.src_addr = (job.src_addr + moved) % Word
        /\ regs.dst_addr = (job.dst_addr + moved) % Word

(***************************************************************************)
(* The notification of a copy is never lost: whenever the thread waits for *)
(* the event with RUN set, the event is going to occur or the bus access   *)
(* that set RUN is going to notify it, although RUN and the event are      *)
(* written on two sides of a bus transaction (demo-dma.cc 139-150).        *)
(***************************************************************************)
NoLostWakeup ==
  run /\ thread \in {"not started", "waiting"} =>
    ev_dma_copy \/ software = "speculating"

(***************************************************************************)
(* A copy that has been started ends with DONE and the interrupt, which    *)
(* the software waits for, unless transfer_ready stops it first            *)
(* (demo-dma.cc 105-113 against 150, 167-173).                             *)
(***************************************************************************)
StartedCopyInterrupts ==
  run ~> (done /\ irq) \/ (hardware_started /\ ~transfer_ready)

(***************************************************************************)
(* demo-dma.cc:107 "If the DMA was running, signal done.": DONE is what a  *)
(* copy that ran to its end signals, so a step that sets it (and no        *)
(* software has meddled with the registers) ends a copy of every byte.     *)
(* The falling edge of transfer_ready sets it whatever is left.            *)
(***************************************************************************)
DoneOnlyWhenCopied ==
  [][~clobbered /\ ~done /\ done' => run /\ regs'.len = 0]_vars
=============================================================================
