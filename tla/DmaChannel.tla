------------------------------- MODULE DmaChannel -------------------------------
(***************************************************************************)
(* One descriptor DMA of the processor together with everything that acts  *)
(* on it: the free running clock, the enable and reset signals of the MMR, *)
(* and the user level driver, which pulses reset, loads a descriptor       *)
(* program one descriptor at a time, enables the processor and later       *)
(* disables it.  The driver may die at any point and be started again.     *)
(*                                                                         *)
(* A bus access is one step: the remote-port adaptor gives up the          *)
(* processor after each access, so the signal it wrote is committed and    *)
(* the methods sensitive to it have run before the next access.  A clock   *)
(* edge in the same delta cycle as an edge of reset triggers update() once *)
(* and is that same step.                                                  *)
(*                                                                         *)
(* RAM contents are symbolic: touched is the set of RAM indices the DMA    *)
(* has read or written since it was last reset, and the stream carries     *)
(* either the value of a RAM cell, named by its index, or zero.            *)
(***************************************************************************)
EXTENDS DescriptorEngine

CONSTANTS
  Programs,       (* The descriptor programs the driver may load.          *)
  RamSize,        (* The number of cells of the RAM the DMA is bound to.   *)
  MM2S,           (* TRUE for memory to stream, FALSE for stream to memory.*)
  Indeterminate,  (* What an uninitialised unsigned member may hold.       *)
  Zero,           (* The stream value zero.                                *)
  MaxEdges,       (* Bound: active edges between two resets.               *)
  MaxAborts       (* Bound: deaths of the driver.                          *)

(***************************************************************************)
(* A program a DMA can execute: every successor exists, nothing counts     *)
(* from zero, and a transfer stays inside the RAM.                         *)
(***************************************************************************)
WellFormed(p) ==
  /\ p \in Seq(Descriptor)
  /\ p # <<>>
  /\ \A i \in 1 .. Len(p) :
       /\ p[i].next < Len(p)
       /\ p[i].state # SUSPENDED => p[i].x_count > 0
       /\ p[i].state = TRANSFER =>
            p[i].start + (p[i].x_count - 1) * p[i].x_modify < RamSize

ASSUME ChannelAssumption ==
  /\ \A p \in Programs : WellFormed(p)
  /\ RamSize \in UInt
  /\ MM2S \in BOOLEAN
  /\ Indeterminate \subseteq UInt
  /\ Zero \notin Nat
  /\ MaxEdges \in Nat
  /\ MaxAborts \in Nat

VARIABLES
  dma,             (* The members of struct DMA.                           *)
  stream,          (* The value of the stream signal, for an MM2S DMA.     *)
  touched,         (* RAM indices read or written since the last reset.    *)
  trans_finished,  (* The trans_finished signal.                           *)
  reset, enable,   (* The MMR signals.                                     *)
  pc,              (* What the driver does next.                           *)
  program,         (* The program of this run, <<>> before the first run.  *)
  sent,            (* How many of its descriptors have been loaded.        *)
  edges,           (* History: updates that executed a descriptor since
                      the last reset.                                      *)
  raced,           (* History: a descriptor was executed while the program
                      was still being loaded.                              *)
  aborts           (* How often the driver has died.                       *)

channel == <<dma, stream, touched, trans_finished, edges, raced>>
driver == <<pc, program, sent, aborts>>
vars == <<channel, reset, enable, driver>>

TypeOK ==
  /\ dma \in DmaState
  /\ stream \in Nat \cup {Zero}
  /\ touched \subseteq UInt
  /\ trans_finished \in BOOLEAN
  /\ reset \in BOOLEAN
  /\ enable \in BOOLEAN
  /\ pc \in {"idle", "resetting", "loading", "running"}
  /\ program \in Programs \cup {<<>>}
  /\ sent \in 0 .. Len(program)
  /\ edges \in 0 .. MaxEdges
  /\ raced \in BOOLEAN
  /\ aborts \in 0 .. MaxAborts

Init ==
  /\ \E i, x, n \in Indeterminate : dma = Dma(<<>>, 0, i, x, n)
  /\ stream = Zero
  /\ touched = {}
  /\ trans_finished = FALSE
  /\ reset = FALSE
  /\ enable = FALSE
  /\ pc = "idle"
  /\ program = <<>>
  /\ sent = 0
  /\ edges = 0
  /\ raced = FALSE
  /\ aborts = 0

-----------------------------------------------------------------------------
(* update(), by branch.                                                    *)

UpdateReset ==
  /\ dma' = Cleared
  /\ trans_finished' = FALSE
  /\ touched' = {}
  /\ edges' = 0
  /\ raced' = FALSE
  /\ UNCHANGED stream

(* A stream to memory DMA does not drive the stream.  The mutant does not  *)
(* clear it.                                                               *)
MutantOnStreamKeepsPixel(v) ==
  stream' = IF MM2S /\ v # Zero THEN v ELSE stream

OnStream(v) == stream' = IF MM2S THEN v ELSE stream

(* The mutant leaves trans_finished high once it has been raised.          *)
MutantFinishLatches(block) == trans_finished' = (trans_finished \/ block)

Finish(block) == trans_finished' = block

UpdateRun ==
  \E cur \in Fetch(dma.descriptors, dma.execute_index) :
    /\ cur.state # SUSPENDED
    /\ edges < MaxEdges
    /\ edges' = edges + 1
    /\ raced' = (raced \/ sent < Len(program))
    /\ \/ /\ cur.state = TRANSFER
          /\ touched' = touched \cup {dma.current_ram_index}
          /\ OnStream(dma.current_ram_index)
       \/ /\ cur.state # TRANSFER
          /\ touched' = touched
          /\ OnStream(Zero)
    /\ Finish(LastCount(dma) /\ cur.state = TRANSFER)
    /\ \E nxt \in IF LastCount(dma) THEN Fetch(dma.descriptors, cur.next)
                                    ELSE {cur} :
         dma' = Advanced(dma, cur, nxt)

UpdateIdle ==
  /\ OnStream(Zero)
  /\ UNCHANGED <<dma, touched, trans_finished, edges, raced>>

Suspended ==
  \E cur \in Fetch(dma.descriptors, dma.execute_index) : cur.state = SUSPENDED

Update(rst) ==
  \/ rst /\ UpdateReset
  \/ ~rst /\ enable /\ UpdateRun
  \/ ~rst /\ (~enable \/ Suspended) /\ UpdateIdle

-----------------------------------------------------------------------------
(* The clock.                                                              *)

Clock == Update(reset) /\ UNCHANGED <<reset, enable, driver>>

-----------------------------------------------------------------------------
(* The driver's bus accesses.  Only a change of reset triggers update().   *)

(* The mutant resumes the sending loop where the last driver left it.      *)
MutantAssertResetResumes ==
  /\ pc = "idle"
  /\ pc' = "resetting"
  /\ program' \in Programs
  /\ reset' = TRUE
  /\ IF reset THEN UNCHANGED channel ELSE UpdateReset
  /\ UNCHANGED <<enable, sent, aborts>>

AssertReset ==
  /\ pc = "idle"
  /\ pc' = "resetting"
  /\ program' \in Programs
  /\ sent' = 0
  /\ reset' = TRUE
  /\ IF reset THEN UNCHANGED channel ELSE UpdateReset
  /\ UNCHANGED <<enable, aborts>>

ReleaseReset ==
  /\ pc = "resetting"
  /\ pc' = "loading"
  /\ reset' = FALSE
  /\ Update(FALSE)
  /\ UNCHANGED <<enable, program, sent, aborts>>

LoadDescriptor ==
  /\ pc = "loading"
  /\ sent < Len(program)
  /\ dma' = Loaded(dma, program[sent + 1])
  /\ sent' = sent + 1
  /\ UNCHANGED <<stream, touched, trans_finished, edges, raced,
                 reset, enable, pc, program, aborts>>

StartProcessor ==
  /\ pc = "loading"
  /\ sent = Len(program)
  /\ pc' = "running"
  /\ enable' = TRUE
  /\ UNCHANGED <<channel, reset, program, sent, aborts>>

(* The mutant does not write the enable register.                          *)
MutantStopLeavesEnabled ==
  /\ pc = "running"
  /\ pc' = "idle"
  /\ UNCHANGED <<channel, reset, enable, program, sent, aborts>>

StopProcessor ==
  /\ pc = "running"
  /\ pc' = "idle"
  /\ enable' = FALSE
  /\ UNCHANGED <<channel, reset, program, sent, aborts>>

Abort ==
  /\ pc # "idle"
  /\ aborts < MaxAborts
  /\ aborts' = aborts + 1
  /\ pc' = "idle"
  /\ UNCHANGED <<channel, reset, enable, program, sent>>

Next ==
  \/ Clock
  \/ AssertReset
  \/ ReleaseReset
  \/ LoadDescriptor
  \/ StartProcessor
  \/ StopProcessor
  \/ Abort

(* The simulation never stops its clock.                                   *)
Spec == Init /\ [][Next]_vars /\ WF_vars(Clock)

-----------------------------------------------------------------------------
(* Safety.                                                                 *)

(***************************************************************************)
(* The execution never leaves the loaded program nor the RAM (DMA.cc 129,  *)
(* 135, 142, 164: none of these accesses is checked), however the driver   *)
(* dies and starts again, unless an edge executed a descriptor of a        *)
(* program that was not completely loaded.                                 *)
(***************************************************************************)
InBounds ==
  ~raced =>
    /\ program # <<>> => dma.execute_index < Len(dma.descriptors)
    /\ touched \subseteq 0 .. (RamSize - 1)

(***************************************************************************)
(* The unsigned down counter never wraps: while a descriptor that counts   *)
(* is executed, what remains is between one and its x_count.               *)
(***************************************************************************)
Executing == dma.descriptors[dma.execute_index + 1]

CountInRange ==
  ~raced /\ program # <<>> =>
    (Executing.state # SUSPENDED =>
       dma.x_count_remaining \in 1 .. Executing.x_count)

(***************************************************************************)
(* Nothing is executed between the release of reset and the start of the   *)
(* processor, except by a driver that died with the processor enabled: a   *)
(* program is raced only while enable was left high.                       *)
(***************************************************************************)
RacedOnlyWhenLeftEnabled ==
  [][~raced /\ raced' => enable /\ aborts > 0]_vars
=============================================================================
