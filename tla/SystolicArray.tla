----------------------------- MODULE SystolicArray -----------------------------
(***************************************************************************)
(* The compute side of the processor (struct RIGHT, systemc/Right.cc):     *)
(* branches of groups of multiply-accumulate stages, one long chain        *)
(* through which partial sums move one stage per clock edge.  A DMA per    *)
(* group puts pixels on the bus all its stages read.  Nothing says which   *)
(* edge a pixel or a sum belongs to: they meet because the WAIT counts of  *)
(* the descriptors fit the depth of the chain.                             *)
(*                                                                         *)
(* Groups and branches are joined by methods that are sensitive to their   *)
(* data, not to the clock (PE_GROUP::update, PE_CLOUD::update): they copy  *)
(* their psumIn to the first signal of their own chain when psumIn or      *)
(* their output changes, and on no other occasion.  A reset clears the     *)
(* stages and the outputs but not those first signals.                     *)
(*                                                                         *)
(* Groups are numbered along the chain.  The driver is that of             *)
(* MemoryHierarchy without the pause; a driver that dies between two words *)
(* of one descriptor or of one set of weights is left out.  The slice RAMs *)
(* do not change while they are read: Processor shows that.                *)
(***************************************************************************)
EXTENDS Descriptors, Integers, FiniteSetsExt

CONSTANTS
  branchCount, groupCount, peArraySize,   (* 3, 3 and 3 in the code.       *)
  IMAGE_WIDTH,   (* The pixels of a row: 10 in the code.                   *)
  Slices,        (* The contents the slice RAMs may have.                  *)
  Pixel,         (* The values of a pixel.                                 *)
  kernel,        (* The weights the driver sends.                          *)
  Uninitialised, (* What the weight of a stage may be before.              *)
  MaxEdges       (* A bound: more enabled edges than this are not told
                    apart, by then the array has drained.                  *)

Group == 1 .. branchCount * groupCount
Branch == 1 .. branchCount
Stage == 1 .. peArraySize
Stages == branchCount * groupCount * peArraySize

(* The branch of a group, and its place in it.                             *)
BranchOf(k) == 1 + ((k - 1) \div groupCount)
Row(k) == (k - 1) % groupCount
LastOf(b) == b * groupCount

ArrayConstants ==
  /\ {branchCount, groupCount, peArraySize, IMAGE_WIDTH} \subseteq Nat \ {0}
  /\ 0 \in Pixel
  /\ Slices \subseteq [Branch -> [0 .. IMAGE_SIZE - 1 -> Pixel]]
  /\ kernel \in [Group -> [Stage -> Int]]
  /\ Uninitialised \subseteq Int
  /\ MaxEdges \in Nat
  /\ MaxEdges > BIG_RAM_SIZE + Stages + IMAGE_SIZE + 1
  /\ BIG_RAM_SIZE + Stages + IMAGE_SIZE < Word

VARIABLES
  dma,         (* The DMA of each group.                                   *)
  pixelInBus,  (* What it shows to the stages of the group.                *)
  pe,          (* The output of each stage: interPsumSignals[1..].         *)
  psumFirst,   (* interPsumSignals[0] of each group.                       *)
  cloudFirst,  (* interGroupSignals[0] of each branch.                     *)
  weight,      (* The weight of each stage.                                *)
  slice,       (* The content of the slice RAMs.                           *)
  reset, enable,  (* The MMR signals.                                      *)
  pc,          (* What the driver has done last.                           *)
  sent,        (* The groups whose weights it has sent since.              *)
  edges        (* History: enabled clock edges since the last reset.       *)

signals == <<pixelInBus, pe, psumFirst, cloudFirst>>
hardware == <<dma, signals, edges>>
driver == <<reset, enable, pc, sent>>
vars == <<hardware, weight, slice, driver>>

TypeOK ==
  /\ dma \in [Group -> DmaState]
  /\ pixelInBus \in [Group -> Pixel]
  /\ pe \in [Group -> [Stage -> Int]]
  /\ psumFirst \in [Group -> Int]
  /\ cloudFirst \in [Branch -> Int]
  /\ weight \in [Group -> [Stage -> Int]]
  /\ slice \in Slices
  /\ reset \in BOOLEAN
  /\ enable \in BOOLEAN
  /\ pc \in {"idle", "resetting", "loading", "running", "stopped"}
  /\ sent \in 0 .. branchCount * groupCount
  /\ edges \in 0 .. MaxEdges

(* Members of a DMA that are not initialised are not read before a reset.  *)
Init ==
  /\ \E x \in Uninitialised :
       /\ dma = [k \in Group |-> Dma(<<>>, 0, 0, 0, 0)]
       /\ weight = [k \in Group |-> [i \in Stage |-> x]]
  /\ pixelInBus = [k \in Group |-> 0]
  /\ pe = [k \in Group |-> [i \in Stage |-> 0]]
  /\ psumFirst = [k \in Group |-> 0]
  /\ cloudFirst = [b \in Branch |-> 0]
  /\ slice \in Slices
  /\ reset = FALSE
  /\ enable = FALSE
  /\ pc = "idle"
  /\ sent = 0
  /\ edges = 0

-----------------------------------------------------------------------------
(* The descriptor programs branch0_group0_descriptors and so on.           *)

Programmed(wait, k) ==
  << [next |-> 1, start |-> 0, state |-> WAIT, x_count |-> wait, x_modify |-> 1],
     [next |-> 2, start |-> IMAGE_WIDTH * Row(k), state |-> TRANSFER,
      x_count |-> IMAGE_SIZE, x_modify |-> 1],
     [done_descriptor EXCEPT !.next = 2] >>

(* The mutants wait one edge too few per group, as the comment at the      *)
(* second program of the source does, and for one slice instead of three.  *)
MutantGroupWaitsTwo(k) ==
  Programmed(BIG_RAM_SIZE + (peArraySize - 1) * (k - 1), k)
MutantGroupWaitsForOneSlice(k) ==
  Programmed(SMALL_RAM_SIZE + peArraySize * (k - 1), k)

group_descriptors(k) == Programmed(BIG_RAM_SIZE + peArraySize * (k - 1), k)

-----------------------------------------------------------------------------
(* The handlers of a clock edge.                                           *)

Executing(d) == d.descriptors[d.execute_index + 1]
Active(d) == enable /\ Executing(d).state # SUSPENDED

Stepped(d) ==
  IF Active(d)
    THEN Advanced(d, Executing(d), d.descriptors[Executing(d).next + 1])
    ELSE d

(* A slice RAM ends in padding that nothing writes.                        *)
Ram(b, i) == IF i < IMAGE_SIZE THEN slice[b][i] ELSE 0

(* The mutant does not dereference the pointer into the RAM.               *)
MutantOnBusSendsIndex(k) ==
  IF Active(dma[k]) /\ Executing(dma[k]).state = TRANSFER
    THEN dma[k].current_ram_index
    ELSE 0

OnBus(k) ==
  IF Active(dma[k]) /\ Executing(dma[k]).state = TRANSFER
    THEN Ram(BranchOf(k), dma[k].current_ram_index)
    ELSE 0

(* mult_accumulate: a stage reads the bus and its predecessor as they were *)
(* before the edge.                                                        *)
Accumulated(k, i) ==
  pixelInBus[k] * weight[k][i]
    + (IF i = 1 THEN psumFirst[k] ELSE pe[k][i - 1])

(***************************************************************************)
(* The signals between groups and branches once the methods that depend on *)
(* them have run: p is the output of the stages, c what a branch passes to *)
(* its first group.  The output of a group or a branch is that of its last *)
(* stage: it was updated at the last change, or cleared with it.           *)
(***************************************************************************)
Out(p, k) == p[k][peArraySize]
CloudPsumIn(p, b) == IF b = 1 THEN 0 ELSE Out(p, LastOf(b - 1))
PsumIn(p, c, k) == IF Row(k) = 0 THEN c[BranchOf(k)] ELSE Out(p, k - 1)

streamOut == Out(pe, LastOf(branchCount))

(* PE_CLOUD::update and PE_GROUP::update while the processor is enabled.   *)
CloudUpdated(p, b) ==
  IF \/ Out(p, LastOf(b)) # Out(pe, LastOf(b))
     \/ CloudPsumIn(p, b) # CloudPsumIn(pe, b)
    THEN CloudPsumIn(p, b) ELSE cloudFirst[b]

(* The mutant is sensitive to psumIn alone.                                *)
MutantGroupUpdatedOnPsumIn(p, c, k) ==
  IF PsumIn(p, c, k) # PsumIn(pe, cloudFirst, k)
    THEN PsumIn(p, c, k) ELSE psumFirst[k]

GroupUpdated(p, c, k) ==
  IF \/ Out(p, k) # Out(pe, k)
     \/ PsumIn(p, c, k) # PsumIn(pe, cloudFirst, k)
    THEN PsumIn(p, c, k) ELSE psumFirst[k]

(***************************************************************************)
(* One edge of an enabled array: the stages, and in the delta cycles after *)
(* it the branches and the groups.                                         *)
(***************************************************************************)
Compute ==
  /\ pe' = [k \in Group |-> [i \in Stage |-> Accumulated(k, i)]]
  /\ cloudFirst' = [b \in Branch |-> CloudUpdated(pe', b)]
  /\ psumFirst' = [k \in Group |-> GroupUpdated(pe', cloudFirst', k)]
  /\ edges' = IF edges = MaxEdges THEN edges ELSE edges + 1

UpdateReset ==
  /\ dma' = [k \in Group |-> Cleared]
  /\ pe' = [k \in Group |-> [i \in Stage |-> 0]]
  /\ edges' = 0
  /\ UNCHANGED <<pixelInBus, psumFirst, cloudFirst>>

UpdateRun ==
  /\ dma' = [k \in Group |-> Stepped(dma[k])]
  /\ pixelInBus' = [k \in Group |-> OnBus(k)]
  /\ IF enable THEN Compute ELSE UNCHANGED <<pe, cloudFirst, psumFirst, edges>>

Clock ==
  /\ IF reset THEN UpdateReset ELSE UpdateRun
  /\ UNCHANGED <<weight, slice, driver>>

-----------------------------------------------------------------------------
(* The driver.                                                             *)

(* The slices of the next image arrive while the readers wait.             *)
AssertReset ==
  /\ pc \in {"idle", "stopped"}
  /\ pc' = "resetting"
  /\ slice' \in Slices
  /\ reset' = TRUE
  /\ IF reset THEN UNCHANGED hardware ELSE UpdateReset
  /\ sent' = 0
  /\ UNCHANGED <<weight, enable>>

(* Both edges of reset run the update methods, this one with reset low.    *)
ReleaseReset ==
  /\ pc = "resetting"
  /\ pc' = "loading"
  /\ reset' = FALSE
  /\ UpdateRun
  /\ UNCHANGED <<weight, slice, enable, sent>>

Complete(k) == dma[k].descriptor_count = Len(group_descriptors(k))

LoadDescriptor(k) ==
  /\ pc = "loading"
  /\ ~Complete(k)
  /\ \A j \in 1 .. k - 1 : Complete(j)
  /\ dma' = [dma EXCEPT ![k] =
               Loaded(@, group_descriptors(k)[dma[k].descriptor_count + 1])]
  /\ UNCHANGED <<signals, edges, weight, slice, driver>>

(* send_weights to one group: its third word loads the group.              *)
LoadWeights(k) ==
  /\ pc = "loading"
  /\ \A j \in Group : Complete(j)
  /\ k = sent + 1
  /\ weight' = [weight EXCEPT ![k] = kernel[k]]
  /\ sent' = k
  /\ UNCHANGED <<hardware, slice, reset, enable, pc>>

StartProcessor ==
  /\ pc = "loading"
  /\ sent = branchCount * groupCount
  /\ pc' = "running"
  /\ enable' = TRUE
  /\ UNCHANGED <<hardware, weight, slice, reset, sent>>

StopProcessor ==
  /\ pc = "running"
  /\ pc' = "stopped"
  /\ enable' = FALSE
  /\ UNCHANGED <<hardware, weight, slice, reset, sent>>

(* The driver dies, while it has the processor disabled.                   *)
Abort ==
  /\ pc \in {"resetting", "loading", "stopped"}
  /\ pc' = "idle"
  /\ UNCHANGED <<hardware, weight, slice, reset, enable, sent>>

Next ==
  \/ Clock
  \/ AssertReset
  \/ ReleaseReset
  \/ \E k \in Group : LoadDescriptor(k) \/ LoadWeights(k)
  \/ StartProcessor
  \/ StopProcessor
  \/ Abort

(* The simulation never stops its clock.                                   *)
Spec == Init /\ [][Next]_vars /\ WF_vars(Clock)

-----------------------------------------------------------------------------
(* Correctness.                                                            *)

(* Pixel number n of the rows group k reads; before and after, zero.       *)
Tap(k, n) ==
  IF n \in 0 .. IMAGE_SIZE - 1
    THEN Ram(BranchOf(k), IMAGE_WIDTH * Row(k) + n) ELSE 0

(* The convolution of the slices with the kernel at pixel q.               *)
Convolution(q) ==
  LET Term(s) == kernel[s[1]][s[2]] * Tap(s[1], q + s[2] - 1)
  IN  MapThenSumSet(Term, Group \X Stage)

(***************************************************************************)
(* From the first pixel on, the stream that leaves the array is the        *)
(* convolution of the image with the kernel, one pixel per edge, and shows *)
(* that of pixel 0 after Stages + 1 edges more: every pixel meets the      *)
(* partial sum it belongs to (descriptors.h 66-118) and no sum of an       *)
(* earlier run, or of one that was stopped half way, is left in the chain  *)
(* (Right.cc 27-34, 146-153).                                              *)
(***************************************************************************)
StreamIsConvolution ==
  enable /\ edges >= BIG_RAM_SIZE
    => streamOut = Convolution(edges - BIG_RAM_SIZE - Stages - 1)

(***************************************************************************)
(* What a reset leaves in the first signals of groups and branches has     *)
(* been replaced after one pass through a branch, long before the first    *)
(* pixel: from then on those signals are what they are connected to,       *)
(* although nothing but a change ever refreshes them.                      *)
(***************************************************************************)
StaleSumsFlushed ==
  enable /\ edges >= groupCount * peArraySize =>
    /\ \A b \in Branch : cloudFirst[b] = CloudPsumIn(pe, b)
    /\ \A k \in Group : psumFirst[k] = PsumIn(pe, cloudFirst, k)
=============================================================================
