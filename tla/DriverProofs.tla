------------------------------ MODULE DriverProofs ------------------------------
(***************************************************************************)
(* Proofs about Driver, for every image, result and number of runs.        *)
(***************************************************************************)
EXTENDS Driver, TLAPS

(***************************************************************************)
(* Types.                                                                  *)
(***************************************************************************)
LEMMA Sizes ==
  /\ N \in Nat /\ M \in Nat /\ 1 <= M /\ M <= N
  /\ MaxRuns \in Nat
BY DriverAssumption

LEMMA RunNumbers == 0 \in Run /\ {0} \subseteq Run
BY Sizes DEF Run

LEMMA InitType == Init => TypeOK
<1> SUFFICES ASSUME Init PROVE TypeOK
  OBVIOUS
<1>1. buffer \in [1 .. N -> [kind: {"image", "result"}, of: SUBSET Run]]
  BY RunNumbers DEF Init, Image
<1>2. /\ ram \in [1 .. N -> SUBSET Run] /\ copied \in 0 .. N /\ read \in 0 .. N
      /\ dma \in [run: BOOLEAN, done: BOOLEAN, left: 0 .. M, delay: BOOLEAN]
  BY Sizes, RunNumbers DEF Init
<1>3. /\ uio \in [masked: BOOLEAN, edge: BOOLEAN, events: Nat, seen: Nat]
      /\ uio.seen <= uio.events
  BY DEF Init
<1> QED
  BY <1>1, <1>2, <1>3, RunNumbers DEF Init, TypeOK, Steps

(* Raise changes the line and, of the UIO driver, the edge.                *)
LEMMA RaiseType ==
  ASSUME TypeOK, NEW up \in BOOLEAN, Raise(up)
  PROVE  /\ line' \in BOOLEAN
         /\ uio' \in [masked: BOOLEAN, edge: BOOLEAN, events: Nat, seen: Nat]
         /\ uio'.seen = uio.seen /\ uio'.events = uio.events
         /\ uio'.edge <=> uio.edge \/ (trigger = "edge" /\ up /\ ~line)
BY DEF TypeOK, Raise

LEMMA HardwareType == TypeOK /\ Hardware => TypeOK'
<1> SUFFICES ASSUME TypeOK, Hardware PROVE TypeOK'
  OBVIOUS
<1>1. CASE Burst1
  <2>1. copied' \in 0 .. N /\ copied' \in 1 .. N
    BY <1>1, Sizes DEF Burst1, TypeOK
  <2>2. ram' \in [1 .. N -> SUBSET Run]
    BY <1>1, <2>1 DEF Burst1, TypeOK
  <2> QED
    BY <1>1, <2>1, <2>2 DEF Burst1, TypeOK, open, processor
<1>2. CASE Filter
  <2>1. read' \in 0 .. N /\ read' \in 1 .. N
    BY <1>2, Sizes DEF Filter, TypeOK
  <2>2. seen' \subseteq Run /\ result' \subseteq Run /\ trans_finished' \in BOOLEAN
    BY <1>2, <2>1 DEF Filter, TypeOK
  <2>3. dma' \in [run: BOOLEAN, done: BOOLEAN, left: 0 .. M, delay: BOOLEAN]
    BY <1>2 DEF Filter, TypeOK
  <2> QED
    BY <1>2, <2>1, <2>2, <2>3 DEF Filter, TypeOK, open
<1>3. CASE Burst2
  <2> DEFINE left == IF dma.left > 0 THEN dma.left - 1 ELSE 0
  <2>1. left \in 0 .. M
    BY Sizes DEF TypeOK
  <2>2. buffer' \in [1 .. N -> [kind: {"image", "result"}, of: SUBSET Run]]
    BY <1>3 DEF Burst2, TypeOK, Filtered
  <2>3. dma' \in [run: BOOLEAN, done: BOOLEAN, left: 0 .. M, delay: BOOLEAN]
    <3>1. \/ dma' = [run |-> FALSE, done |-> TRUE, left |-> 0, delay |-> FALSE]
          \/ dma' = [dma EXCEPT !.left = left, !.delay = TRUE]
      BY <1>3 DEF Burst2
    <3>2. dma \in [run: BOOLEAN, done: BOOLEAN, left: 0 .. M, delay: BOOLEAN]
      BY DEF TypeOK
    <3> HIDE DEF left
    <3>3. [run |-> FALSE, done |-> TRUE, left |-> 0, delay |-> FALSE]
            \in [run: BOOLEAN, done: BOOLEAN, left: 0 .. M, delay: BOOLEAN]
      BY Sizes
    <3>4. [dma EXCEPT !.left = left, !.delay = TRUE]
            \in [run: BOOLEAN, done: BOOLEAN, left: 0 .. M, delay: BOOLEAN]
      BY <2>1, <3>2
    <3> QED
      BY <3>1, <3>3, <3>4, Zenon
  <2>4. /\ line' \in BOOLEAN
        /\ uio' \in [masked: BOOLEAN, edge: BOOLEAN, events: Nat, seen: Nat]
        /\ uio'.seen <= uio'.events
    BY <1>3, RaiseType DEF Burst2, TypeOK
  <2> QED
    BY <1>3, <2>2, <2>3, <2>4 DEF Burst2, TypeOK, open, processor
<1>4. CASE DelayEnds2
  <2>1. dma.done \in BOOLEAN
    BY DEF TypeOK
  <2>2. /\ line' \in BOOLEAN
        /\ uio' \in [masked: BOOLEAN, edge: BOOLEAN, events: Nat, seen: Nat]
        /\ uio'.seen <= uio'.events
    BY <1>4, <2>1, RaiseType DEF DelayEnds2, TypeOK
  <2>3. dma' \in [run: BOOLEAN, done: BOOLEAN, left: 0 .. M, delay: BOOLEAN]
    BY <1>4 DEF DelayEnds2, TypeOK
  <2> QED
    BY <1>4, <2>2, <2>3 DEF DelayEnds2, TypeOK, open, processor
<1>5. CASE Interrupt
  <2>1. /\ uio' \in [masked: BOOLEAN, edge: BOOLEAN, events: Nat, seen: Nat]
        /\ uio'.seen <= uio'.events /\ early' \in BOOLEAN
    <3>1. uio' = [uio EXCEPT !.masked = TRUE, !.edge = FALSE, !.events = @ + 1]
          /\ early' = (early \/ pc \in {"program", "reset", "load", "start", "open"})
      BY <1>5 DEF Interrupt
    <3>2. /\ uio \in [masked: BOOLEAN, edge: BOOLEAN, events: Nat, seen: Nat]
          /\ uio.seen <= uio.events /\ early \in BOOLEAN
      BY DEF TypeOK
    <3>3. uio.events + 1 \in Nat /\ uio.seen <= uio.events + 1
      BY <3>2
    <3> QED
      BY <3>1, <3>2, <3>3
  <2> QED
    BY <1>5, <2>1 DEF Interrupt, TypeOK, open, processor
<1> QED
  BY <1>1, <1>2, <1>3, <1>4, <1>5 DEF Hardware

LEMMA TestBenchType == TypeOK /\ TestBench => TypeOK'
<1> SUFFICES ASSUME TypeOK, TestBench PROVE TypeOK'
  OBVIOUS
<1> USE DEF Goes, Steps, open, processor
<1>1. CASE Start
  <2>1. run' \in Run
    BY <1>1, Sizes DEF Start, TypeOK, Run
  <2> QED
    BY <1>1, <2>1 DEF Start, TypeOK
<1>2. CASE Fill
  <2>1. buffer' \in [1 .. N -> [kind: {"image", "result"}, of: SUBSET Run]]
    BY <1>2 DEF Fill, TypeOK, Image
  <2> QED
    BY <1>2, <2>1 DEF Fill, TypeOK
<1>3. CASE unmask_irq
  BY <1>3 DEF unmask_irq, TypeOK
<1>4. CASE program_axi_dmas
  <2>1. dma \in [run: BOOLEAN, done: BOOLEAN, left: 0 .. M, delay: BOOLEAN]
    BY DEF TypeOK
  <2>2. dma' \in [run: BOOLEAN, done: BOOLEAN, left: 0 .. M, delay: BOOLEAN]
        /\ copied' \in 0 .. N
    BY <1>4, <2>1, Sizes DEF program_axi_dmas
  <2> QED
    BY <1>4, <2>2 DEF program_axi_dmas, TypeOK
<1>5. CASE reset
  <2>1. dma \in [run: BOOLEAN, done: BOOLEAN, left: 0 .. M, delay: BOOLEAN]
    BY DEF TypeOK
  <2>2. dma' \in [run: BOOLEAN, done: BOOLEAN, left: 0 .. M, delay: BOOLEAN]
    BY <1>5, <2>1 DEF reset
  <2>3. read' \in 0 .. N /\ seen' \subseteq Run /\ trans_finished' \in BOOLEAN
    <3>1. read' = 0 /\ seen' = {} /\ trans_finished' = FALSE
      BY <1>5, Zenon DEF reset
    <3>2. read' \in 0 .. N
      BY <3>1, Sizes
    <3>3. seen' \subseteq Run /\ trans_finished' \in BOOLEAN
      BY <3>1, Zenon
    <3> QED
      BY <3>2, <3>3
  <2> QED
    BY <1>5, <2>2, <2>3 DEF reset, TypeOK
<1>6. CASE Load
  BY <1>6 DEF Load, TypeOK
<1>7. CASE start_processor
  BY <1>7 DEF start_processor, TypeOK
<1>8. CASE OpenUio
  BY <1>8 DEF OpenUio, TypeOK
<1>9. CASE wait_irq
  BY <1>9 DEF wait_irq, TypeOK
<1>10. CASE stop_processor
  BY <1>10 DEF stop_processor, TypeOK
<1>11. CASE Compare
  BY <1>11 DEF Compare, TypeOK
<1> QED
  BY <1>1, <1>2, <1>3, <1>4, <1>5, <1>6, <1>7, <1>8, <1>9, <1>10, <1>11
     DEF TestBench

LEMMA NextType == TypeOK /\ [Next]_vars => TypeOK'
<1>1. TypeOK /\ Kill => TypeOK'
  BY DEF Kill, TypeOK, Steps, processor
<1>2. TypeOK /\ UNCHANGED vars => TypeOK'
  BY DEF vars, open, processor, TypeOK
<1> QED
  BY <1>1, <1>2, HardwareType, TestBenchType DEF Next

(***************************************************************************)
(* Every variable keeps its type: the cells of both memories hold data of  *)
(* runs that were started, and no file has seen events not yet counted.    *)
(***************************************************************************)
THEOREM DriverTypeCorrect == Spec => []TypeOK
BY InitType, NextType, PTL DEF Spec

-----------------------------------------------------------------------------
(* What a comparison relies on.                                            *)

Filtering == pc \in {"open", "poll", "stop"}
Whole == \A i \in 1 .. N : buffer[i] = Image(run)
Quiet == ~dma.run /\ ~dma.delay /\ ~uio.edge
Ready == trans_finished /\ ~dma.run /\ ~uio.edge

(* Outside the filter nothing moves, and nothing is on its way.            *)
StagesQuiet ==
  /\ pc \in {"down", "fill", "unmask", "program", "compare"} =>
       Quiet /\ copied = N
  /\ pc \in {"reset", "load", "start"} => Quiet /\ dma.left = M
  /\ enable => Filtering

(* The image of this run is in the buffer, and as far as the copy got in   *)
(* the source RAM.                                                         *)
ImageMoves ==
  /\ pc \in {"unmask", "program", "reset", "load", "start"} => Whole
  /\ pc \in {"reset", "load", "start", "open", "poll", "stop"} =>
       \A i \in 1 .. copied : ram[i] = {run}

(* The filter stays behind the copy and reads this image only; until it    *)
(* has finished the second DMA waits.                                      *)
FilterFollows ==
  /\ pc \in {"load", "start"} => read = 0 /\ seen = {} /\ ~trans_finished
  /\ Filtering => read <= copied /\ seen = (IF read = 0 THEN {} ELSE {run})
  /\ Filtering /\ ~trans_finished => Quiet /\ dma.left = M /\ Whole /\ read < N
  /\ Filtering /\ trans_finished => copied = N /\ read = N /\ result = {run}

(* Then the second DMA replaces the image burst by burst, and only its end *)
(* can be what poll has seen.                                              *)
ResultMoves ==
  /\ Filtering /\ trans_finished =>
       /\ \A i \in 1 .. M - dma.left : buffer[i] = Filtered({run})
       /\ dma.run <=> dma.left > 0
       /\ dma.delay => dma.run
       /\ dma.run => ~dma.done
       /\ uio.edge => ~dma.run
  /\ pc = "poll" /\ uio.events # uio.seen => Ready
  /\ pc = "stop" => Ready
  /\ pc = "compare" => \A i \in 1 .. M : buffer[i] = Filtered({run})

Orderly == trigger = "edge" /\ paced /\ ~killed
Parts == StagesQuiet /\ ImageMoves /\ FilterFollows /\ ResultMoves
IInv == Orderly => Parts

LEMMA InitParts == Init => IInv
  BY Sizes DEF Init, IInv, Parts, StagesQuiet, ImageMoves, FilterFollows,
     ResultMoves, Filtering, Quiet

LEMMA TestBenchParts ==
  ASSUME TypeOK, Parts, TestBench
  PROVE  Parts'
<1> USE DEF Parts, StagesQuiet, ImageMoves, FilterFollows, ResultMoves,
            Filtering, Quiet, Ready, Goes
<1>1. CASE Start
  BY <1>1 DEF Start, processor
<1>2. CASE Fill
  BY <1>2 DEF Fill, Whole, processor
<1>3. CASE unmask_irq
  BY <1>3 DEF unmask_irq, Whole, processor, TypeOK
<1>4. CASE program_axi_dmas
  BY <1>4, Sizes DEF program_axi_dmas, Whole, processor, TypeOK
<1>5. CASE reset
  <2>1. /\ pc = "reset" /\ pc' = "load" /\ UNCHANGED <<run, buffer, ram, copied>>
        /\ enable' = enable /\ uio' = uio
        /\ read' = 0 /\ seen' = {} /\ trans_finished' = FALSE
    BY <1>5 DEF reset, open
  <2>2. ~dma'.run /\ dma'.delay = dma.delay /\ dma'.left = dma.left
    BY <1>5 DEF reset, TypeOK
  <2> QED
    BY <2>1, <2>2 DEF Whole
<1>6. CASE Load
  BY <1>6 DEF Load, Whole, processor
<1>7. CASE start_processor
  BY <1>7, Sizes DEF start_processor, Whole, TypeOK
<1>8. CASE OpenUio
  BY <1>8 DEF OpenUio, Whole, processor, TypeOK
<1>9. CASE wait_irq
  BY <1>9 DEF wait_irq, Whole, processor, TypeOK
<1>10. CASE stop_processor
  <2>1. /\ pc = "stop" /\ pc' = "compare" /\ enable' = FALSE
        /\ UNCHANGED <<run, buffer, ram, copied, dma, uio>>
    BY <1>10 DEF stop_processor
  <2>2. Ready /\ ~dma.delay /\ copied = N
    BY <2>1
  <2>3. dma.left = 0
    BY <2>1, <2>2, Sizes DEF TypeOK
  <2>4. M - dma.left = M
    BY <2>3, Sizes
  <2>5. \A i \in 1 .. M : buffer[i] = Filtered({run})
    BY <2>1, <2>2, <2>4
  <2> QED
    BY <2>1, <2>2, <2>5
<1>11. CASE Compare
  BY <1>11 DEF Compare, Whole, processor
<1> QED
  BY <1>1, <1>2, <1>3, <1>4, <1>5, <1>6, <1>7, <1>8, <1>9, <1>10, <1>11
     DEF TestBench

LEMMA HardwareParts ==
  ASSUME TypeOK, Parts, Orderly, Hardware
  PROVE  Parts'
<1> USE DEF Parts, StagesQuiet, ImageMoves, FilterFollows, ResultMoves,
            Filtering, Quiet, Ready
<1>1. CASE Burst1
  <2>1. /\ pc' = pc /\ run' = run /\ buffer' = buffer /\ dma' = dma /\ uio' = uio
        /\ enable' = enable /\ read' = read /\ seen' = seen /\ result' = result
        /\ trans_finished' = trans_finished
        /\ copied < N /\ copied' = copied + 1 /\ copied \in 0 .. N
    BY <1>1 DEF Burst1, processor, TypeOK
  <2>2. pc \in {"reset", "load", "start", "open", "poll", "stop"} /\ Whole
    BY <2>1, Sizes DEF TypeOK, Steps
  <2>3. buffer[copied'].of = {run}
    BY <2>1, <2>2, Sizes DEF Whole, Image
  <2>4. ram' = [ram EXCEPT ![copied'] = {run}]
    BY <1>1, <2>3 DEF Burst1
  <2>5. \A i \in 1 .. copied' : ram'[i] = {run}
    BY <2>1, <2>2, <2>4, Sizes DEF TypeOK
  <2> QED
    BY <2>1, <2>2, <2>5, Sizes DEF Whole, TypeOK
<1>2. CASE Filter
  <2>1. /\ pc' = pc /\ run' = run /\ buffer' = buffer /\ uio' = uio
        /\ enable' = enable /\ ram' = ram /\ copied' = copied
        /\ Filtering /\ read < N /\ read < copied /\ read' = read + 1
        /\ read \in 0 .. N /\ copied \in 0 .. N /\ seen' = seen \cup ram[read']
    BY <1>2 DEF Filter, Orderly, TypeOK
  <2>2. ~trans_finished /\ Quiet /\ dma.left = M /\ Whole
    BY <2>1, Sizes
  <2>3. ram[read'] = {run}
    BY <2>1, Sizes
  <2>4. seen' = {run}
    BY <2>1, <2>3
  <2>5. CASE read' = N
    <3>1. /\ trans_finished' = TRUE /\ result' = {run}
          /\ dma' = [dma EXCEPT !.run = TRUE, !.done = FALSE]
      BY <1>2, <2>2, <2>4, <2>5 DEF Filter
    <3>2. dma'.run /\ ~dma'.done /\ ~dma'.delay /\ dma'.left = M
      BY <2>2, <3>1 DEF TypeOK
    <3>3. \A i \in 1 .. M - dma'.left : buffer'[i] = Filtered({run})'
      BY <3>2, Sizes
    <3>4. copied = N
      BY <2>1, <2>5, Sizes
    <3> QED
      BY <2>1, <2>2, <2>4, <2>5, <3>1, <3>2, <3>3, <3>4, Sizes DEF Whole
  <2>6. CASE read' # N
    <3>1. trans_finished' = trans_finished /\ result' = result /\ dma' = dma
      BY <1>2, <2>6 DEF Filter
    <3> QED
      BY <2>1, <2>2, <2>4, <2>6, <3>1, Sizes DEF Whole
  <2> QED
    BY <2>5, <2>6
<1>3. CASE Burst2
  <2>1. /\ pc' = pc /\ run' = run /\ ram' = ram /\ copied' = copied
        /\ enable' = enable /\ read' = read /\ seen' = seen /\ result' = result
        /\ trans_finished' = trans_finished /\ dma.run /\ ~dma.delay
    BY <1>3 DEF Burst2, processor
  <2>2. /\ Filtering /\ trans_finished /\ result = {run} /\ dma.left > 0
        /\ ~uio.edge /\ pc # "stop"
        /\ (pc = "poll" => uio.events = uio.seen)
    BY <2>1 DEF TypeOK, Steps
  <2>3. dma.left \in 1 .. M
    BY <2>2, Sizes DEF TypeOK
  <2>4. \A i \in 1 .. M - (dma.left - 1) : buffer'[i] = Filtered({run})
    <3>1. buffer' = [i \in 1 .. N |->
                       IF i = M - dma.left + 1 THEN Filtered({run}) ELSE buffer[i]]
      BY <1>3, <2>2 DEF Burst2
    <3>2. TAKE i \in 1 .. M - (dma.left - 1)
    <3>3. i \in 1 .. N
      BY <2>3, Sizes
    <3>4. CASE i = M - dma.left + 1
      BY <3>1, <3>3, <3>4
    <3>5. CASE i # M - dma.left + 1
      <4>1. i \in 1 .. M - dma.left
        BY <2>3, <3>5, Sizes
      <4> QED
        BY <2>2, <3>1, <3>3, <3>5, <4>1
    <3> QED
      BY <3>4, <3>5
  <2>5. CASE dma.left = 1
    <3>1. /\ dma' = [run |-> FALSE, done |-> TRUE, left |-> 0, delay |-> FALSE]
          /\ Raise(TRUE)
      <4>1. 1 > 0 /\ 1 - 1 = 0
        OBVIOUS
      <4> QED
        BY <1>3, <2>5, <4>1, Zenon DEF Burst2
    <3>2. uio'.events = uio.events /\ uio'.seen = uio.seen
      BY <3>1, RaiseType
    <3>3. ~dma'.run /\ ~dma'.delay /\ dma'.left = 0
      BY <3>1
    <3>4. \A i \in 1 .. M - 0 : buffer'[i] = Filtered({run})
      BY <2>4, <2>5
    <3> QED
      BY <2>1, <2>2, <3>2, <3>3, <3>4
  <2>6. CASE dma.left # 1
    <3>1. uio' = uio /\ dma' = [dma EXCEPT !.left = dma.left - 1, !.delay = TRUE]
      <4>1. dma.left > 0 /\ dma.left - 1 # 0
        BY <2>3, <2>6, Sizes
      <4> QED
        BY <1>3, <4>1 DEF Burst2
    <3>2. dma'.run /\ dma'.done = dma.done /\ dma'.delay /\ dma'.left = dma.left - 1
      BY <2>1, <3>1 DEF TypeOK
    <3>3. dma'.left > 0
      BY <2>3, <2>6, <3>2, Sizes
    <3>4. \A i \in 1 .. M - dma'.left : buffer'[i] = Filtered({run})
      BY <2>4, <3>2
    <3> QED
      BY <2>1, <2>2, <3>1, <3>2, <3>3, <3>4
  <2> QED
    BY <2>5, <2>6
<1>4. CASE DelayEnds2
  <2>1. /\ pc' = pc /\ run' = run /\ ram' = ram /\ copied' = copied
        /\ buffer' = buffer
        /\ enable' = enable /\ read' = read /\ seen' = seen /\ result' = result
        /\ trans_finished' = trans_finished /\ dma.delay
    BY <1>4 DEF DelayEnds2, processor
  <2>2. Filtering /\ trans_finished /\ dma.run /\ ~dma.done
    BY <2>1 DEF TypeOK, Steps
  <2>3. /\ dma'.run = dma.run /\ dma'.done = dma.done /\ ~dma'.delay
        /\ dma'.left = dma.left
    BY <1>4 DEF DelayEnds2, TypeOK
  <2>4. uio'.events = uio.events /\ uio'.seen = uio.seen /\ (uio'.edge <=> uio.edge)
    BY <1>4, <2>2, RaiseType DEF DelayEnds2, TypeOK
  <2> QED
    BY <2>1, <2>2, <2>3, <2>4
<1>5. CASE Interrupt
  <2>1. /\ pc' = pc /\ run' = run /\ ram' = ram /\ copied' = copied
        /\ buffer' = buffer /\ dma' = dma
        /\ enable' = enable /\ read' = read /\ seen' = seen /\ result' = result
        /\ trans_finished' = trans_finished /\ uio.edge
    BY <1>5 DEF Interrupt, processor, Orderly
  <2>2. Filtering /\ Ready'
    BY <1>5, <2>1 DEF Interrupt, TypeOK, Steps
  <2> QED
    BY <2>1, <2>2 DEF TypeOK
<1> QED
  BY <1>1, <1>2, <1>3, <1>4, <1>5 DEF Hardware

LEMMA NextParts == TypeOK /\ IInv /\ [Next]_vars => IInv'
<1> SUFFICES ASSUME TypeOK, IInv, [Next]_vars, Orderly' PROVE Parts'
  BY DEF IInv
<1>1. CASE Kill
  BY <1>1 DEF Kill, Orderly
<1>2. CASE UNCHANGED vars
  <2>1. Parts
    BY <1>2 DEF vars, open, Orderly, IInv
  <2> QED
    BY <1>2, <2>1 DEF vars, open, processor, Parts, StagesQuiet, ImageMoves,
       FilterFollows, ResultMoves, Filtering, Quiet, Ready, Whole
<1>3. CASE Hardware
  <2>1. UNCHANGED open
    BY <1>3 DEF Hardware, Burst1, Filter, Burst2, DelayEnds2, Interrupt
  <2>2. Orderly /\ Parts
    BY <2>1 DEF open, Orderly, IInv
  <2> QED
    BY <1>3, <2>2, HardwareParts
<1>4. CASE TestBench
  <2>1. UNCHANGED open
    BY <1>4 DEF TestBench, Start, Fill, unmask_irq, program_axi_dmas, reset,
       Load, start_processor, OpenUio, wait_irq, stop_processor, Compare
  <2>2. Parts
    BY <2>1 DEF open, Orderly, IInv
  <2> QED
    BY <1>4, <2>2, TestBenchParts
<1> QED
  BY <1>1, <1>2, <1>3, <1>4 DEF Next

LEMMA PartsCompare == IInv => ComparesThisResult
BY DEF IInv, Orderly, Parts, ResultMoves, ComparesThisResult

(***************************************************************************)
(* When the test bench compares, the buffer holds the result of this run   *)
(* and nothing of an earlier one, for every size of image and result and   *)
(* every number of runs: the four things nobody waits for (the copy of the *)
(* image, the filter, the copy of the result, the interrupt) follow each   *)
(* other, and an event can only be the end of this run's second DMA        *)
(* (test_bench.c 38-81).                                                   *)
(***************************************************************************)
THEOREM ComparesThisResultAlways == Spec => []ComparesThisResult
<1>1. Spec => []TypeOK
  BY DriverTypeCorrect
<1>2. TypeOK /\ TypeOK' /\ IInv /\ [Next]_vars => IInv'
  BY NextParts
<1> QED
  BY <1>1, <1>2, InitParts, PartsCompare, PTL DEF Spec
=============================================================================
