------------------------------ MODULE DmaSchedule ------------------------------
(***************************************************************************)
(* What a descriptor program means, defined without counters: the program  *)
(* unrolled into one operation per active clock edge.  DmaChannel, which   *)
(* keeps an index, a RAM pointer and a down counter as DMA.cc does, is     *)
(* checked against it.                                                     *)
(***************************************************************************)
EXTENDS DmaChannel

(***************************************************************************)
(* Position[n][i]: n edges after descriptor i was entered, <<j, m>> says   *)
(* that descriptor j is executed for the (m + 1)-st time.                  *)
(***************************************************************************)
Position(p) ==
  LET pos[n \in 0 .. MaxEdges] ==
        [i \in 0 .. Len(p) - 1 |->
           IF p[i + 1].state = SUSPENDED \/ n < p[i + 1].x_count
             THEN <<i, n>>
             ELSE pos[n - p[i + 1].x_count][p[i + 1].next]]
  IN  pos

(* The operation that active edge number n (from 0) performs.              *)
DescriptorAt(p, n) == p[Position(p)[n][0][1] + 1]
OffsetAt(p, n) == Position(p)[n][0][2]
IndexAt(p, n) ==
  LET d == DescriptorAt(p, n)
  IN  d.start + (IF d.state = TRANSFER THEN OffsetAt(p, n) * d.x_modify ELSE 0)

TransferEdges(p, n) ==
  {k \in 0 .. n - 1 : DescriptorAt(p, k).state = TRANSFER}

FullyLoaded == program # <<>> /\ sent = Len(program) /\ ~raced

(***************************************************************************)
(* After any number of active edges, whatever pauses, resets and driver    *)
(* deaths came before, the index, pointer and counter of DMA.cc stand      *)
(* where the unrolled program says, and the RAM indices touched are        *)
(* exactly those it lists.                                                 *)
(***************************************************************************)
FollowsSchedule ==
  FullyLoaded =>
    LET d == DescriptorAt(program, edges)
    IN  /\ dma.execute_index = Position(program)[edges][0][1]
        /\ d.state # SUSPENDED =>
             /\ dma.current_ram_index = IndexAt(program, edges)
             /\ dma.x_count_remaining = d.x_count - OffsetAt(program, edges)
        /\ touched = {IndexAt(program, k) : k \in TransferEdges(program, edges)}

(***************************************************************************)
(* trans_finished is high exactly after the last element of a TRANSFER     *)
(* descriptor (demo-dma.cc 167 starts copying the result on it): never in  *)
(* the middle of a block, and never missing at the end of one.             *)
(***************************************************************************)
FinishedMeansBlockDone ==
  FullyLoaded =>
    (trans_finished <=>
       /\ edges > 0
       /\ DescriptorAt(program, edges - 1).state = TRANSFER
       /\ OffsetAt(program, edges - 1) + 1 =
            DescriptorAt(program, edges - 1).x_count)

(***************************************************************************)
(* An MM2S stream that is running carries the cell of the transfer made by *)
(* the last edge, and zero after a waiting edge or when it has nothing to  *)
(* do: a stale pixel would be multiplied into every partial sum.           *)
(***************************************************************************)
StreamShowsLastEdge ==
  MM2S /\ FullyLoaded /\ stream # Zero =>
    /\ edges > 0
    /\ DescriptorAt(program, edges - 1).state = TRANSFER
    /\ stream = IndexAt(program, edges - 1)

(* A program that reaches a SUSPENDED descriptor.                          *)
Terminating(p) == DescriptorAt(p, MaxEdges).state = SUSPENDED

(***************************************************************************)
(* A started DMA whose program ends does end, unless it is stopped: with   *)
(* the clock running it reaches a SUSPENDED descriptor.                    *)
(***************************************************************************)
Completes ==
  (pc = "running" /\ ~raced /\ Terminating(program)) ~>
    (pc # "running" \/ Suspended)
=============================================================================
