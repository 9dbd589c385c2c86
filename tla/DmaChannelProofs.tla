---------------------------- MODULE DmaChannelProofs ----------------------------
(***************************************************************************)
(* For every word size, RAM, set of well-formed programs and content of    *)
(* the memory past the descriptors: a DMA stays inside its program and     *)
(* its RAM, its down counter never wraps (DmaChannel!InBounds and          *)
(* CountInRange), and it does what its program means (DmaSchedule).        *)
(***************************************************************************)
EXTENDS DmaSchedule, Integers, SequenceTheorems, WellFoundedInduction,
        TLAPS

-----------------------------------------------------------------------------
(* The functions of the engine return values of their types,               *)

LEMMA DefaultType == default_descriptor \in Descriptor
  BY EngineAssumption DEF default_descriptor, Descriptor, UInt, SUSPENDED

LEMMA FetchType ==
  ASSUME NEW ds \in Seq(Descriptor), NEW i \in UInt, NEW x \in Fetch(ds, i)
  PROVE  x \in Descriptor
  BY EngineAssumption DEF Fetch, UInt

LEMMA ZeroType == 0 \in UInt /\ 1 \in UInt
  BY EngineAssumption DEF UInt

LEMMA EnterType ==
  ASSUME NEW ds \in Seq(Descriptor), NEW n \in Nat,
         NEW i \in UInt, NEW x \in Descriptor
  PROVE  Enter(ds, n, i, x) \in DmaState
  BY DEF Enter, Dma, DmaState, Descriptor

LEMMA ClearedType == Cleared \in DmaState
<1>1. <<default_descriptor>> \in Seq(Descriptor)
  BY DefaultType
<1>. QED
  BY <1>1, DefaultType, ZeroType, EnterType DEF Cleared

LEMMA LoadedType ==
  ASSUME NEW d \in DmaState, NEW x \in Descriptor
  PROVE  Loaded(d, x) \in DmaState
<1>1. CASE d.descriptor_count = 0
  <2>1. <<x>> \in Seq(Descriptor)
    OBVIOUS
  <2>. QED
    BY <1>1, <2>1, ZeroType, EnterType DEF Loaded
<1>2. CASE d.descriptor_count # 0
  <2>1. d.descriptors \in Seq(Descriptor)
    BY DEF DmaState
  <2>2. Append(d.descriptors, x) \in Seq(Descriptor)
    BY <2>1
  <2>. QED
    BY <1>2, <2>2 DEF Loaded, Dma, DmaState
<1>. QED
  BY <1>1, <1>2

LEMMA AdvancedType ==
  ASSUME NEW d \in DmaState, NEW cur \in Descriptor, NEW nxt \in Descriptor
  PROVE  Advanced(d, cur, nxt) \in DmaState
<1>1. CASE LastCount(d)
  <2>1. /\ d.descriptors \in Seq(Descriptor) /\ d.descriptor_count \in Nat
        /\ cur.next \in UInt
    BY DEF DmaState, Descriptor
  <2>. QED
    BY <1>1, <2>1, EnterType DEF Advanced
<1>2. CASE ~LastCount(d)
  <2>1. (d.x_count_remaining + Word - 1) % Word \in UInt
    BY EngineAssumption DEF DmaState, UInt
  <2>2. (d.current_ram_index + cur.x_modify) % Word \in UInt
    <3>1. d.current_ram_index \in Nat /\ cur.x_modify \in Nat
      BY DEF DmaState, Descriptor, UInt
    <3>. QED
      BY <3>1, EngineAssumption DEF UInt
  <2>. QED
    BY <1>2, <2>1, <2>2 DEF Advanced, Dma, DmaState
<1>. QED
  BY <1>1, <1>2

(* and this is what they do to the fields.                                 *)

LEMMA DmaFields ==
  ASSUME NEW ds, NEW n, NEW i, NEW x, NEW r
  PROVE  /\ Dma(ds, n, i, x, r).descriptors = ds
         /\ Dma(ds, n, i, x, r).descriptor_count = n
         /\ Dma(ds, n, i, x, r).execute_index = i
         /\ Dma(ds, n, i, x, r).current_ram_index = x
         /\ Dma(ds, n, i, x, r).x_count_remaining = r
  BY DEF Dma

(* Word arithmetic that does not wrap.                                     *)

LEMMA InWord ==
  ASSUME NEW w \in Nat, NEW x \in Nat, x < w
  PROVE  x % w = x
  OBVIOUS

LEMMA CountDown ==
  ASSUME NEW w \in Nat, NEW r \in Nat, r > 0, r < w
  PROVE  (r + w - 1) % w = r - 1
  BY Z3

(* Induction over the natural numbers is an appeal to the least of those   *)
(* for which a statement fails.                                            *)

LEMMA Least ==
  ASSUME NEW T, T \subseteq Nat, T # {}
  PROVE  \E x \in T : \A y \in T : x <= y
<1> DEFINE R == OpToRel(<, Nat)
<1>1. IsWellFoundedOn(R, Nat)
  BY NatLessThanWellFounded
<1>2. \A x, y \in Nat : <<x, y>> \in R <=> x < y
  BY DEF OpToRel
<1> HIDE DEF R
<1>3. PICK x \in T : \A y \in T : ~(<<y, x>> \in R)
  BY <1>1, WFMin
<1>4. \A y \in T : x \in Nat /\ y \in Nat /\ ~(y < x)
  BY <1>2, <1>3
<1>5. \A y \in T : x <= y
  BY <1>4
<1> QED
  BY <1>5

-----------------------------------------------------------------------------
(* The inductive invariant.                                                *)

(***************************************************************************)
(* Before the first reset the DMA holds no descriptor at all and nothing   *)
(* keeps it from indexing the empty vector but enable being low.           *)
(***************************************************************************)
NeverProgrammed ==
  /\ dma.descriptors = <<>>
  /\ dma.descriptor_count = 0
  /\ ~enable /\ ~reset /\ ~raced
  /\ pc = "idle"
  /\ touched = {}

(* The vector holds what the driver has sent, or the default descriptor.   *)
Holds ==
  /\ dma.descriptor_count = sent
  /\ sent = 0 => /\ dma.descriptors = <<default_descriptor>>
                 /\ dma.execute_index = 0
                 /\ touched = {}
                 /\ ~raced
  /\ sent > 0 => /\ Len(dma.descriptors) = sent
                 /\ \A i \in 1 .. sent : dma.descriptors[i] = program[i]

(* What the protocol of the driver implies for the signals.                *)
Protocol ==
  /\ reset => sent = 0
  /\ pc = "resetting" => sent = 0
  /\ pc = "loading" => ~reset
  /\ pc = "running" => sent = Len(program)

(***************************************************************************)
(* Unless it was raced, the DMA does not move before its program is        *)
(* complete, and the last cell of the TRANSFER it executes, which is as    *)
(* far ahead as the counter says, is inside the RAM.                       *)
(***************************************************************************)
OnTrack ==
  /\ sent < Len(program) => dma.execute_index = 0
  /\ dma.execute_index < Len(dma.descriptors)
  /\ Executing.state # SUSPENDED =>
       dma.x_count_remaining \in 1 .. Executing.x_count
  /\ Executing.state = TRANSFER =>
       dma.current_ram_index
         + (dma.x_count_remaining - 1) * Executing.x_modify < RamSize
  /\ touched \subseteq 0 .. (RamSize - 1)

IInv ==
  /\ TypeOK
  /\ program = <<>> => NeverProgrammed
  /\ program # <<>> => Holds /\ Protocol
  /\ program # <<>> /\ ~raced => OnTrack

-----------------------------------------------------------------------------
(* The constants of DmaChannel.                                            *)

LEMMA BoundType ==
  /\ MaxEdges \in Nat
  /\ MaxAborts \in Nat
  /\ Indeterminate \subseteq UInt
  BY ChannelAssumption

LEMMA ProgramType ==
  ASSUME NEW p \in Programs
  PROVE  /\ p \in Seq(Descriptor)
         /\ Len(p) \in Nat /\ Len(p) > 0
         /\ \A i \in 1 .. Len(p) : p[i] \in Descriptor
<1>1. p \in Seq(Descriptor) /\ p # <<>>
  BY ChannelAssumption DEF WellFormed
<1>. QED
  BY <1>1

-----------------------------------------------------------------------------
(* Type correctness.                                                       *)

LEMMA UpdateResetType ==
  ASSUME TypeOK, UpdateReset
  PROVE  /\ dma' \in DmaState
         /\ stream' \in Nat \cup {Zero}
         /\ touched' \subseteq UInt
         /\ trans_finished' \in BOOLEAN
         /\ edges' \in 0 .. MaxEdges
         /\ raced' \in BOOLEAN
<1>1. dma' \in DmaState
  BY ClearedType DEF UpdateReset
<1>2. edges' \in 0 .. MaxEdges
  BY BoundType DEF UpdateReset
<1>3. stream' \in Nat \cup {Zero} /\ touched' \subseteq UInt
  BY DEF UpdateReset, TypeOK
<1>4. trans_finished' \in BOOLEAN /\ raced' \in BOOLEAN
  BY DEF UpdateReset
<1>. QED
  BY <1>1, <1>2, <1>3, <1>4

LEMMA UpdateType ==
  ASSUME TypeOK, NEW rst \in BOOLEAN, Update(rst), UNCHANGED aborts
  PROVE  /\ dma' \in DmaState
         /\ stream' \in Nat \cup {Zero}
         /\ touched' \subseteq UInt
         /\ trans_finished' \in BOOLEAN
         /\ edges' \in 0 .. MaxEdges
         /\ raced' \in BOOLEAN
<1>. USE DEF TypeOK
<1>1. CASE UpdateReset
  BY <1>1, UpdateResetType
<1>2. CASE UpdateIdle
  BY <1>2 DEF UpdateIdle, OnStream
<1>3. CASE UpdateRun
  <2>1. PICK cur \in Fetch(dma.descriptors, dma.execute_index) :
          UpdateRun!(cur)
    BY <1>3 DEF UpdateRun
  <2>2. cur \in Descriptor
    BY FetchType DEF DmaState
  <2>3. PICK nxt \in IF LastCount(dma) THEN Fetch(dma.descriptors, cur.next)
                                       ELSE {cur} :
          dma' = Advanced(dma, cur, nxt)
    BY <2>1
  <2>4. nxt \in Descriptor
    BY <2>2, <2>3, FetchType DEF DmaState, Descriptor
  <2>5. dma' \in DmaState
    BY <2>2, <2>3, <2>4, AdvancedType
  <2>6. dma.current_ram_index \in UInt /\ dma.current_ram_index \in Nat
    BY DEF DmaState, UInt
  <2>7. stream' \in Nat \cup {Zero} /\ touched' \subseteq UInt
    BY <2>1, <2>6 DEF OnStream
  <2>8. edges' \in 0 .. MaxEdges
    BY <2>1, BoundType
  <2>9. trans_finished' \in BOOLEAN /\ raced' \in BOOLEAN
    BY <2>1 DEF Finish
  <2>. QED
    BY <2>5, <2>7, <2>8, <2>9
<1>. QED
  BY <1>1, <1>2, <1>3 DEF Update

LEMMA TypeStep == TypeOK /\ [Next]_vars => TypeOK'
<1>. SUFFICES ASSUME TypeOK, [Next]_vars PROVE TypeOK'
  OBVIOUS
<1>1. CASE Clock
  <2>1. Update(reset) /\ reset \in BOOLEAN /\ UNCHANGED aborts
    BY <1>1 DEF Clock, TypeOK, driver
  <2>. QED
    BY <1>1, <2>1, UpdateType DEF Clock, TypeOK, driver
<1>2. CASE AssertReset
  <2>1. program' \in Programs /\ sent' \in 0 .. Len(program')
    BY <1>2, ProgramType DEF AssertReset
  <2>2. CASE reset
    BY <1>2, <2>1, <2>2 DEF AssertReset, TypeOK, channel
  <2>3. CASE ~reset
    BY <1>2, <2>1, <2>3, UpdateResetType DEF AssertReset, TypeOK
  <2>. QED
    BY <2>2, <2>3
<1>3. CASE ReleaseReset
  <2>1. Update(FALSE) /\ UNCHANGED aborts
    BY <1>3 DEF ReleaseReset
  <2>. QED
    BY <1>3, <2>1, UpdateType DEF ReleaseReset, TypeOK
<1>4. CASE LoadDescriptor
  <2>1. program \in Programs /\ sent + 1 \in 1 .. Len(program)
    BY <1>4, ProgramType DEF LoadDescriptor, TypeOK
  <2>2. dma' \in DmaState
    BY <1>4, <2>1, ProgramType, LoadedType DEF LoadDescriptor, TypeOK
  <2>. QED
    BY <1>4, <2>1, <2>2 DEF LoadDescriptor, TypeOK
<1>5. CASE StartProcessor
  BY <1>5 DEF StartProcessor, TypeOK, channel
<1>6. CASE StopProcessor
  BY <1>6 DEF StopProcessor, TypeOK, channel
<1>7. CASE Abort
  BY <1>7, BoundType DEF Abort, TypeOK, channel
<1>8. CASE UNCHANGED vars
  BY <1>8 DEF vars, channel, driver, TypeOK
<1>. QED
  BY <1>1, <1>2, <1>3, <1>4, <1>5, <1>6, <1>7, <1>8 DEF Next

LEMMA InitType == Init => TypeOK
<1>. SUFFICES ASSUME Init PROVE TypeOK
  OBVIOUS
<1>1. dma \in DmaState
  <2>1. PICK i, x, n \in Indeterminate : dma = Dma(<<>>, 0, i, x, n)
    BY DEF Init
  <2>2. <<>> \in Seq(Descriptor)
    OBVIOUS
  <2>. QED
    BY <2>1, <2>2, BoundType DEF Dma, DmaState
<1>2. /\ sent \in 0 .. Len(program)
      /\ edges \in 0 .. MaxEdges
      /\ aborts \in 0 .. MaxAborts
  BY BoundType DEF Init
<1>3. trans_finished \in BOOLEAN /\ reset \in BOOLEAN /\ enable \in BOOLEAN
      /\ raced \in BOOLEAN
  BY DEF Init
<1>4. /\ stream \in Nat \cup {Zero}
      /\ touched \subseteq UInt
      /\ program \in Programs \cup {<<>>}
      /\ pc \in {"idle", "resetting", "loading", "running"}
  BY DEF Init
<1>. QED
  BY <1>1, <1>2, <1>3, <1>4 DEF TypeOK

(***************************************************************************)
(* Every variable keeps its type: the unsigned members of struct DMA stay  *)
(* within a word whatever is loaded, reset or left half done.              *)
(***************************************************************************)
THEOREM TypeCorrect == Spec => []TypeOK
<1>. QED
  BY InitType, TypeStep, PTL DEF Spec

-----------------------------------------------------------------------------
(* Facts for the inductive step.                                           *)

(* The cells still ahead of a transfer, one step further on.               *)
LEMMA Ahead ==
  ASSUME NEW x \in Nat, NEW m \in Nat, NEW r \in Nat, r >= 1
  PROVE  /\ x <= x + (r - 1) * m
         /\ r > 1 => /\ x + m <= x + (r - 1) * m
                     /\ (x + m) + ((r - 1) - 1) * m = x + (r - 1) * m
<1>1. (r - 1) * m >= 0
  BY Z3
<1>2. CASE r > 1
  <2>1. ((r - 1) - 1) * m >= 0
    BY <1>2, Z3
  <2>2. ((r - 1) - 1) * m = (r - 1) * m - m
    BY Z3
  <2>3. (r - 1) * m \in Int
    OBVIOUS
  <2>. QED
    BY <1>1, <2>1, <2>2, <2>3
<1>. QED
  BY <1>1, <1>2

(* A well-formed program, descriptor by descriptor.                        *)
LEMMA ProgramFacts ==
  ASSUME NEW p \in Programs, NEW i \in 1 .. Len(p)
  PROVE  /\ p[i] \in Descriptor
         /\ p[i].next \in Nat /\ p[i].next < Len(p)
         /\ p[i].state # SUSPENDED => p[i].x_count > 0
         /\ p[i].state = TRANSFER =>
              p[i].start + (p[i].x_count - 1) * p[i].x_modify < RamSize
<1>1. WellFormed(p) /\ p[i] \in Descriptor
  BY ProgramType, ChannelAssumption
<1>2. p[i].next \in Nat
  BY <1>1 DEF Descriptor, UInt
<1>. QED
  BY <1>1, <1>2 DEF WellFormed

(* The same, by execute_index.                                             *)
Index(p) == 0 .. Len(p) - 1

LEMMA Inside ==
  ASSUME NEW p \in Programs, NEW i \in Index(p)
  PROVE  /\ p[i + 1] \in Descriptor
         /\ p[i + 1].x_count \in Nat
         /\ p[i + 1].next \in Index(p)
         /\ p[i + 1].state # SUSPENDED => p[i + 1].x_count > 0
<1>1. i + 1 \in 1 .. Len(p) /\ Len(p) \in Nat
  BY ProgramType DEF Index
<1> QED
  BY <1>1, ProgramFacts DEF Descriptor, UInt, Index

-----------------------------------------------------------------------------
(* The inductive step, by branch of update().                              *)

LEMMA ResetStep ==
  ASSUME TypeOK, UpdateReset, program' \in Programs, sent' = 0
  PROVE  Holds' /\ (~raced' => OnTrack')
<1>1. /\ dma'.descriptors = <<default_descriptor>>
      /\ dma'.descriptor_count = 0
      /\ dma'.execute_index = 0
  BY DmaFields DEF UpdateReset, Cleared, Enter
<1>2. touched' = {} /\ ~raced'
  BY DEF UpdateReset
<1>3. Executing'.state = SUSPENDED
  BY <1>1 DEF Executing, default_descriptor
<1>4. Executing'.state # TRANSFER
  BY <1>3 DEF SUSPENDED, TRANSFER
<1>. QED
  BY <1>1, <1>2, <1>3, <1>4 DEF Holds, OnTrack

(* What a running edge does, when the program is complete.                 *)
LEMMA RunMoves ==
  ASSUME IInv, program \in Programs, UpdateRun, UNCHANGED <<program, sent>>,
         ~raced'
  PROVE  LET i == dma.execute_index
             x == dma.current_ram_index
             n == dma.x_count_remaining
             cur == program[i + 1]
             nxt == program[cur.next + 1]
         IN  /\ ~raced /\ sent = Len(program) /\ sent > 0
             /\ i \in Index(program)
             /\ cur.state # SUSPENDED
             /\ edges < MaxEdges /\ edges' = edges + 1
             /\ trans_finished' = (n = 1 /\ cur.state = TRANSFER)
             /\ cur.state = TRANSFER =>
                  /\ touched' = touched \cup {x}
                  /\ OnStream(x)
             /\ cur.state # TRANSFER => touched' = touched /\ OnStream(Zero)
             /\ n = 1 =>
                  /\ dma'.execute_index = cur.next
                  /\ dma'.current_ram_index = nxt.start
                  /\ dma'.x_count_remaining = nxt.x_count
             /\ n # 1 =>
                  /\ dma'.execute_index = i
                  /\ dma'.current_ram_index =
                       IF cur.state = TRANSFER THEN x + cur.x_modify ELSE x
                  /\ dma'.x_count_remaining = n - 1
<1>. DEFINE ei == dma.execute_index
            n  == dma.x_count_remaining
<1>1. PICK cur \in Fetch(dma.descriptors, ei) : UpdateRun!(cur)
  BY DEF UpdateRun
<1>2. PICK nxt \in IF LastCount(dma) THEN Fetch(dma.descriptors, cur.next)
                                     ELSE {cur} :
        dma' = Advanced(dma, cur, nxt)
  BY <1>1
<1>3. /\ program # <<>>
      /\ TypeOK /\ Holds /\ Protocol /\ (~raced => OnTrack)
  BY ProgramType DEF IInv
<1>4. /\ ei \in Nat /\ n \in Nat /\ n < Word
      /\ dma.current_ram_index \in Nat
      /\ sent \in 0 .. Len(program) /\ Len(program) \in Nat
      /\ Len(program) > 0
  BY <1>3, ProgramType, EngineAssumption DEF TypeOK, DmaState, UInt
<1>5. ~raced /\ sent = Len(program) /\ sent > 0 /\ OnTrack
  <2>1. ~raced /\ ~(sent < Len(program))
    BY <1>1
  <2>. QED
    BY <1>3, <1>4, <2>1
<1>6. Len(dma.descriptors) = Len(program) /\ ei + 1 \in 1 .. Len(program)
  BY <1>3, <1>4, <1>5 DEF Holds, OnTrack
<1>7. \A i \in 1 .. Len(program) : dma.descriptors[i] = program[i]
  BY <1>3, <1>5 DEF Holds
<1>8. cur = program[ei + 1] /\ Executing = cur
  BY <1>6, <1>7, <1>4 DEF Fetch, Executing
<1>9. ei \in Index(program) /\ cur.next \in Index(program)
  <2>1. ei \in Index(program)
    BY <1>4, <1>6 DEF Index
  <2>. QED
    BY <1>8, <2>1, Inside
<1>10. /\ cur.x_count \in Nat /\ cur.x_modify \in Nat /\ cur.start \in Nat
       /\ cur.state # SUSPENDED
  BY <1>1, <1>8, <1>9, Inside DEF Descriptor, UInt
<1>11. n \in 1 .. cur.x_count
  BY <1>5, <1>8, <1>10 DEF OnTrack
<1>12. CASE n = 1
  <2>1. LastCount(dma)
    BY <1>12 DEF LastCount
  <2>2. nxt = program[cur.next + 1]
    BY <1>2, <1>6, <1>7, <1>9, <2>1 DEF Fetch, Index
  <2>3. /\ dma'.execute_index = cur.next
        /\ dma'.current_ram_index = nxt.start
        /\ dma'.x_count_remaining = nxt.x_count
    BY <1>2, <2>1, DmaFields DEF Advanced, Enter
  <2>. QED
    BY <1>1, <1>5, <1>8, <1>9, <1>10, <1>12, <2>1, <2>2, <2>3 DEF Finish
<1>13. CASE n # 1
  <2>1. ~LastCount(dma) /\ n > 1
    BY <1>4, <1>11, <1>13 DEF LastCount
  <2>2. (n + Word - 1) % Word = n - 1
    <3>1. n > 0 /\ Word \in Nat
      BY <2>1, <1>4, EngineAssumption
    <3>. QED
      BY <1>4, <3>1, CountDown
  <2>3. /\ dma'.execute_index = ei
        /\ dma'.x_count_remaining = n - 1
        /\ dma'.current_ram_index =
             IF cur.state = TRANSFER
               THEN (dma.current_ram_index + cur.x_modify) % Word
               ELSE dma.current_ram_index
    BY <1>2, <2>1, <2>2, DmaFields DEF Advanced
  <2>4. ASSUME cur.state = TRANSFER
        PROVE  (dma.current_ram_index + cur.x_modify) % Word =
                 dma.current_ram_index + cur.x_modify
    <3>. DEFINE x == dma.current_ram_index
                m == cur.x_modify
    <3>1. x + (n - 1) * m < RamSize
      BY <1>5, <1>8, <2>4 DEF OnTrack
    <3>2. x + m <= x + (n - 1) * m
      <4>1. x \in Nat /\ m \in Nat /\ n \in Nat /\ n >= 1
        BY <1>4, <1>10, <2>1
      <4>. HIDE DEF x, m, n
      <4>. QED
        BY <2>1, <4>1, Ahead
    <3>3. x + m < Word
      <4>1. /\ (n - 1) * m \in Int /\ x \in Nat /\ m \in Nat
            /\ RamSize < Word /\ RamSize \in Nat /\ Word \in Nat
        BY <1>4, <1>10, ChannelAssumption, EngineAssumption DEF UInt
      <4>. DEFINE rest == (n - 1) * m
      <4>. HIDE DEF rest, x, m
      <4>. QED
        BY <3>1, <3>2, <4>1 DEF rest
    <3>4. x + m \in Nat /\ Word \in Nat
      BY <1>4, <1>10, EngineAssumption
    <3>. QED
      BY <3>3, <3>4, InWord
  <2>5. trans_finished' = FALSE
    BY <1>1, <2>1 DEF Finish
  <2>. QED
    BY <1>1, <1>5, <1>8, <1>9, <1>10, <1>13, <2>3, <2>4, <2>5
<1>. QED
  BY <1>12, <1>13

LEMMA RunStep ==
  ASSUME IInv, program \in Programs, UpdateRun, UNCHANGED <<program, sent>>
  PROVE  Holds' /\ (~raced' => OnTrack')
<1>1. PICK cur \in Fetch(dma.descriptors, dma.execute_index) : UpdateRun!(cur)
  BY DEF UpdateRun
<1>2. /\ program # <<>> /\ TypeOK /\ Holds
      /\ sent \in 0 .. Len(program) /\ Len(program) \in Nat
  BY ProgramType DEF IInv, TypeOK
<1>3. sent > 0
  <2>1. SUFFICES ASSUME sent = 0 PROVE FALSE
    BY <1>2
  <2>2. dma.descriptors = <<default_descriptor>> /\ dma.execute_index = 0
    BY <1>2, <2>1 DEF Holds
  <2>3. cur = default_descriptor
    BY <2>2 DEF Fetch
  <2>. QED
    BY <1>1, <2>3 DEF default_descriptor
<1>4. dma'.descriptors = dma.descriptors
      /\ dma'.descriptor_count = dma.descriptor_count
  BY <1>1, DmaFields DEF Advanced, Enter
<1>5. Holds'
  BY <1>2, <1>3, <1>4 DEF Holds
<1>6. ASSUME ~raced' PROVE OnTrack'
  <2>. DEFINE n == dma.x_count_remaining
              x == dma.current_ram_index
              d == program[dma.execute_index + 1]
              m == d.x_modify
  <2>1. /\ ~raced /\ sent = Len(program) /\ OnTrack
        /\ dma.execute_index \in Index(program)
    BY <1>2, <1>6, RunMoves DEF IInv
  <2>2. /\ Len(dma.descriptors) = Len(program)
        /\ \A i \in 1 .. Len(program) : dma.descriptors[i] = program[i]
    BY <1>2, <1>3, <2>1 DEF Holds
  <2>3. Executing = d /\ d \in Descriptor /\ d.next \in Index(program)
    BY <1>2, <2>1, <2>2, Inside DEF Executing, Index
  <2>4. /\ d.x_count \in Nat /\ m \in Nat /\ x \in Nat /\ n \in Nat
        /\ d.state # SUSPENDED
    <3>1. d.state # SUSPENDED
      BY <1>6, <2>3, RunMoves
    <3>2. x \in UInt /\ n \in UInt
      BY <1>2 DEF TypeOK, DmaState
    <3>3. d.x_count \in UInt /\ m \in UInt
      BY <2>3 DEF Descriptor
    <3>. QED
      BY <3>1, <3>2, <3>3, EngineAssumption DEF UInt
  <2>5. n \in 1 .. d.x_count /\ n >= 1
    BY <2>1, <2>3, <2>4 DEF OnTrack
  <2>6. /\ x <= x + (n - 1) * m
        /\ n > 1 => (x + m) + ((n - 1) - 1) * m = x + (n - 1) * m
    <3>. HIDE DEF n, x, m
    <3>. QED
      BY <2>4, <2>5, Ahead
  <2>7. touched' \subseteq 0 .. (RamSize - 1)
    <3>1. CASE d.state = TRANSFER
      <4>1. x + (n - 1) * m < RamSize
        BY <2>1, <2>3, <3>1 DEF OnTrack
      <4>2. (n - 1) * m \in Int /\ RamSize \in Nat
        BY <2>4, ChannelAssumption DEF UInt
      <4>3. x \in 0 .. (RamSize - 1)
        BY <2>4, <2>6, <4>1, <4>2
      <4>. QED
        BY <1>6, <2>1, <3>1, <4>3, RunMoves DEF OnTrack
    <3>2. CASE d.state # TRANSFER
      BY <1>6, <2>1, <3>2, RunMoves DEF OnTrack
    <3>. QED
      BY <3>1, <3>2
  <2>8. CASE n = 1
    <3>. DEFINE nxt == program[d.next + 1]
    <3>1. /\ nxt \in Descriptor
          /\ nxt.state # SUSPENDED => nxt.x_count > 0
          /\ nxt.state = TRANSFER =>
               nxt.start + (nxt.x_count - 1) * nxt.x_modify < RamSize
      BY <1>2, <2>3, ProgramFacts DEF Index
    <3>2. dma'.execute_index = d.next
          /\ dma'.current_ram_index = nxt.start
          /\ dma'.x_count_remaining = nxt.x_count
      BY <1>6, <2>8, RunMoves
    <3>3. Executing' = nxt
      BY <1>2, <1>4, <2>2, <2>3, <3>2 DEF Executing, Index
    <3>4. nxt.x_count \in Nat /\ d.next < Len(program)
      <4>1. nxt.x_count \in Nat
        BY <3>1 DEF Descriptor, UInt
      <4>2. d.next < Len(program)
        BY <1>2, <2>3 DEF Index
      <4>. QED
        BY <4>1, <4>2
    <3>5. /\ sent' < Len(program') => dma'.execute_index = 0
          /\ dma'.execute_index < Len(dma'.descriptors)
      BY <1>2, <1>4, <2>1, <2>2, <3>2, <3>4
    <3>6. Executing'.state # SUSPENDED =>
            dma'.x_count_remaining \in 1 .. Executing'.x_count
      BY <3>1, <3>2, <3>3, <3>4
    <3>7. Executing'.state = TRANSFER =>
            dma'.current_ram_index
              + (dma'.x_count_remaining - 1) * Executing'.x_modify < RamSize
      BY <3>1, <3>2, <3>3
    <3>. QED
      BY <2>7, <3>5, <3>6, <3>7 DEF OnTrack
  <2>9. CASE n # 1
    <3>1. /\ dma'.execute_index = dma.execute_index
          /\ dma'.x_count_remaining = n - 1
          /\ d.state = TRANSFER => dma'.current_ram_index = x + m
      BY <1>6, <2>9, RunMoves
    <3>2. Executing' = d
      BY <1>4, <2>3, <3>1 DEF Executing
    <3>3. ASSUME d.state = TRANSFER
          PROVE  dma'.current_ram_index
                   + (dma'.x_count_remaining - 1) * m < RamSize
      <4>1. x + (n - 1) * m < RamSize
        BY <2>1, <2>3, <3>3 DEF OnTrack
      <4>. QED
        BY <2>4, <2>5, <2>6, <2>9, <3>1, <3>3, <4>1
    <3>. QED
      BY <1>4, <2>1, <2>4, <2>5, <2>7, <2>9, <3>1, <3>2, <3>3 DEF OnTrack
  <2>. QED
    BY <2>8, <2>9
<1>. QED
  BY <1>5, <1>6

LEMMA IdleStep ==
  ASSUME IInv, program \in Programs, UpdateIdle, UNCHANGED <<program, sent>>
  PROVE  Holds' /\ (~raced' => OnTrack')
<1>1. Holds /\ (~raced => OnTrack)
  BY ProgramType DEF IInv
<1>2. UNCHANGED <<dma, touched, raced>>
  BY DEF UpdateIdle
<1>. QED
  BY <1>1, <1>2 DEF Holds, OnTrack, Executing

LEMMA UpdateStep ==
  ASSUME IInv, program \in Programs, NEW rst \in BOOLEAN, rst => sent = 0,
         Update(rst), UNCHANGED <<program, sent>>
  PROVE  Holds' /\ (~raced' => OnTrack')
<1>1. TypeOK
  BY DEF IInv
<1>2. CASE rst /\ UpdateReset
  BY <1>1, <1>2, ResetStep
<1>3. CASE UpdateRun
  BY <1>3, RunStep
<1>4. CASE UpdateIdle
  BY <1>4, IdleStep
<1>. QED
  BY <1>2, <1>3, <1>4 DEF Update

(* Before the first reset only the idle branch of update() can run.        *)
LEMMA NeverStep ==
  ASSUME NeverProgrammed, Update(FALSE), UNCHANGED <<enable, reset, pc>>
  PROVE  NeverProgrammed'
<1>1. UpdateIdle
  BY DEF Update, NeverProgrammed
<1>. QED
  BY <1>1 DEF UpdateIdle, NeverProgrammed

LEMMA LoadStep ==
  ASSUME IInv, program \in Programs, LoadDescriptor
  PROVE  Holds' /\ (~raced' => OnTrack')
<1>. DEFINE d == program[sent + 1]
<1>1. /\ TypeOK /\ Holds /\ (~raced => OnTrack)
      /\ Len(program) \in Nat /\ Len(program) > 0
      /\ sent \in Nat /\ sent + 1 \in 1 .. Len(program)
  BY ProgramType DEF IInv, LoadDescriptor, TypeOK
<1>2. /\ dma' = Loaded(dma, d) /\ sent' = sent + 1
      /\ UNCHANGED <<touched, raced, program>>
  BY DEF LoadDescriptor
<1>3. /\ d \in Descriptor
      /\ d.state # SUSPENDED => d.x_count > 0
      /\ d.state = TRANSFER =>
           d.start + (d.x_count - 1) * d.x_modify < RamSize
  BY <1>1, ProgramFacts
<1>4. d.x_count \in Nat
  BY <1>3 DEF Descriptor, UInt
<1>5. dma.descriptors \in Seq(Descriptor)
  BY <1>1 DEF TypeOK, DmaState
<1>6. CASE sent = 0
  <2>1. dma.descriptor_count = 0 /\ ~raced
    BY <1>1, <1>6 DEF Holds
  <2>2. /\ dma'.descriptors = <<d>>
        /\ dma'.descriptor_count = 1
        /\ dma'.execute_index = 0
        /\ dma'.current_ram_index = d.start
        /\ dma'.x_count_remaining = d.x_count
    BY <1>2, <2>1, DmaFields DEF Loaded, Enter
  <2>3. Executing' = d /\ Len(dma'.descriptors) = 1
    BY <2>2 DEF Executing
  <2>4. Holds'
    BY <1>2, <1>6, <2>2, <2>3 DEF Holds
  <2>5. touched' \subseteq 0 .. (RamSize - 1)
    BY <1>1, <1>2, <1>6 DEF Holds
  <2>6. OnTrack'
    BY <1>3, <1>4, <2>2, <2>3, <2>5 DEF OnTrack
  <2>. QED
    BY <2>4, <2>6
<1>7. CASE sent # 0
  <2>1. /\ dma.descriptor_count # 0 /\ dma.descriptor_count = sent
        /\ Len(dma.descriptors) = sent
        /\ \A i \in 1 .. sent : dma.descriptors[i] = program[i]
    BY <1>1, <1>7 DEF Holds
  <2>2. /\ dma'.descriptors = Append(dma.descriptors, d)
        /\ dma'.descriptor_count = dma.descriptor_count + 1
        /\ dma'.execute_index = dma.execute_index
        /\ dma'.current_ram_index = dma.current_ram_index
        /\ dma'.x_count_remaining = dma.x_count_remaining
    <3>1. dma' = Dma(Append(dma.descriptors, d), dma.descriptor_count + 1,
                     dma.execute_index, dma.current_ram_index,
                     dma.x_count_remaining)
      BY <1>2, <2>1 DEF Loaded
    <3>. DEFINE ds == Append(dma.descriptors, d)
                c  == dma.descriptor_count + 1
    <3>. HIDE DEF d, ds, c
    <3>2. dma' = Dma(ds, c, dma.execute_index, dma.current_ram_index,
                     dma.x_count_remaining)
      BY <3>1 DEF ds, c
    <3>3. dma'.descriptors = ds /\ dma'.descriptor_count = c
      BY <3>2, DmaFields
    <3>4. /\ dma'.execute_index = dma.execute_index
          /\ dma'.current_ram_index = dma.current_ram_index
          /\ dma'.x_count_remaining = dma.x_count_remaining
      BY <3>2, DmaFields
    <3>. QED
      BY <3>3, <3>4 DEF ds, c
  <2>3. /\ Len(dma'.descriptors) = sent + 1
        /\ \A i \in 1 .. sent : dma'.descriptors[i] = program[i]
        /\ dma'.descriptors[sent + 1] = d
    BY <1>1, <1>3, <1>5, <2>1, <2>2
  <2>4. Holds'
    BY <1>1, <1>2, <2>1, <2>2, <2>3 DEF Holds
  <2>5. ASSUME ~raced' PROVE OnTrack'
    <3>1. OnTrack /\ dma.execute_index = 0
      BY <1>1, <1>2, <2>5 DEF OnTrack
    <3>2. Executing' = Executing
      BY <1>1, <1>2, <1>7, <2>1, <2>2, <2>3, <3>1 DEF Executing
    <3>. QED
      BY <1>1, <1>2, <2>2, <2>3, <3>1, <3>2 DEF OnTrack
  <2>. QED
    BY <2>4, <2>5
<1>. QED
  BY <1>6, <1>7

-----------------------------------------------------------------------------
(* The induction.                                                          *)

LEMMA InvInit == Init => IInv
<1>. SUFFICES ASSUME Init PROVE IInv
  OBVIOUS
<1>1. PICK i, x, n \in Indeterminate : dma = Dma(<<>>, 0, i, x, n)
  BY DEF Init
<1>2. NeverProgrammed
  BY <1>1, DmaFields DEF Init, NeverProgrammed
<1>3. program = <<>>
  BY DEF Init
<1>. QED
  BY <1>2, <1>3, InitType DEF IInv

LEMMA InvStep == IInv /\ [Next]_vars => IInv'
<1>. SUFFICES ASSUME IInv, [Next]_vars PROVE IInv'
  OBVIOUS
<1>1. TypeOK /\ TypeOK'
  BY TypeStep DEF IInv
<1>2. program \in Programs => program # <<>>
  BY ProgramType
<1>3. program = <<>> => NeverProgrammed
  BY DEF IInv
<1>4. program # <<>> => /\ program \in Programs
                        /\ Holds /\ Protocol /\ (~raced => OnTrack)
  BY <1>1 DEF IInv, TypeOK
<1>5. CASE Clock
  <2>1. /\ Update(reset) /\ reset \in BOOLEAN
        /\ UNCHANGED <<reset, enable, pc, program, sent>>
    BY <1>1, <1>5 DEF Clock, driver, TypeOK
  <2>2. CASE program = <<>>
    <3>1. reset = FALSE
      BY <1>3, <2>1, <2>2 DEF NeverProgrammed
    <3>. QED
      BY <1>1, <1>3, <2>1, <2>2, <3>1, NeverStep DEF IInv
  <2>3. CASE program # <<>>
    <3>1. (reset => sent = 0) /\ Protocol'
      BY <1>4, <2>1, <2>3 DEF Protocol
    <3>. QED
      BY <1>1, <1>4, <2>1, <2>3, <3>1, UpdateStep DEF IInv
  <2>. QED
    BY <2>2, <2>3
<1>6. CASE AssertReset
  <2>1. program' \in Programs /\ program' # <<>> /\ sent' = 0
    BY <1>6, ProgramType DEF AssertReset
  <2>2. Protocol'
    BY <1>6, <2>1 DEF AssertReset, Protocol
  <2>3. Holds' /\ (~raced' => OnTrack')
    <3>1. CASE ~reset
      BY <1>1, <1>6, <2>1, <3>1, ResetStep DEF AssertReset
    <3>2. CASE reset
      <4>1. program # <<>> /\ sent = 0
        BY <1>3, <1>4, <3>2 DEF NeverProgrammed, Protocol
      <4>2. UNCHANGED <<dma, touched, raced>>
        BY <1>6, <3>2 DEF AssertReset, channel
      <4>3. /\ dma.descriptor_count = 0 /\ ~raced /\ touched = {}
            /\ dma.descriptors = <<default_descriptor>>
            /\ dma.execute_index = 0
        BY <1>4, <4>1 DEF Holds
      <4>4. Executing'.state = SUSPENDED /\ Executing'.state # TRANSFER
        BY <4>2, <4>3
        DEF Executing, default_descriptor, SUSPENDED, TRANSFER
      <4>5. Holds'
        BY <2>1, <4>2, <4>3 DEF Holds
      <4>6. OnTrack'
        BY <2>1, <4>2, <4>3, <4>4 DEF OnTrack
      <4>. QED
        BY <4>5, <4>6
    <3>. QED
      BY <3>1, <3>2
  <2>. QED
    BY <1>1, <2>1, <2>2, <2>3 DEF IInv
<1>7. CASE ReleaseReset
  <2>1. /\ Update(FALSE) /\ UNCHANGED <<program, sent, enable>>
        /\ pc = "resetting" /\ pc' = "loading" /\ reset' = FALSE
    BY <1>7 DEF ReleaseReset
  <2>2. program # <<>>
    BY <1>3, <2>1 DEF NeverProgrammed
  <2>3. Protocol'
    BY <2>1 DEF Protocol
  <2>4. Holds' /\ (~raced' => OnTrack')
    BY <1>4, <2>1, <2>2, UpdateStep
  <2>. QED
    BY <1>1, <2>1, <2>2, <2>3, <2>4 DEF IInv
<1>8. CASE LoadDescriptor
  <2>1. /\ program' = program /\ pc = "loading" /\ pc' = pc
        /\ reset' = reset
    BY <1>8 DEF LoadDescriptor
  <2>2. program # <<>>
    BY <1>3, <2>1 DEF NeverProgrammed
  <2>3. Holds' /\ (~raced' => OnTrack')
    BY <1>4, <1>8, <2>2, LoadStep
  <2>4. ~reset
    BY <1>4, <2>1, <2>2 DEF Protocol
  <2>5. Protocol'
    BY <2>1, <2>4 DEF Protocol
  <2>. QED
    BY <1>1, <2>1, <2>2, <2>3, <2>5 DEF IInv
<1>9. CASE StartProcessor
  <2>1. /\ UNCHANGED <<dma, touched, raced, program, sent, reset>>
        /\ pc = "loading" /\ pc' = "running" /\ sent = Len(program)
    BY <1>9 DEF StartProcessor, channel
  <2>2. program # <<>>
    BY <1>3, <2>1 DEF NeverProgrammed
  <2>. QED
    BY <1>1, <1>4, <2>1, <2>2
    DEF IInv, Holds, Protocol, OnTrack, Executing
<1>10. CASE StopProcessor
  <2>1. /\ UNCHANGED <<dma, touched, raced, program, sent, reset>>
        /\ pc = "running" /\ pc' = "idle"
    BY <1>10 DEF StopProcessor, channel
  <2>2. program # <<>>
    BY <1>3, <2>1 DEF NeverProgrammed
  <2>. QED
    BY <1>1, <1>4, <2>1, <2>2
    DEF IInv, Holds, Protocol, OnTrack, Executing
<1>11. CASE Abort
  <2>1. /\ UNCHANGED <<dma, touched, raced, program, sent, reset>>
        /\ pc # "idle" /\ pc' = "idle"
    BY <1>11 DEF Abort, channel
  <2>2. program # <<>>
    BY <1>3, <2>1 DEF NeverProgrammed
  <2>. QED
    BY <1>1, <1>4, <2>1, <2>2
    DEF IInv, Holds, Protocol, OnTrack, Executing
<1>12. CASE UNCHANGED vars
  BY <1>1, <1>3, <1>4, <1>12
  DEF vars, channel, driver, IInv, NeverProgrammed, Holds, Protocol,
      OnTrack, Executing
<1>. QED
  BY <1>5, <1>6, <1>7, <1>8, <1>9, <1>10, <1>11, <1>12 DEF Next

LEMMA Invariant == Spec => []IInv
  BY InvInit, InvStep, PTL DEF Spec

(***************************************************************************)
(* A DMA whose program was completely loaded before an edge executed any   *)
(* of it never indexes past its descriptors or its RAM, for every set of   *)
(* well-formed programs and however often the driver dies and restarts.    *)
(***************************************************************************)
THEOREM StaysInBounds == Spec => []InBounds
<1>1. IInv => InBounds
  BY DEF IInv, InBounds, OnTrack, NeverProgrammed
<1>. QED
  BY <1>1, Invariant, PTL

(***************************************************************************)
(* Its down counter stays between one and the x_count of the descriptor    *)
(* it executes, so the unsigned decrement never wraps.                     *)
(***************************************************************************)
THEOREM CountNeverWraps == Spec => []CountInRange
<1>1. IInv => CountInRange
  BY DEF IInv, CountInRange, OnTrack
<1>. QED
  BY <1>1, Invariant, PTL

-----------------------------------------------------------------------------
(* Who may execute a program that is not complete.                         *)

(* Nobody but a driver that died leaves the processor enabled.             *)
LeftEnabled == enable /\ pc # "running" => aborts > 0

LEMMA LeftEnabledStep == TypeOK /\ LeftEnabled /\ [Next]_vars => LeftEnabled'
<1> SUFFICES ASSUME TypeOK, LeftEnabled, [Next]_vars PROVE LeftEnabled'
  OBVIOUS
<1>1. aborts \in Nat
  BY BoundType DEF TypeOK
<1>2. CASE Clock
  BY <1>2 DEF Clock, driver, LeftEnabled
<1>3. CASE AssertReset
  BY <1>3 DEF AssertReset, LeftEnabled
<1>4. CASE ReleaseReset
  BY <1>4 DEF ReleaseReset, LeftEnabled
<1>5. CASE LoadDescriptor
  BY <1>5 DEF LoadDescriptor, LeftEnabled
<1>6. CASE StartProcessor
  BY <1>6 DEF StartProcessor, LeftEnabled
<1>7. CASE StopProcessor
  BY <1>7 DEF StopProcessor, LeftEnabled
<1>8. CASE Abort
  BY <1>1, <1>8 DEF Abort, LeftEnabled
<1>9. CASE UNCHANGED vars
  BY <1>9 DEF vars, driver, LeftEnabled
<1> QED
  BY <1>2, <1>3, <1>4, <1>5, <1>6, <1>7, <1>8, <1>9 DEF Next

(* Only a running edge, with the processor enabled, can race.              *)
LEMMA RacingEdge ==
  ASSUME NEW rst \in BOOLEAN, Update(rst), ~raced, raced'
  PROVE  enable /\ sent < Len(program)
<1>1. UpdateRun /\ enable
  BY DEF Update, UpdateReset, UpdateIdle
<1> QED
  BY <1>1 DEF UpdateRun

(***************************************************************************)
(* A descriptor of a program that is still being loaded is executed only   *)
(* when a driver died and left the processor enabled: the other steps of   *)
(* the driver, in whatever order the clock and reset fall between them,    *)
(* never make it happen.                                                   *)
(***************************************************************************)
THEOREM OnlyADeadDriverRaces == Spec => RacedOnlyWhenLeftEnabled
<1> DEFINE Race == ~raced /\ raced' => enable /\ aborts > 0
<1>1. IInv /\ LeftEnabled /\ [Next]_vars => [Race]_vars
  <2> SUFFICES ASSUME IInv, LeftEnabled, Next, ~raced, raced'
               PROVE  enable /\ aborts > 0
    OBVIOUS
  <2>1. /\ reset \in BOOLEAN
        /\ sent \in 0 .. Len(program) /\ Len(program) \in Nat
    BY ProgramType DEF IInv, TypeOK
  <2>2. pc = "running" => ~(sent < Len(program)) \/ ~enable
    BY <2>1 DEF IInv, Protocol, NeverProgrammed
  <2>3. Clock \/ ReleaseReset
    <3>1. ~AssertReset
      BY DEF AssertReset, UpdateReset, channel
    <3>2. ~LoadDescriptor
      BY DEF LoadDescriptor
    <3>3. ~StartProcessor /\ ~StopProcessor /\ ~Abort
      BY DEF StartProcessor, StopProcessor, Abort, channel
    <3> QED
      BY <3>1, <3>2, <3>3 DEF Next
  <2>4. enable /\ sent < Len(program)
    BY <2>1, <2>3, RacingEdge DEF Clock, ReleaseReset
  <2> QED
    BY <2>2, <2>4 DEF LeftEnabled
<1>2. Init => LeftEnabled
  BY DEF Init, LeftEnabled
<1>3. Spec => []LeftEnabled
  <2>1. Spec => []TypeOK
    BY TypeCorrect
  <2> QED
    BY <1>2, <2>1, LeftEnabledStep, PTL DEF Spec
<1> QED
  BY <1>1, <1>3, Invariant, PTL DEF Spec, RacedOnlyWhenLeftEnabled

-----------------------------------------------------------------------------
(* Position solves the equation it is defined by: a function that solves   *)
(* it for the first k edges yields one that solves it for one more.        *)

(* What the recursion of Position says of the function g at <<i, n>>.      *)
Unrolled(p, g, i, n) ==
  IF p[i + 1].state = SUSPENDED \/ n < p[i + 1].x_count
    THEN <<i, n>>
    ELSE g[n - p[i + 1].x_count][p[i + 1].next]

LEMMA PositionIs ==
  ASSUME NEW p
  PROVE  Position(p) =
           CHOOSE g : g = [n \in 0 .. MaxEdges |->
                             [i \in Index(p) |-> Unrolled(p, g, i, n)]]
  BY DEF Position, Index, Unrolled

(* Where an edge is looked up lies before it, inside the program.          *)
LEMMA Earlier ==
  ASSUME NEW p \in Programs, NEW i \in Index(p), NEW n \in 0 .. MaxEdges,
         ~(p[i + 1].state = SUSPENDED \/ n < p[i + 1].x_count)
  PROVE  /\ p[i + 1].next \in Index(p)
         /\ n - p[i + 1].x_count \in 0 .. n - 1
         /\ p[i + 1].x_count \in 1 .. n
<1>1. i + 1 \in 1 .. Len(p) /\ Len(p) \in Nat
  BY ProgramType DEF Index
<1>2. /\ p[i + 1].next \in Nat /\ p[i + 1].next < Len(p)
      /\ p[i + 1].x_count > 0 /\ p[i + 1].x_count \in Nat
  BY <1>1, ProgramFacts DEF Descriptor, UInt
<1> QED
  BY <1>1, <1>2, BoundType DEF Index

Solves(p, g, k) ==
  /\ g = [n \in 0 .. MaxEdges |-> [i \in Index(p) |-> g[n][i]]]
  /\ \A i \in Index(p), n \in 0 .. MaxEdges :
       n < k => g[n][i] = Unrolled(p, g, i, n)

LEMMA SolutionGrows ==
  ASSUME NEW p \in Programs, NEW k \in Nat, NEW g, Solves(p, g, k)
  PROVE  \E h : Solves(p, h, k + 1)
<1> DEFINE h == [n \in 0 .. MaxEdges |-> [i \in Index(p) |->
                   Unrolled(p, g, i, n)]]
<1>1. h = [n \in 0 .. MaxEdges |-> [i \in Index(p) |-> h[n][i]]]
  OBVIOUS
<1>2. ASSUME NEW i \in Index(p), NEW n \in 0 .. MaxEdges, n < k
      PROVE  h[n][i] = g[n][i]
  BY <1>2 DEF Solves
<1>3. ASSUME NEW i \in Index(p), NEW n \in 0 .. MaxEdges, n < k + 1
      PROVE  h[n][i] = Unrolled(p, h, i, n)
  <2>1. h[n][i] = Unrolled(p, g, i, n)
    OBVIOUS
  <2> HIDE DEF h
  <2>2. CASE p[i + 1].state = SUSPENDED \/ n < p[i + 1].x_count
    BY <2>1, <2>2 DEF Unrolled
  <2>3. CASE ~(p[i + 1].state = SUSPENDED \/ n < p[i + 1].x_count)
    <3> DEFINE j == p[i + 1].next
               m == n - p[i + 1].x_count
    <3>1. j \in Index(p) /\ m \in 0 .. MaxEdges /\ m < k
      BY <1>3, <2>3, Earlier, BoundType
    <3>2. h[m][j] = g[m][j]
      BY <1>2, <3>1
    <3> QED
      BY <2>1, <2>3, <3>2 DEF Unrolled
  <2> QED
    BY <2>2, <2>3
<1>4. Solves(p, h, k + 1)
  BY <1>1, <1>3 DEF Solves
<1> QED
  BY <1>4

LEMMA SolutionExists ==
  ASSUME NEW p \in Programs
  PROVE  \A k \in Nat : \E g : Solves(p, g, k)
<1> DEFINE T == {k \in Nat : ~ \E g : Solves(p, g, k)}
<1>1. SUFFICES ASSUME T # {} PROVE FALSE
  OBVIOUS
<1>2. PICK k \in T : \A l \in T : k <= l
  BY <1>1, Least
<1>3. k # 0
  <2> DEFINE g == [n \in 0 .. MaxEdges |-> [i \in Index(p) |-> 0]]
  <2>1. g = [n \in 0 .. MaxEdges |-> [i \in Index(p) |-> g[n][i]]]
    OBVIOUS
  <2>2. \A n \in 0 .. MaxEdges : ~(n < 0)
    BY BoundType
  <2>3. Solves(p, g, 0)
    BY <2>1, <2>2 DEF Solves
  <2> QED
    BY <2>3
<1>4. k - 1 \in Nat /\ ~(k <= k - 1)
  BY <1>3
<1>5. k - 1 \notin T
  BY <1>2, <1>4
<1>6. PICK g : Solves(p, g, k - 1)
  BY <1>4, <1>5
<1>7. \E h : Solves(p, h, (k - 1) + 1)
  BY <1>4, <1>6, SolutionGrows
<1>8. (k - 1) + 1 = k
  BY <1>4
<1> QED
  BY <1>7, <1>8

LEMMA PositionUnrolls ==
  ASSUME NEW p \in Programs, NEW i \in Index(p), NEW n \in 0 .. MaxEdges
  PROVE  Position(p)[n][i] = Unrolled(p, Position(p), i, n)
<1>1. PICK g : Solves(p, g, MaxEdges + 1)
  BY SolutionExists, BoundType
<1>2. \A j \in Index(p), m \in 0 .. MaxEdges : g[m][j] = Unrolled(p, g, j, m)
  BY <1>1, BoundType DEF Solves
<1>3. g = [m \in 0 .. MaxEdges |-> [j \in Index(p) |-> Unrolled(p, g, j, m)]]
  BY <1>1, <1>2 DEF Solves
<1> DEFINE f == Position(p)
<1>4. f = [m \in 0 .. MaxEdges |-> [j \in Index(p) |-> Unrolled(p, f, j, m)]]
  BY <1>3, PositionIs
<1> HIDE DEF f
<1>5. f[n][i] = [m \in 0 .. MaxEdges |->
                   [j \in Index(p) |-> Unrolled(p, f, j, m)]][n][i]
  BY <1>4, Zenon
<1>6. f[n][i] = Unrolled(p, f, i, n)
  BY <1>5
<1> QED
  BY <1>6 DEF f

(***************************************************************************)
(* Where the n-th edge is, counted from the entry of descriptor i, and     *)
(* where the next one is: further on in the same descriptor or at the      *)
(* beginning of its successor.                                             *)
(***************************************************************************)
Goes(p, i, n, j, m) ==
  /\ Position(p)[n][i] = <<j, m>>
  /\ p[j + 1].state = SUSPENDED \/ m < p[j + 1].x_count
  /\ n < MaxEdges /\ p[j + 1].state # SUSPENDED =>
       Position(p)[n + 1][i] = IF m + 1 < p[j + 1].x_count
                                 THEN <<j, m + 1>> ELSE <<p[j + 1].next, 0>>

LEMMA GoesHere ==
  ASSUME NEW p \in Programs, NEW i \in Index(p), NEW n \in 0 .. MaxEdges,
         p[i + 1].state = SUSPENDED \/ n < p[i + 1].x_count
  PROVE  Goes(p, i, n, i, n)
<1> DEFINE d == p[i + 1]
<1>1. Position(p)[n][i] = <<i, n>>
  BY PositionUnrolls DEF Unrolled
<1>2. ASSUME n < MaxEdges, d.state # SUSPENDED
      PROVE  Position(p)[n + 1][i] = IF n + 1 < d.x_count
                                       THEN <<i, n + 1>> ELSE <<d.next, 0>>
  <2>1. n + 1 \in 0 .. MaxEdges /\ 0 \in 0 .. MaxEdges
    BY <1>2, BoundType
  <2>2. Position(p)[n + 1][i] = Unrolled(p, Position(p), i, n + 1)
    BY <2>1, PositionUnrolls
  <2>3. CASE n + 1 < d.x_count
    BY <2>2, <2>3 DEF Unrolled
  <2>4. CASE ~(n + 1 < d.x_count)
    <3>1. (n + 1) - d.x_count = 0
      BY <2>4, <1>2, Inside
    <3>2. Position(p)[n + 1][i] = Position(p)[0][d.next]
      <4>1. Position(p)[n + 1][i] = Position(p)[(n + 1) - d.x_count][d.next]
        BY <2>2, <2>4, <1>2 DEF Unrolled
      <4> QED
        BY <3>1, <4>1
    <3>3. Position(p)[0][d.next] = Unrolled(p, Position(p), d.next, 0)
      BY <2>1, PositionUnrolls, Inside
    <3>4. p[d.next + 1].state = SUSPENDED \/ 0 < p[d.next + 1].x_count
      BY Inside
    <3> QED
      BY <2>4, <3>2, <3>3, <3>4 DEF Unrolled
  <2> QED
    BY <2>3, <2>4
<1> QED
  BY <1>1, <1>2 DEF Goes

LEMMA GoesThere ==
  ASSUME NEW p \in Programs, NEW i \in Index(p), NEW n \in 0 .. MaxEdges,
         ~(p[i + 1].state = SUSPENDED \/ n < p[i + 1].x_count),
         NEW j \in Index(p), NEW m \in Nat,
         Goes(p, p[i + 1].next, n - p[i + 1].x_count, j, m)
  PROVE  Goes(p, i, n, j, m)
<1> DEFINE l == p[i + 1].next
           c == p[i + 1].x_count
<1>1. l \in Index(p) /\ n - c \in 0 .. n - 1 /\ c \in 1 .. n
  BY Earlier
<1>2. Position(p)[n][i] = Position(p)[n - c][l]
  BY PositionUnrolls DEF Unrolled
<1>3. n < MaxEdges => Position(p)[n + 1][i] = Position(p)[(n - c) + 1][l]
  <2> SUFFICES ASSUME n < MaxEdges
               PROVE  Position(p)[n + 1][i] = Position(p)[(n - c) + 1][l]
    OBVIOUS
  <2>1. n + 1 \in 0 .. MaxEdges /\ ~(n + 1 < c) /\ (n + 1) - c = (n - c) + 1
    BY <1>1, BoundType
  <2>2. Position(p)[n + 1][i] = Unrolled(p, Position(p), i, n + 1)
    BY <2>1, PositionUnrolls
  <2> QED
    BY <2>1, <2>2 DEF Unrolled
<1>4. n < MaxEdges => n - c < MaxEdges
  BY <1>1, BoundType
<1> QED
  BY <1>2, <1>3, <1>4 DEF Goes

LEMMA AlwaysGoes ==
  ASSUME NEW p \in Programs
  PROVE  \A n \in 0 .. MaxEdges, i \in Index(p) :
           \E j \in Index(p), m \in Nat : Goes(p, i, n, j, m)
<1> DEFINE Good(n, i) == \E j \in Index(p), m \in Nat : Goes(p, i, n, j, m)
           T == {n \in 0 .. MaxEdges : \E i \in Index(p) : ~Good(n, i)}
<1>1. SUFFICES ASSUME T # {} PROVE FALSE
  OBVIOUS
<1>2. PICK n \in T : \A k \in T : n <= k
  <2>1. T \subseteq Nat
    BY BoundType
  <2> QED
    BY <1>1, <2>1, Least
<1>3. n \in 0 .. MaxEdges /\ n \in Nat
  BY BoundType
<1>4. PICK i \in Index(p) : ~Good(n, i)
  OBVIOUS
<1>5. CASE p[i + 1].state = SUSPENDED \/ n < p[i + 1].x_count
  BY <1>3, <1>4, <1>5, GoesHere
<1>6. CASE ~(p[i + 1].state = SUSPENDED \/ n < p[i + 1].x_count)
  <2> DEFINE l == p[i + 1].next
             k == n - p[i + 1].x_count
  <2>1. l \in Index(p) /\ k \in 0 .. n - 1
    BY <1>3, <1>6, Earlier
  <2>2. k \in 0 .. MaxEdges /\ ~(n <= k)
    BY <1>3, <2>1, BoundType
  <2>3. Good(k, l)
    BY <1>2, <2>1, <2>2
  <2>4. Good(n, i)
    BY <1>3, <1>6, <2>3, GoesThere
  <2> QED
    BY <1>4, <2>4
<1> QED
  BY <1>5, <1>6

-----------------------------------------------------------------------------
(* The counters follow the unrolled program.                               *)

(***************************************************************************)
(* The DMA, and what it has done, is where the unrolled program is after   *)
(* as many edges.                                                          *)
(***************************************************************************)
AtSchedule ==
  LET d == DescriptorAt(program, edges)
  IN  /\ dma.execute_index = Position(program)[edges][0][1]
      /\ d.state # SUSPENDED =>
           /\ dma.current_ram_index = IndexAt(program, edges)
           /\ dma.x_count_remaining = d.x_count - OffsetAt(program, edges)
      /\ touched = {IndexAt(program, k) : k \in TransferEdges(program, edges)}

FinishedWithBlock ==
  trans_finished <=>
    /\ edges > 0
    /\ DescriptorAt(program, edges - 1).state = TRANSFER
    /\ OffsetAt(program, edges - 1) + 1 =
         DescriptorAt(program, edges - 1).x_count

StreamOfLastEdge ==
  MM2S /\ stream # Zero =>
    /\ edges > 0
    /\ DescriptorAt(program, edges - 1).state = TRANSFER
    /\ stream = IndexAt(program, edges - 1)

(***************************************************************************)
(* Nothing has been executed before the program is complete; the stream    *)
(* may show an old value until reset is released.                          *)
(***************************************************************************)
OnSchedule ==
  /\ sent < Len(program) => edges = 0
  /\ sent = 0 => edges = 0 /\ ~trans_finished
  /\ sent = 0 /\ pc = "loading" /\ MM2S => stream = Zero
  /\ sent > 0 => AtSchedule /\ FinishedWithBlock /\ StreamOfLastEdge

SInv == IInv /\ (program # <<>> /\ ~raced => OnSchedule)

LEMMA AtEdge ==
  ASSUME NEW p \in Programs, NEW n \in 0 .. MaxEdges
  PROVE  \E j \in Index(p), m \in Nat :
           /\ Position(p)[n][0] = <<j, m>>
           /\ DescriptorAt(p, n) = p[j + 1] /\ OffsetAt(p, n) = m
           /\ p[j + 1].state = SUSPENDED \/ m < p[j + 1].x_count
           /\ n < MaxEdges /\ p[j + 1].state # SUSPENDED =>
                Position(p)[n + 1][0] = IF m + 1 < p[j + 1].x_count
                                   THEN <<j, m + 1>> ELSE <<p[j + 1].next, 0>>
<1>1. 0 \in Index(p)
  BY ProgramType DEF Index
<1>2. PICK j \in Index(p), m \in Nat : Goes(p, 0, n, j, m)
  BY <1>1, AlwaysGoes
<1>3. DescriptorAt(p, n) = p[j + 1] /\ OffsetAt(p, n) = m
  BY <1>2 DEF Goes, DescriptorAt, OffsetAt
<1> QED
  BY <1>2, <1>3 DEF Goes

(* Before the first edge: the beginning of the first descriptor.           *)
LEMMA AtStart ==
  ASSUME NEW p \in Programs
  PROVE  /\ Position(p)[0][0] = <<0, 0>>
         /\ DescriptorAt(p, 0) = p[1] /\ OffsetAt(p, 0) = 0
         /\ IndexAt(p, 0) = p[1].start
         /\ TransferEdges(p, 0) = {}
<1>1. 0 \in Index(p) /\ 0 \in 0 .. MaxEdges
  BY ProgramType, BoundType DEF Index
<1>2. Goes(p, 0, 0, 0, 0)
  BY <1>1, Inside, GoesHere
<1>3. Position(p)[0][0] = <<0, 0>>
  BY <1>2 DEF Goes
<1>4. DescriptorAt(p, 0) = p[1] /\ OffsetAt(p, 0) = 0
  BY <1>3 DEF DescriptorAt, OffsetAt
<1>5. p[1].start \in Nat /\ p[1].x_modify \in Nat
  BY <1>1, Inside DEF Descriptor, UInt
<1>6. IndexAt(p, 0) = p[1].start
  BY <1>4, <1>5 DEF IndexAt
<1>7. TransferEdges(p, 0) = {}
  BY DEF TransferEdges
<1> QED
  BY <1>3, <1>4, <1>6, <1>7

LEMMA TransfersGrow ==
  ASSUME NEW p \in Programs, NEW n \in Nat
  PROVE  TransferEdges(p, n + 1) =
           TransferEdges(p, n) \cup
             (IF DescriptorAt(p, n).state = TRANSFER THEN {n} ELSE {})
  BY DEF TransferEdges

(* One more edge.                                                          *)
LEMMA OnScheduleRun ==
  ASSUME SInv, program \in Programs, UpdateRun, UNCHANGED <<program, sent>>,
         ~raced'
  PROVE  AtSchedule' /\ FinishedWithBlock' /\ StreamOfLastEdge'
<1> DEFINE x == dma.current_ram_index
           n == dma.x_count_remaining
           p == program
           e == edges
<1>1. /\ IInv /\ TypeOK /\ p # <<>>
  BY ProgramType DEF SInv, IInv
<1>2. /\ ~raced /\ sent = Len(p) /\ sent > 0
      /\ e < MaxEdges /\ edges' = e + 1 /\ e \in 0 .. MaxEdges /\ e \in Nat
  BY <1>1, RunMoves, BoundType DEF TypeOK
<1>3. AtSchedule /\ FinishedWithBlock /\ StreamOfLastEdge
  BY <1>1, <1>2 DEF SInv, OnSchedule
<1>4. PICK j \in Index(p), m \in Nat :
        /\ Position(p)[e][0] = <<j, m>>
        /\ DescriptorAt(p, e) = p[j + 1] /\ OffsetAt(p, e) = m
        /\ p[j + 1].state = SUSPENDED \/ m < p[j + 1].x_count
        /\ e < MaxEdges /\ p[j + 1].state # SUSPENDED =>
             Position(p)[e + 1][0] = IF m + 1 < p[j + 1].x_count
                                THEN <<j, m + 1>> ELSE <<p[j + 1].next, 0>>
  BY <1>2, AtEdge
<1> DEFINE d == p[j + 1]
<1>5. dma.execute_index = j
  BY <1>3, <1>4 DEF AtSchedule
<1>6. d.state # SUSPENDED
  BY <1>1, <1>5, RunMoves
<1>7. x = IndexAt(p, e) /\ n = d.x_count - m
  BY <1>3, <1>4, <1>6 DEF AtSchedule
<1>8. /\ d.x_count \in Nat /\ d.start \in Nat /\ d.x_modify \in Nat
      /\ d.next \in Index(p)
  BY Inside DEF Descriptor, UInt
<1>9. x = d.start + (IF d.state = TRANSFER THEN m * d.x_modify ELSE 0)
  BY <1>4, <1>7 DEF IndexAt
<1>10. n = 1 <=> m + 1 = d.x_count
  BY <1>4, <1>7, <1>8
<1>11. touched' = {IndexAt(p, k) : k \in TransferEdges(p, e + 1)}
  <2>1. touched = {IndexAt(p, k) : k \in TransferEdges(p, e)}
    BY <1>3 DEF AtSchedule
  <2>2. CASE d.state = TRANSFER
    <3>1. touched' = touched \cup {IndexAt(p, e)}
      BY <1>1, <1>5, <1>7, <2>2, RunMoves
    <3>2. TransferEdges(p, e + 1) = TransferEdges(p, e) \cup {e}
      BY <1>2, <1>4, <2>2, TransfersGrow
    <3> QED
      BY <2>1, <3>1, <3>2
  <2>3. CASE d.state # TRANSFER
    <3>1. touched' = touched
      BY <1>1, <1>5, <2>3, RunMoves
    <3>2. TransferEdges(p, e + 1) = TransferEdges(p, e) \cup {}
      BY <1>2, <1>4, <2>3, TransfersGrow
    <3> QED
      BY <2>1, <3>1, <3>2
  <2> QED
    BY <2>2, <2>3
<1>12. AtSchedule'
  <2>1. CASE n = 1
    <3>1. Position(p)[e + 1][0] = <<d.next, 0>>
      BY <1>2, <1>4, <1>6, <1>8, <1>10, <2>1
    <3> DEFINE f == p[d.next + 1]
    <3>2. DescriptorAt(p, e + 1) = f /\ OffsetAt(p, e + 1) = 0
      BY <3>1 DEF DescriptorAt, OffsetAt
    <3>3. f.start \in Nat /\ f.x_modify \in Nat /\ f.x_count \in Nat
      BY <1>8, Inside DEF Descriptor, UInt
    <3>4. IndexAt(p, e + 1) = f.start
      BY <3>2, <3>3 DEF IndexAt
    <3>5. /\ dma'.execute_index = d.next
          /\ dma'.current_ram_index = f.start
          /\ dma'.x_count_remaining = f.x_count
      BY <1>1, <1>5, <2>1, RunMoves
    <3>6. /\ dma'.execute_index = Position(p)[e + 1][0][1]
          /\ dma'.current_ram_index = IndexAt(p, e + 1)
          /\ dma'.x_count_remaining =
               DescriptorAt(p, e + 1).x_count - OffsetAt(p, e + 1)
      BY <3>1, <3>2, <3>3, <3>4, <3>5
    <3> QED
      BY <1>2, <1>11, <3>6 DEF AtSchedule
  <2>2. CASE n # 1
    <3>1. Position(p)[e + 1][0] = <<j, m + 1>>
      BY <1>2, <1>4, <1>6, <1>8, <1>10, <2>2
    <3>2. DescriptorAt(p, e + 1) = d /\ OffsetAt(p, e + 1) = m + 1
      BY <3>1 DEF DescriptorAt, OffsetAt
    <3>3. IndexAt(p, e + 1) =
            d.start + (IF d.state = TRANSFER THEN (m + 1) * d.x_modify ELSE 0)
      BY <3>2 DEF IndexAt
    <3>4. /\ dma'.execute_index = j
          /\ dma'.current_ram_index =
               IF d.state = TRANSFER THEN x + d.x_modify ELSE x
          /\ dma'.x_count_remaining = n - 1
      BY <1>1, <1>5, <2>2, RunMoves
    <3>5. (m + 1) * d.x_modify = m * d.x_modify + d.x_modify
          /\ m * d.x_modify \in Int
      BY <1>8, Z3
    <3>6. /\ dma'.execute_index = Position(p)[e + 1][0][1]
          /\ dma'.current_ram_index = IndexAt(p, e + 1)
          /\ dma'.x_count_remaining =
               DescriptorAt(p, e + 1).x_count - OffsetAt(p, e + 1)
      <4> DEFINE here == m * d.x_modify
                 there == (m + 1) * d.x_modify
      <4>1. there = here + d.x_modify /\ here \in Int
        BY <3>5
      <4>2. x = d.start + (IF d.state = TRANSFER THEN here ELSE 0)
        BY <1>9
      <4>3. IndexAt(p, e + 1) =
              d.start + (IF d.state = TRANSFER THEN there ELSE 0)
        BY <3>3
      <4> HIDE DEF here, there, x, n, d, p, e
      <4>4. dma'.current_ram_index = IndexAt(p, e + 1)
        BY <1>8, <3>4, <4>1, <4>2, <4>3
      <4>5. dma'.x_count_remaining =
              DescriptorAt(p, e + 1).x_count - OffsetAt(p, e + 1)
        BY <1>7, <1>8, <3>2, <3>4
      <4> QED
        BY <3>1, <3>4, <4>4, <4>5
    <3> QED
      BY <1>2, <1>11, <3>6 DEF AtSchedule
  <2> QED
    BY <2>1, <2>2
<1>13. (e + 1) - 1 = e /\ e + 1 > 0
  BY <1>2
<1>14. FinishedWithBlock'
  <2>1. trans_finished' = (n = 1 /\ d.state = TRANSFER)
    BY <1>1, <1>5, RunMoves
  <2> QED
    BY <1>2, <1>4, <1>10, <1>13, <2>1 DEF FinishedWithBlock
<1>15. StreamOfLastEdge'
  <2>1. CASE d.state = TRANSFER
    <3>1. OnStream(IndexAt(p, e))
      BY <1>1, <1>5, <1>7, <2>1, RunMoves
    <3> QED
      BY <1>2, <1>4, <1>13, <2>1, <3>1 DEF StreamOfLastEdge, OnStream
  <2>2. CASE d.state # TRANSFER
    <3>1. OnStream(Zero)
      BY <1>1, <1>5, <2>2, RunMoves
    <3> QED
      BY <3>1 DEF StreamOfLastEdge, OnStream
  <2> QED
    BY <2>1, <2>2
<1> QED
  BY <1>12, <1>14, <1>15

(* What leaves the DMA alone, and does not make the stream show more.      *)
LEMMA OnScheduleIdle ==
  ASSUME OnSchedule, sent' = sent,
         UNCHANGED <<dma, touched, trans_finished, edges, program>>,
         sent = 0 /\ pc' = "loading" /\ MM2S => stream' = Zero,
         stream' = stream \/ ~MM2S \/ stream' = Zero
  PROVE  OnSchedule'
<1>1. sent > 0 => AtSchedule'
  BY DEF OnSchedule, AtSchedule
<1>2. sent > 0 => FinishedWithBlock'
  BY DEF OnSchedule, FinishedWithBlock
<1>3. sent > 0 => StreamOfLastEdge'
  BY DEF OnSchedule, StreamOfLastEdge
<1> QED
  BY <1>1, <1>2, <1>3 DEF OnSchedule

LEMMA OnScheduleReset ==
  ASSUME SInv, UpdateReset, program' \in Programs, sent' = 0, pc' # "loading"
  PROVE  OnSchedule'
<1>1. edges' = 0 /\ ~trans_finished'
  BY DEF UpdateReset
<1> QED
  BY <1>1 DEF OnSchedule

(* update(), when reset is high and when it is not.                        *)
LEMMA OnScheduleUpdate ==
  ASSUME SInv, program # <<>>, NEW rst \in BOOLEAN, rst => sent = 0,
         Update(rst), UNCHANGED <<program, sent>>,
         rst => pc' # "loading", ~raced'
  PROVE  OnSchedule'
<1>1. program \in Programs
  BY DEF SInv, IInv, TypeOK
<1>2. CASE rst /\ UpdateReset
  BY <1>1, <1>2, OnScheduleReset
<1>3. CASE UpdateRun
  <2>1. sent > 0 /\ sent = Len(program)
    BY <1>1, <1>3, RunMoves DEF SInv
  <2>2. AtSchedule' /\ FinishedWithBlock' /\ StreamOfLastEdge'
    BY <1>1, <1>3, OnScheduleRun
  <2>3. ~(sent < Len(program)) /\ ~(sent = 0)
    BY <1>1, <2>1, ProgramType
  <2> QED
    BY <2>2, <2>3 DEF OnSchedule
<1>4. CASE UpdateIdle
  <2>1. /\ UNCHANGED <<dma, touched, trans_finished, edges, raced>>
        /\ stream' = IF MM2S THEN Zero ELSE stream
    BY <1>4 DEF UpdateIdle, OnStream
  <2>2. OnSchedule
    BY <2>1 DEF SInv
  <2> QED
    BY <2>1, <2>2, OnScheduleIdle
<1> QED
  BY <1>2, <1>3, <1>4 DEF Update

(* The DMA does nothing but clear its stream until it has a descriptor.    *)
LEMMA UpdateOfDefault ==
  ASSUME SInv, program # <<>>, sent = 0, Update(FALSE)
  PROVE  UpdateIdle
<1>1. dma.descriptors = <<default_descriptor>> /\ dma.execute_index = 0
  BY DEF SInv, IInv, Holds
<1>2. Fetch(dma.descriptors, dma.execute_index) = {default_descriptor}
  BY <1>1 DEF Fetch
<1>3. ~UpdateRun
  BY <1>2 DEF UpdateRun, default_descriptor
<1> QED
  BY <1>3 DEF Update

LEMMA OnScheduleLoad ==
  ASSUME SInv, program # <<>>, LoadDescriptor, ~raced'
  PROVE  OnSchedule'
<1> DEFINE d == program[sent + 1]
<1>1. /\ program \in Programs /\ TypeOK /\ Holds /\ OnSchedule
  BY DEF SInv, IInv, TypeOK, LoadDescriptor
<1>2. /\ dma' = Loaded(dma, d) /\ sent' = sent + 1
      /\ sent < Len(program) /\ pc = "loading"
      /\ UNCHANGED <<stream, touched, trans_finished, edges, program>>
  BY DEF LoadDescriptor
<1>3. sent \in Nat /\ sent' > 0 /\ sent' # 0
  BY <1>1, <1>2, ProgramType DEF TypeOK
<1>4. edges = 0 /\ edges' = 0
  BY <1>1, <1>2 DEF OnSchedule
<1>5. CASE sent = 0
  <2>1. dma.descriptor_count = 0 /\ touched = {}
    BY <1>1, <1>5 DEF Holds
  <2>2. /\ dma'.execute_index = 0
        /\ dma'.current_ram_index = d.start
        /\ dma'.x_count_remaining = d.x_count
    BY <1>2, <2>1, DmaFields DEF Loaded, Enter
  <2>3. d = program[1] /\ d.x_count \in Nat
    <3>1. 0 \in Index(program) /\ 0 + 1 = 1
      BY <1>1, ProgramType DEF Index
    <3> QED
      BY <1>1, <1>5, <3>1, Inside
  <2>4. AtSchedule'
    BY <1>1, <1>2, <1>4, <2>1, <2>2, <2>3, AtStart DEF AtSchedule
  <2>5. FinishedWithBlock'
    BY <1>1, <1>2, <1>4, <1>5 DEF FinishedWithBlock, OnSchedule
  <2>6. StreamOfLastEdge'
    BY <1>1, <1>2, <1>5 DEF StreamOfLastEdge, OnSchedule
  <2> QED
    BY <1>3, <1>4, <2>4, <2>5, <2>6 DEF OnSchedule
<1>6. CASE sent # 0
  <2>1. sent > 0 /\ dma.descriptor_count # 0
    BY <1>1, <1>3, <1>6 DEF Holds
  <2>2. /\ dma'.execute_index = dma.execute_index
        /\ dma'.current_ram_index = dma.current_ram_index
        /\ dma'.x_count_remaining = dma.x_count_remaining
    <3> DEFINE ds == Append(dma.descriptors, d)
               c  == dma.descriptor_count + 1
    <3>1. dma' = Dma(ds, c, dma.execute_index, dma.current_ram_index,
                     dma.x_count_remaining)
      BY <1>2, <2>1 DEF Loaded
    <3> HIDE DEF ds, c
    <3> QED
      BY <3>1, DmaFields
  <2>3. AtSchedule'
    BY <1>1, <1>2, <2>1, <2>2 DEF AtSchedule, OnSchedule
  <2>4. FinishedWithBlock'
    BY <1>1, <1>2, <2>1 DEF FinishedWithBlock, OnSchedule
  <2>5. StreamOfLastEdge'
    BY <1>1, <1>2, <2>1 DEF StreamOfLastEdge, OnSchedule
  <2> QED
    BY <1>3, <1>4, <2>3, <2>4, <2>5 DEF OnSchedule
<1> QED
  BY <1>5, <1>6

LEMMA ScheduleInit == Init => SInv
  BY InvInit DEF Init, SInv

LEMMA ScheduleStep == SInv /\ [Next]_vars => SInv'
<1> SUFFICES ASSUME SInv, [Next]_vars, program' # <<>>, ~raced'
             PROVE  OnSchedule'
  BY InvStep DEF SInv
<1>1. TypeOK /\ TypeOK' /\ IInv
  BY TypeStep DEF SInv, IInv
<1>2. program # <<>> => program \in Programs /\ Holds /\ Protocol
  BY <1>1 DEF IInv, TypeOK
<1>3. program = <<>> => NeverProgrammed
  BY <1>1 DEF IInv
<1>4. CASE Clock
  <2>1. /\ Update(reset) /\ reset \in BOOLEAN
        /\ UNCHANGED <<reset, pc, program, sent>>
    BY <1>1, <1>4 DEF Clock, driver, TypeOK
  <2>2. reset => sent = 0 /\ pc' # "loading"
    BY <1>2, <2>1 DEF Protocol
  <2> QED
    BY <2>1, <2>2, OnScheduleUpdate
<1>5. CASE AssertReset
  <2>1. program' \in Programs /\ sent' = 0 /\ pc' # "loading"
    BY <1>5 DEF AssertReset
  <2>2. CASE ~reset
    BY <1>5, <2>1, <2>2, OnScheduleReset DEF AssertReset
  <2>3. CASE reset
    <3>1. program # <<>> /\ sent = 0
      BY <1>2, <1>3, <2>3 DEF NeverProgrammed, Protocol
    <3>2. UNCHANGED <<edges, trans_finished, raced>>
      BY <1>5, <2>3 DEF AssertReset, channel
    <3>3. edges = 0 /\ ~trans_finished
      BY <3>1, <3>2 DEF SInv, OnSchedule
    <3> QED
      BY <2>1, <3>2, <3>3 DEF OnSchedule
  <2> QED
    BY <2>2, <2>3
<1>6. CASE ReleaseReset
  <2>1. /\ Update(FALSE) /\ UNCHANGED <<program, sent>> /\ pc = "resetting"
    BY <1>6 DEF ReleaseReset
  <2>2. program # <<>> /\ sent = 0
    BY <1>2, <2>1 DEF Protocol
  <2>3. UpdateIdle
    BY <2>1, <2>2, UpdateOfDefault
  <2>4. /\ UNCHANGED <<dma, touched, trans_finished, edges, raced>>
        /\ stream' = IF MM2S THEN Zero ELSE stream
    BY <2>3 DEF UpdateIdle, OnStream
  <2>5. OnSchedule
    BY <2>2, <2>4 DEF SInv
  <2> QED
    BY <2>1, <2>4, <2>5, OnScheduleIdle
<1>7. CASE LoadDescriptor
  <2>1. program # <<>>
    BY <1>7 DEF LoadDescriptor
  <2> QED
    BY <1>7, <2>1, OnScheduleLoad
<1>8. CASE StartProcessor \/ StopProcessor \/ Abort \/ UNCHANGED vars
  <2>1. /\ UNCHANGED <<channel, program, sent>>
        /\ pc' = "loading" => pc = "loading"
    BY <1>8 DEF StartProcessor, StopProcessor, Abort, vars, driver
  <2>2. UNCHANGED <<dma, touched, trans_finished, edges, stream, raced>>
    BY <2>1 DEF channel
  <2>3. OnSchedule
    BY <2>1, <2>2 DEF SInv
  <2>4. sent = 0 /\ pc' = "loading" /\ MM2S => stream' = Zero
    BY <2>1, <2>2, <2>3 DEF OnSchedule
  <2> QED
    BY <2>1, <2>2, <2>3, <2>4, OnScheduleIdle
<1> QED
  BY <1>4, <1>5, <1>6, <1>7, <1>8 DEF Next

LEMMA ScheduleInvariant == Spec => []SInv
  BY ScheduleInit, ScheduleStep, PTL DEF Spec

LEMMA WhenLoaded ==
  SInv /\ FullyLoaded =>
    AtSchedule /\ FinishedWithBlock /\ StreamOfLastEdge
<1> SUFFICES ASSUME SInv, FullyLoaded PROVE sent > 0 /\ OnSchedule
  BY DEF OnSchedule
<1>1. program # <<>> /\ sent = Len(program) /\ ~raced
  BY DEF FullyLoaded
<1>2. program \in Programs
  BY <1>1 DEF SInv, IInv, TypeOK
<1> QED
  BY <1>1, <1>2, ProgramType DEF SInv

(***************************************************************************)
(* For every set of well-formed programs: the index, pointer and counter   *)
(* of DMA.cc are where the program unrolled edge by edge says, and the RAM *)
(* cells touched are those it lists, neither more nor fewer, whatever was  *)
(* paused, reset or left half done before.                                 *)
(***************************************************************************)
THEOREM ScheduleIsFollowed == Spec => []FollowsSchedule
<1>1. SInv => FollowsSchedule
  BY WhenLoaded DEF FollowsSchedule, AtSchedule
<1> QED
  BY <1>1, ScheduleInvariant, PTL

(***************************************************************************)
(* trans_finished is high after the last element of a block and at no      *)
(* other time, for every set of well-formed programs.                      *)
(***************************************************************************)
THEOREM FinishedWhenBlockDone == Spec => []FinishedMeansBlockDone
<1>1. SInv => FinishedMeansBlockDone
  BY WhenLoaded DEF FinishedMeansBlockDone, FinishedWithBlock
<1> QED
  BY <1>1, ScheduleInvariant, PTL

(***************************************************************************)
(* A running stream shows the cell of the last edge or zero: the value that *)
(* a reset leaves on it is gone before the first descriptor is executed.   *)
(***************************************************************************)
THEOREM StreamIsNeverStale == Spec => []StreamShowsLastEdge
<1>1. SInv => StreamShowsLastEdge
  BY WhenLoaded DEF StreamShowsLastEdge, StreamOfLastEdge
<1> QED
  BY <1>1, ScheduleInvariant, PTL
=============================================================================
