------------------------- MODULE MemoryHierarchyProofs -------------------------
(***************************************************************************)
(* For every image size: the four DMAs of the memory hierarchy cut the     *)
(* image into faithful slices (MemoryHierarchy!SlicesFaithful) and         *)
(* implement an ordered copy (OrderedCopy).                                *)
(*                                                                         *)
(* The argument is that the DMAs, which never talk to each other, are      *)
(* nevertheless functions of one number, the clock edges the copy has run  *)
(* for: S2mmAt and Mm2sAt say which.                                       *)
(***************************************************************************)
EXTENDS MemoryHierarchy, Integers, SequenceTheorems, TLAPS

-----------------------------------------------------------------------------
(* The functions of the engine return values of their types,               *)

LEMMA DefaultType == default_descriptor \in Descriptor
  BY EngineAssumption DEF default_descriptor, Descriptor, UInt, SUSPENDED

LEMMA ZeroType == 0 \in UInt /\ 1 \in UInt
  BY EngineAssumption DEF UInt

LEMMA EnterType ==
  ASSUME NEW ds \in Seq(Descriptor), NEW n \in Nat,
         NEW i \in UInt, NEW x \in Descriptor
  PROVE  Enter(ds, n, i, x) \in DmaState
  BY DEF Enter, Dma, DmaState, Descriptor

LEMMA ClearedType == Cleared \in DmaState
<1>1. <<default_descriptor>> \in Seq(Descriptor)
  BY DefaultType
<1>. QED
  BY <1>1, DefaultType, ZeroType, EnterType DEF Cleared

(* and this is what they do to the fields.                                 *)

LEMMA DmaFields ==
  ASSUME NEW ds, NEW n, NEW i, NEW x, NEW r
  PROVE  /\ Dma(ds, n, i, x, r).descriptors = ds
         /\ Dma(ds, n, i, x, r).descriptor_count = n
         /\ Dma(ds, n, i, x, r).execute_index = i
         /\ Dma(ds, n, i, x, r).current_ram_index = x
         /\ Dma(ds, n, i, x, r).x_count_remaining = r
  BY DEF Dma

(* Word arithmetic that does not wrap.                                     *)

LEMMA InWord ==
  ASSUME NEW w \in Nat, NEW x \in Nat, x < w
  PROVE  x % w = x
  OBVIOUS

LEMMA CountDown ==
  ASSUME NEW w \in Nat, NEW r \in Nat, r > 0, r < w
  PROVE  (r + w - 1) % w = r - 1
  BY Z3

(* A step that ends the descriptor, and one that only counts.              *)

LEMMA AdvancedLast ==
  ASSUME NEW ds, NEW n, NEW i, NEW x, NEW cur, NEW nxt
  PROVE  Advanced(Dma(ds, n, i, x, 1), cur, nxt) =
           Dma(ds, n, cur.next, nxt.start, nxt.x_count)
<1>. DEFINE d == Dma(ds, n, i, x, 1)
<1>1. d.descriptors = ds /\ d.descriptor_count = n /\ d.x_count_remaining = 1
  BY DmaFields
<1>. HIDE DEF d
<1>2. LastCount(d)
  BY <1>1 DEF LastCount
<1>3. Advanced(d, cur, nxt) = Enter(ds, n, cur.next, nxt)
  BY <1>1, <1>2 DEF Advanced
<1>. QED
  BY <1>3 DEF Enter, d

LEMMA AdvancedCount ==
  ASSUME NEW ds, NEW n, NEW i, NEW x, NEW cur, NEW nxt,
         NEW r \in Nat, r > 1, r < Word
  PROVE  Advanced(Dma(ds, n, i, x, r), cur, nxt) =
           Dma(ds, n, i,
               IF cur.state = TRANSFER THEN (x + cur.x_modify) % Word ELSE x,
               r - 1)
<1>. DEFINE d == Dma(ds, n, i, x, r)
<1>1. /\ d.descriptors = ds /\ d.descriptor_count = n
      /\ d.execute_index = i /\ d.current_ram_index = x
      /\ d.x_count_remaining = r
  BY DmaFields
<1>. HIDE DEF d
<1>2. ~LastCount(d)
  BY <1>1 DEF LastCount
<1>3. (r + Word - 1) % Word = r - 1
  BY CountDown, EngineAssumption
<1>4. Advanced(d, cur, nxt) =
        Dma(ds, n, i,
            IF cur.state = TRANSFER THEN (x + cur.x_modify) % Word ELSE x,
            r - 1)
  BY <1>1, <1>2, <1>3 DEF Advanced
<1>. QED
  BY <1>4 DEF d

(* The vectors of the programs, of up to three descriptors, as they grow.  *)

Prefix(s, n) ==
  IF n = 1 THEN <<s[1]>>
  ELSE IF n = 2 THEN <<s[1], s[2]>> ELSE <<s[1], s[2], s[3]>>

LEMMA AppendPair ==
  ASSUME NEW S, NEW x \in S, NEW y \in S, NEW z \in S
  PROVE  /\ Append(<<x>>, y) = <<x, y>>
         /\ Append(<<x, y>>, z) = <<x, y, z>>
<1>1. /\ <<x>> \in Seq(S) /\ <<x, y>> \in Seq(S) /\ <<x, y, z>> \in Seq(S)
      /\ Len(<<x>>) = 1 /\ Len(<<x, y>>) = 2 /\ Len(<<x, y, z>>) = 3
  OBVIOUS
<1>2. Append(<<x>>, y) = <<x, y>>
  <2>1. Append(<<x>>, y) \in Seq(S) /\ Len(Append(<<x>>, y)) = 2
    BY <1>1
  <2>2. \A i \in 1 .. 2 : Append(<<x>>, y)[i] = <<x, y>>[i]
    BY <1>1
  <2>. QED
    BY <1>1, <2>1, <2>2, SeqEqual
<1>3. Append(<<x, y>>, z) = <<x, y, z>>
  <2>1. Append(<<x, y>>, z) \in Seq(S) /\ Len(Append(<<x, y>>, z)) = 3
    BY <1>1
  <2>2. \A i \in 1 .. 3 : Append(<<x, y>>, z)[i] = <<x, y, z>>[i]
    BY <1>1
  <2>. QED
    BY <1>1, <2>1, <2>2, SeqEqual
<1>. QED
  BY <1>2, <1>3

LEMMA PrefixStep ==
  ASSUME NEW s, NEW n \in 1 .. 2
  PROVE  Append(Prefix(s, n), s[n + 1]) = Prefix(s, n + 1)
<1>1. /\ Prefix(s, 1) = <<s[1]>>
      /\ Prefix(s, 2) = <<s[1], s[2]>>
      /\ Prefix(s, 3) = <<s[1], s[2], s[3]>>
  BY DEF Prefix
<1>. DEFINE S == {s[1], s[2], s[3]}
<1>2. s[1] \in S /\ s[2] \in S /\ s[3] \in S
  OBVIOUS
<1>. HIDE DEF S
<1>3. /\ Append(<<s[1]>>, s[2]) = <<s[1], s[2]>>
      /\ Append(<<s[1], s[2]>>, s[3]) = <<s[1], s[2], s[3]>>
  BY <1>2, AppendPair
<1>4. CASE n = 1
  <2>1. n + 1 = 2
    BY <1>4
  <2>. QED
    BY <1>1, <1>3, <1>4, <2>1
<1>5. CASE n = 2
  <2>1. n + 1 = 3
    BY <1>5
  <2>. QED
    BY <1>1, <1>3, <1>5, <2>1
<1>. QED
  BY <1>4, <1>5

-----------------------------------------------------------------------------
(* The inductive invariant.                                                *)

(* The S2MM DMA of slice k after e edges.                                  *)
S2mmAt(k, e) ==
  IF e <= Offset(k)
    THEN Dma(ram_descriptors(k), 3, 0, 0, 1 + Offset(k) - e)
    ELSE IF e <= Offset(k) + SMALL_RAM_SIZE
      THEN Dma(ram_descriptors(k), 3, 1, e - 1 - Offset(k),
               Offset(k) + SMALL_RAM_SIZE + 1 - e)
      ELSE Dma(ram_descriptors(k), 3, 2, 0, 0)

(* The MM2S DMA about to send pixel p.                                     *)
Mm2sAt(p) == Dma(<<desc_mm2s>>, 1, 0, p, BIG_RAM_SIZE - p)

(* A DMA of which n descriptors have been loaded, none executed.           *)
LoadedAt(c, n) ==
  IF n = 0 THEN Cleared
  ELSE Dma(Prefix(Program(c), n), n, 0, 0, Program(c)[1].x_count)

(* Nothing has been loaded, not even the default descriptor.               *)
Virgin ==
  /\ pc = "idle" /\ ~enable /\ ~reset
  /\ \A c \in Channel : dma[c].descriptor_count = 0
  /\ lost = {}

Loading ==
  /\ pc \in {"idle", "resetting", "loading"} /\ ~enable
  /\ lost = {}
  /\ \A c \in Channel : \E n \in 0 .. Len(Program(c)) : dma[c] = LoadedAt(c, n)

(* What the bus shows after e edges, if that is a pixel of this run.       *)
BusFaithful ==
  Elapsed \in 1 .. BIG_RAM_SIZE =>
    \/ stream_bus = image[Copied]
    \/ stream_bus = Zero /\ Copied \in lost

Copying ==
  /\ pc \in {"idle", "running", "stopped"} /\ ~reset
  /\ Elapsed \in 0 .. AllEdges
  /\ \A k \in Slice : dma[k] = S2mmAt(k, Elapsed)
  /\ \E p \in 0 .. BIG_RAM_SIZE - 1 :
       /\ dma[0] = Mm2sAt(p)
       /\ Elapsed < BIG_RAM_SIZE => p = Elapsed
  /\ BusFaithful
  /\ SlicesFaithful

IInv ==
  /\ TypeOK
  /\ pc \in {"resetting", "loading", "idle", "stopped"} => ~enable
  /\ pc \in {"loading", "running", "stopped"} => ~reset
  /\ Virgin \/ Loading \/ Copying

-----------------------------------------------------------------------------
(* The constants and the programs.                                         *)

LEMMA Sizes ==
  /\ SMALL_RAM_SIZE \in Nat /\ SMALL_RAM_SIZE > 0
  /\ BIG_RAM_SIZE = 3 * SMALL_RAM_SIZE
  /\ BIG_RAM_SIZE \in Nat /\ BIG_RAM_SIZE + 1 < Word
  /\ Word \in Nat /\ AllEdges = BIG_RAM_SIZE + 1
  BY DescriptorsAssumption, EngineAssumption
  DEF SMALL_RAM_SIZE, BIG_RAM_SIZE, AllEdges

LEMMA Offsets ==
  /\ Offset(1) = 0
  /\ Offset(2) = SMALL_RAM_SIZE
  /\ Offset(3) = SMALL_RAM_SIZE + SMALL_RAM_SIZE
<1>. DEFINE n == SMALL_RAM_SIZE
<1>1. n \in Nat
  BY Sizes
<1>. HIDE DEF n
<1>2. (1 - 1) * n = 0 /\ (2 - 1) * n = n /\ (3 - 1) * n = n + n
  BY <1>1
<1>. QED
  BY <1>2 DEF Offset, n

LEMMA OffsetBounds ==
  ASSUME NEW k \in Slice
  PROVE  /\ Offset(k) \in Nat
         /\ Offset(k) + SMALL_RAM_SIZE <= BIG_RAM_SIZE
<1>1. k = 1 \/ k = 2 \/ k = 3
  BY DEF Slice
<1>. QED
  BY <1>1, Sizes, Offsets

LEMMA SlicesDisjoint ==
  ASSUME NEW k \in Slice, NEW l \in Slice, k # l
  PROVE  \/ Offset(k) + SMALL_RAM_SIZE <= Offset(l)
         \/ Offset(l) + SMALL_RAM_SIZE <= Offset(k)
<1>1. (k = 1 \/ k = 2 \/ k = 3) /\ (l = 1 \/ l = 2 \/ l = 3)
  BY DEF Slice
<1>. QED
  BY <1>1, Sizes, Offsets

LEMMA RamProgram ==
  ASSUME NEW k \in Slice
  PROVE  /\ ram_descriptors(k)[1] = wait_descriptor(k)
         /\ ram_descriptors(k)[2] = slice_descriptor
         /\ ram_descriptors(k)[3] = done_descriptor
         /\ Len(ram_descriptors(k)) = 3
         /\ Program(k) = ram_descriptors(k)
<1>1. k # 0
  BY DEF Slice
<1>. QED
  BY <1>1 DEF ram_descriptors, Program

LEMMA DescriptorFields ==
  ASSUME NEW k
  PROVE  /\ wait_descriptor(k).state = WAIT /\ wait_descriptor(k).next = 1
         /\ wait_descriptor(k).x_count = 1 + Offset(k)
         /\ wait_descriptor(k).start = 0
         /\ slice_descriptor.state = TRANSFER /\ slice_descriptor.next = 2
         /\ slice_descriptor.start = 0 /\ slice_descriptor.x_modify = 1
         /\ slice_descriptor.x_count = SMALL_RAM_SIZE
         /\ done_descriptor.state = SUSPENDED
         /\ done_descriptor.start = 0 /\ done_descriptor.x_count = 0
         /\ desc_mm2s.state = TRANSFER /\ desc_mm2s.next = 0
         /\ desc_mm2s.start = 0 /\ desc_mm2s.x_modify = 1
         /\ desc_mm2s.x_count = BIG_RAM_SIZE
  BY DEF wait_descriptor, slice_descriptor, done_descriptor, desc_mm2s

LEMMA States ==
  /\ SUSPENDED # TRANSFER /\ SUSPENDED # WAIT /\ WAIT # TRANSFER
  BY DEF SUSPENDED, TRANSFER, WAIT

-----------------------------------------------------------------------------
(* How each DMA moves: S2mmAt and Mm2sAt under update().                   *)

LEMMA WaitStep ==
  ASSUME enable, NEW k \in Slice, NEW e \in Nat, e <= Offset(k)
  PROVE  /\ ~Transferring(S2mmAt(k, e))
         /\ Stepped(S2mmAt(k, e)) = S2mmAt(k, e + 1)
<1>. DEFINE d == S2mmAt(k, e)
            ds == ram_descriptors(k)
            b == Offset(k)
            r == 1 + b - e
<1>1. b \in Nat /\ SMALL_RAM_SIZE \in Nat /\ SMALL_RAM_SIZE > 0
      /\ b + SMALL_RAM_SIZE + 1 < Word /\ Word \in Nat
  BY Sizes, OffsetBounds
<1>2. r \in Nat /\ r > 0 /\ r < Word
  BY <1>1
<1>3. ds[1] = wait_descriptor(k) /\ ds[2] = slice_descriptor
  BY RamProgram
<1>. HIDE DEF ds
<1>4. d = Dma(ds, 3, 0, 0, r)
  BY DEF S2mmAt, ds
<1>. HIDE DEF d, b, r
<1>5. d.descriptors = ds /\ d.execute_index = 0
  BY <1>4, DmaFields
<1>6. Executing(d) = wait_descriptor(k)
  BY <1>3, <1>5 DEF Executing
<1>7. Active(d) /\ ~Transferring(d)
  BY <1>6, DescriptorFields, States DEF Active, Transferring
<1>8. Stepped(d) = Advanced(d, wait_descriptor(k), slice_descriptor)
  <2>1. d.descriptors[Executing(d).next + 1] = slice_descriptor
    BY <1>3, <1>5, <1>6, DescriptorFields
  <2>. QED
    BY <1>6, <1>7, <2>1 DEF Stepped
<1>9. CASE r = 1
  <2>1. Advanced(d, wait_descriptor(k), slice_descriptor) =
          Dma(ds, 3, 1, 0, SMALL_RAM_SIZE)
    BY <1>4, <1>9, AdvancedLast, DescriptorFields
  <2>2. e = b
    BY <1>1, <1>9 DEF r
  <2>3. /\ ~(e + 1 <= b) /\ e + 1 <= b + SMALL_RAM_SIZE
        /\ (e + 1) - 1 - b = 0
        /\ b + SMALL_RAM_SIZE + 1 - (e + 1) = SMALL_RAM_SIZE
    BY <1>1, <2>2
  <2>4. S2mmAt(k, e + 1) = Dma(ds, 3, 1, 0, SMALL_RAM_SIZE)
    BY <2>3 DEF S2mmAt, ds, b
  <2>. QED
    BY <1>7, <1>8, <2>1, <2>4 DEF d
<1>10. CASE r # 1
  <2>1. r > 1
    BY <1>2, <1>10
  <2>2. Advanced(d, wait_descriptor(k), slice_descriptor) =
          Dma(ds, 3, 0, 0, r - 1)
    BY <1>2, <1>4, <2>1, AdvancedCount, DescriptorFields, States
  <2>3. e + 1 <= b /\ r - 1 = 1 + b - (e + 1)
    BY <1>1, <2>1 DEF r
  <2>4. S2mmAt(k, e + 1) = Dma(ds, 3, 0, 0, r - 1)
    BY <2>3 DEF S2mmAt, ds, b
  <2>. QED
    BY <1>7, <1>8, <2>2, <2>4 DEF d
<1>. QED
  BY <1>9, <1>10

LEMMA SliceStep ==
  ASSUME enable, NEW k \in Slice, NEW e \in Nat,
         Offset(k) < e, e <= Offset(k) + SMALL_RAM_SIZE
  PROVE  /\ Transferring(S2mmAt(k, e))
         /\ S2mmAt(k, e).current_ram_index = e - 1 - Offset(k)
         /\ Stepped(S2mmAt(k, e)) = S2mmAt(k, e + 1)
<1>. DEFINE d == S2mmAt(k, e)
            ds == ram_descriptors(k)
            b == Offset(k)
            n == SMALL_RAM_SIZE
            r == b + n + 1 - e
            x == e - 1 - b
<1>1. b \in Nat /\ n \in Nat /\ n > 0
      /\ b + n + 1 < Word /\ Word \in Nat
  BY Sizes, OffsetBounds
<1>2. r \in Nat /\ r > 0 /\ r < Word /\ x \in Nat /\ x + 1 < Word
  BY <1>1
<1>3. ds[2] = slice_descriptor /\ ds[3] = done_descriptor
  BY RamProgram
<1>. HIDE DEF ds
<1>4. ~(e <= b) /\ e <= b + n
  BY <1>1
<1>5. d = Dma(ds, 3, 1, x, r)
  BY <1>4 DEF S2mmAt, ds
<1>. HIDE DEF d, b, r, x, n
<1>6. /\ d.descriptors = ds /\ d.execute_index = 1
      /\ d.current_ram_index = x
  BY <1>5, DmaFields
<1>7. Executing(d) = slice_descriptor
  BY <1>3, <1>6 DEF Executing
<1>8. Active(d) /\ Transferring(d)
  BY <1>7, DescriptorFields, States DEF Active, Transferring
<1>9. Stepped(d) = Advanced(d, slice_descriptor, done_descriptor)
  <2>1. d.descriptors[Executing(d).next + 1] = done_descriptor
    BY <1>3, <1>6, <1>7, DescriptorFields
  <2>. QED
    BY <1>7, <1>8, <2>1 DEF Stepped
<1>10. CASE r = 1
  <2>1. Advanced(d, slice_descriptor, done_descriptor) = Dma(ds, 3, 2, 0, 0)
    BY <1>5, <1>10, AdvancedLast, DescriptorFields
  <2>2. ~(e + 1 <= b) /\ ~(e + 1 <= b + n)
    BY <1>1, <1>10 DEF r
  <2>3. S2mmAt(k, e + 1) = Dma(ds, 3, 2, 0, 0)
    BY <2>2 DEF S2mmAt, ds, b, n
  <2>. QED
    BY <1>6, <1>8, <1>9, <2>1, <2>3 DEF d, x, b
<1>11. CASE r # 1
  <2>1. r > 1
    BY <1>2, <1>11
  <2>2. (x + slice_descriptor.x_modify) % Word = x + 1
    BY <1>1, <1>2, InWord, DescriptorFields
  <2>3. Advanced(d, slice_descriptor, done_descriptor) =
          Dma(ds, 3, 1, x + 1, r - 1)
    BY <1>2, <1>5, <2>1, <2>2, AdvancedCount, DescriptorFields
  <2>4. /\ ~(e + 1 <= b) /\ e + 1 <= b + n
        /\ r - 1 = b + n + 1 - (e + 1) /\ x + 1 = (e + 1) - 1 - b
    BY <1>1, <1>4, <2>1 DEF r, x
  <2>5. S2mmAt(k, e + 1) = Dma(ds, 3, 1, x + 1, r - 1)
    BY <2>4 DEF S2mmAt, ds, b, n
  <2>. QED
    BY <1>6, <1>8, <1>9, <2>3, <2>5 DEF d, x, b
<1>. QED
  BY <1>10, <1>11

LEMMA DoneStep ==
  ASSUME NEW k \in Slice, NEW e \in Nat, e > Offset(k) + SMALL_RAM_SIZE
  PROVE  /\ ~Transferring(S2mmAt(k, e))
         /\ Stepped(S2mmAt(k, e)) = S2mmAt(k, e)
         /\ S2mmAt(k, e) = S2mmAt(k, e + 1)
<1>. DEFINE d == S2mmAt(k, e)
            ds == ram_descriptors(k)
<1>1. Offset(k) \in Nat /\ SMALL_RAM_SIZE \in Nat
  BY Sizes, OffsetBounds
<1>2. d = Dma(ds, 3, 2, 0, 0) /\ S2mmAt(k, e + 1) = Dma(ds, 3, 2, 0, 0)
  BY <1>1 DEF S2mmAt
<1>3. ds[3] = done_descriptor
  BY RamProgram
<1>. HIDE DEF d, ds
<1>4. d.descriptors = ds /\ d.execute_index = 2
  BY <1>2, DmaFields
<1>5. Executing(d) = done_descriptor
  BY <1>3, <1>4 DEF Executing
<1>6. ~Active(d)
  BY <1>5, DescriptorFields DEF Active
<1>. QED
  BY <1>2, <1>6 DEF Transferring, Stepped, d

LEMMA Mm2sStep ==
  ASSUME enable, NEW p \in 0 .. BIG_RAM_SIZE - 1
  PROVE  /\ Transferring(Mm2sAt(p))
         /\ Mm2sAt(p).current_ram_index = p
         /\ Stepped(Mm2sAt(p)) =
              Mm2sAt(IF p = BIG_RAM_SIZE - 1 THEN 0 ELSE p + 1)
<1>. DEFINE d == Mm2sAt(p)
            ds == <<desc_mm2s>>
            r == BIG_RAM_SIZE - p
<1>1. ds[1] = desc_mm2s
  OBVIOUS
<1>2. r \in Nat /\ r > 0 /\ r < Word /\ p \in Nat /\ p + 1 < Word
  BY Sizes
<1>3. d = Dma(ds, 1, 0, p, r)
  BY DEF Mm2sAt
<1>. HIDE DEF d, ds, r
<1>4. /\ d.descriptors = ds /\ d.execute_index = 0
      /\ d.current_ram_index = p
  BY <1>3, DmaFields
<1>5. Executing(d) = desc_mm2s
  BY <1>1, <1>4 DEF Executing
<1>6. Active(d) /\ Transferring(d)
  BY <1>5, DescriptorFields, States DEF Active, Transferring
<1>7. Stepped(d) = Advanced(d, desc_mm2s, desc_mm2s)
  <2>1. d.descriptors[Executing(d).next + 1] = desc_mm2s
    BY <1>1, <1>4, <1>5, DescriptorFields
  <2>. QED
    BY <1>5, <1>6, <2>1 DEF Stepped
<1>8. CASE p = BIG_RAM_SIZE - 1
  <2>1. r = 1 /\ BIG_RAM_SIZE - 0 = BIG_RAM_SIZE
    BY <1>8, Sizes DEF r
  <2>2. Advanced(d, desc_mm2s, desc_mm2s) = Dma(ds, 1, 0, 0, BIG_RAM_SIZE)
    BY <1>3, <2>1, AdvancedLast, DescriptorFields
  <2>3. Mm2sAt(0) = Dma(ds, 1, 0, 0, BIG_RAM_SIZE)
    BY <2>1 DEF Mm2sAt, ds
  <2>. QED
    BY <1>4, <1>6, <1>7, <1>8, <2>2, <2>3 DEF d
<1>9. CASE p # BIG_RAM_SIZE - 1
  <2>1. r > 1 /\ r - 1 = BIG_RAM_SIZE - (p + 1)
    BY <1>9, Sizes DEF r
  <2>2. (p + desc_mm2s.x_modify) % Word = p + 1
    BY <1>2, Sizes, InWord, DescriptorFields
  <2>3. Advanced(d, desc_mm2s, desc_mm2s) = Dma(ds, 1, 0, p + 1, r - 1)
    BY <1>2, <1>3, <2>1, <2>2, AdvancedCount, DescriptorFields
  <2>4. Mm2sAt(p + 1) = Dma(ds, 1, 0, p + 1, r - 1)
    BY <2>1 DEF Mm2sAt, ds
  <2>. QED
    BY <1>4, <1>6, <1>7, <1>9, <2>3, <2>4 DEF d
<1>. QED
  BY <1>8, <1>9

-----------------------------------------------------------------------------
(* How each DMA is loaded.                                                 *)

LEMMA ProgramFacts ==
  ASSUME NEW c \in Channel
  PROVE  /\ Len(Program(c)) = IF c = 0 THEN 1 ELSE 3
         /\ \A i \in 1 .. Len(Program(c)) : Program(c)[i] \in Descriptor
         /\ Program(c)[1].start = 0
<1>1. \A x \in 0 .. BIG_RAM_SIZE + 1 : x \in UInt
  BY Sizes DEF UInt
<1>2. 0 \in UInt /\ 1 \in UInt /\ 2 \in UInt /\ 3 \in UInt
  BY EngineAssumption DEF UInt
<1>3. CASE c = 0
  <2>1. desc_mm2s \in Descriptor
    BY <1>1, <1>2, Sizes DEF desc_mm2s, Descriptor, TRANSFER
  <2>. QED
    BY <1>3, <2>1, DescriptorFields DEF Program
<1>4. CASE c # 0
  <2>1. c \in Slice
    BY <1>4 DEF Channel, Slice
  <2>2. 1 + Offset(c) \in UInt /\ SMALL_RAM_SIZE \in UInt
    BY <1>1, <2>1, Sizes, OffsetBounds
  <2>3. wait_descriptor(c) \in Descriptor
    BY <1>2, <2>2 DEF wait_descriptor, Descriptor, WAIT
  <2>4. slice_descriptor \in Descriptor
    BY <1>2, <2>2 DEF slice_descriptor, Descriptor, TRANSFER
  <2>5. done_descriptor \in Descriptor
    BY <1>2 DEF done_descriptor, Descriptor, SUSPENDED
  <2>. QED
    BY <1>4, <2>1, <2>3, <2>4, <2>5, RamProgram, DescriptorFields
<1>. QED
  BY <1>3, <1>4

LEMMA LoadedCount ==
  ASSUME NEW c, NEW n \in Nat
  PROVE  LoadedAt(c, n).descriptor_count = n
<1>1. Cleared.descriptor_count = 0
  BY DmaFields DEF Cleared, Enter
<1>. QED
  BY <1>1, DmaFields DEF LoadedAt

LEMMA LoadedStep ==
  ASSUME NEW c \in Channel, NEW n \in 0 .. Len(Program(c)) - 1
  PROVE  Loaded(LoadedAt(c, n), Program(c)[n + 1]) = LoadedAt(c, n + 1)
<1>. DEFINE d == LoadedAt(c, n)
            desc == Program(c)[n + 1]
            ds == Prefix(Program(c), n)
            x == Program(c)[1].x_count
<1>1. n \in 0 .. 2 /\ d.descriptor_count = n
  BY ProgramFacts, LoadedCount
<1>2. CASE n = 0
  <2>1. Loaded(d, desc) = Dma(<<desc>>, 1, 0, 0, x)
    BY <1>1, <1>2, ProgramFacts DEF Loaded, Enter
  <2>2. Prefix(Program(c), 1) = <<desc>>
    BY <1>2 DEF Prefix
  <2>. QED
    BY <1>2, <2>1, <2>2 DEF LoadedAt
<1>3. CASE n # 0
  <2>1. d = Dma(ds, n, 0, 0, x)
    BY <1>3 DEF LoadedAt
  <2>2. Append(ds, desc) = Prefix(Program(c), n + 1)
    <3>1. n \in 1 .. 2
      BY <1>1, <1>3
    <3>. DEFINE p == Program(c)
    <3>. HIDE DEF p
    <3>2. Append(Prefix(p, n), p[n + 1]) = Prefix(p, n + 1)
      BY <3>1, PrefixStep
    <3>. QED
      BY <3>2 DEF p
  <2>. HIDE DEF d, desc, ds, x
  <2>3. /\ d.descriptors = ds /\ d.execute_index = 0
        /\ d.current_ram_index = 0 /\ d.x_count_remaining = x
    BY <2>1, DmaFields
  <2>4. Loaded(d, desc) = Dma(Append(ds, desc), n + 1, 0, 0, x)
    BY <1>1, <1>3, <2>3 DEF Loaded
  <2>5. n + 1 # 0
    BY <1>1
  <2>. QED
    BY <2>2, <2>4, <2>5 DEF LoadedAt, d, desc, x
<1>. QED
  BY <1>2, <1>3

LEMMA LoadedFull ==
  /\ LoadedAt(0, 1) = Mm2sAt(0)
  /\ \A k \in Slice : LoadedAt(k, 3) = S2mmAt(k, 0)
<1>1. LoadedAt(0, 1) = Mm2sAt(0)
  <2>1. Prefix(<<desc_mm2s>>, 1) = <<desc_mm2s>>
    BY DEF Prefix
  <2>2. BIG_RAM_SIZE - 0 = BIG_RAM_SIZE
    BY Sizes
  <2>. QED
    BY <2>1, <2>2, DescriptorFields DEF LoadedAt, Mm2sAt, Program
<1>2. ASSUME NEW k \in Slice PROVE LoadedAt(k, 3) = S2mmAt(k, 0)
  <2>1. Prefix(ram_descriptors(k), 3) = ram_descriptors(k)
    BY DEF Prefix, ram_descriptors
  <2>2. Offset(k) \in Nat /\ 1 + Offset(k) - 0 = 1 + Offset(k)
    BY OffsetBounds
  <2>3. S2mmAt(k, 0) = Dma(ram_descriptors(k), 3, 0, 0, 1 + Offset(k))
    BY <2>2 DEF S2mmAt
  <2>4. Program(k) = ram_descriptors(k)
        /\ Program(k)[1].x_count = 1 + Offset(k)
    BY RamProgram, DescriptorFields
  <2>5. LoadedAt(k, 3) =
          Dma(Prefix(Program(k), 3), 3, 0, 0, Program(k)[1].x_count)
    BY DEF LoadedAt
  <2>. QED
    BY <2>1, <2>3, <2>4, <2>5
<1>. QED
  BY <1>1, <1>2

-----------------------------------------------------------------------------
(* The edges that the last slice counts.                                   *)

LEMMA EdgesAt ==
  ASSUME NEW e \in 0 .. AllEdges
  PROVE  EdgesOf(S2mmAt(3, e)) = e
<1>. DEFINE s3 == S2mmAt(3, e)
<1>1. /\ 3 \in Slice /\ Offset(3) \in Nat
      /\ Offset(3) + SMALL_RAM_SIZE = BIG_RAM_SIZE
  BY Sizes, Offsets, OffsetBounds DEF Slice
<1>2. Len(Program(3)) = 3
  BY <1>1, RamProgram
<1>. HIDE DEF s3
<1>3. CASE e <= Offset(3)
  <2>1. s3 = Dma(ram_descriptors(3), 3, 0, 0, 1 + Offset(3) - e)
    BY <1>3 DEF S2mmAt, s3
  <2>2. /\ s3.descriptor_count = 3 /\ s3.execute_index = 0
        /\ s3.x_count_remaining = 1 + Offset(3) - e
    BY <2>1, DmaFields
  <2>3. EdgesOf(s3) = 1 + Offset(3) - (1 + Offset(3) - e)
    BY <1>2, <2>2 DEF EdgesOf
  <2>. QED
    BY <1>1, <2>3 DEF s3
<1>4. CASE ~(e <= Offset(3)) /\ e <= Offset(3) + SMALL_RAM_SIZE
  <2>1. s3 = Dma(ram_descriptors(3), 3, 1, e - 1 - Offset(3),
                Offset(3) + SMALL_RAM_SIZE + 1 - e)
    BY <1>4 DEF S2mmAt, s3
  <2>2. /\ s3.descriptor_count = 3 /\ s3.execute_index = 1
        /\ s3.x_count_remaining = Offset(3) + SMALL_RAM_SIZE + 1 - e
    BY <2>1, DmaFields
  <2>3. EdgesOf(s3) = AllEdges - (Offset(3) + SMALL_RAM_SIZE + 1 - e)
    BY <1>2, <2>2 DEF EdgesOf
  <2>. QED
    BY <1>1, <2>3, Sizes DEF s3
<1>5. CASE ~(e <= Offset(3)) /\ ~(e <= Offset(3) + SMALL_RAM_SIZE)
  <2>1. s3 = Dma(ram_descriptors(3), 3, 2, 0, 0)
    BY <1>5 DEF S2mmAt, s3
  <2>2. s3.descriptor_count = 3 /\ s3.execute_index = 2
    BY <2>1, DmaFields
  <2>3. EdgesOf(s3) = AllEdges
    BY <1>2, <2>2 DEF EdgesOf
  <2>. QED
    BY <1>1, <1>5, <2>3, Sizes DEF s3
<1>. QED
  BY <1>3, <1>4, <1>5

LEMMA EdgesLoaded ==
  ASSUME NEW n \in 0 .. 3
  PROVE  EdgesOf(LoadedAt(3, n)) = 0
<1>1. Len(Program(3)) = 3 /\ 3 \in Slice
  BY RamProgram DEF Slice
<1>2. CASE n < 3
  <2>1. LoadedAt(3, n).descriptor_count = n
    BY LoadedCount
  <2>2. n # 3
    BY <1>2
  <2>. QED
    BY <1>1, <2>1, <2>2 DEF EdgesOf
<1>3. CASE n = 3
  <2>1. 0 \in 0 .. AllEdges
    BY Sizes
  <2>. QED
    BY <1>1, <1>3, <2>1, LoadedFull, EdgesAt
<1>. QED
  BY <1>2, <1>3

LEMMA NotStarted ==
  ASSUME Virgin \/ Loading
  PROVE  Elapsed = 0 /\ Copied = 0 /\ lost = {} /\ ~enable
<1>1. 3 \in Channel /\ Len(Program(3)) = 3
  BY ProgramFacts DEF Channel
<1>2. CASE Virgin
  BY <1>1, <1>2 DEF Virgin, Elapsed, EdgesOf, Copied
<1>3. CASE Loading
  BY <1>1, <1>3, EdgesLoaded DEF Loading, Elapsed, Copied
<1>. QED
  BY <1>2, <1>3

-----------------------------------------------------------------------------
(* The values above are of the type of a DMA.                              *)

LEMMA DmaType ==
  ASSUME NEW ds \in Seq(Descriptor), NEW n \in Nat, NEW i \in UInt,
         NEW x \in UInt, NEW r \in UInt
  PROVE  Dma(ds, n, i, x, r) \in DmaState
  BY DEF Dma, DmaState

LEMMA FormTypes ==
  /\ \A k \in Slice : \A e \in 0 .. AllEdges : S2mmAt(k, e) \in DmaState
  /\ \A p \in 0 .. BIG_RAM_SIZE - 1 : Mm2sAt(p) \in DmaState
  /\ \A c \in Channel : \A n \in 0 .. Len(Program(c)) :
       LoadedAt(c, n) \in DmaState
<1>1. \A x \in 0 .. BIG_RAM_SIZE + 1 : x \in UInt
  BY Sizes DEF UInt
<1>2. 0 \in UInt /\ 1 \in UInt /\ 2 \in UInt
  BY EngineAssumption DEF UInt
<1>3. ASSUME NEW k \in Slice, NEW e \in 0 .. AllEdges
      PROVE  S2mmAt(k, e) \in DmaState
  <2>1. ram_descriptors(k) \in Seq(Descriptor)
    <3>1. /\ k \in Channel /\ k # 0
      BY DEF Channel, Slice
    <3>2. \A i \in 1 .. 3 : ram_descriptors(k)[i] \in Descriptor
      BY <3>1, ProgramFacts, RamProgram
    <3>. QED
      BY <3>2 DEF ram_descriptors
  <2>2. Offset(k) \in Nat /\ Offset(k) + SMALL_RAM_SIZE <= BIG_RAM_SIZE
        /\ SMALL_RAM_SIZE \in Nat
    BY OffsetBounds, Sizes
  <2>3. CASE e <= Offset(k)
    <3>1. 1 + Offset(k) - e \in UInt
      BY <1>1, <2>2, <2>3, Sizes
    <3>. QED
      BY <1>2, <2>1, <2>3, <3>1, DmaType DEF S2mmAt
  <2>4. CASE ~(e <= Offset(k)) /\ e <= Offset(k) + SMALL_RAM_SIZE
    <3>1. /\ e - 1 - Offset(k) \in UInt
          /\ Offset(k) + SMALL_RAM_SIZE + 1 - e \in UInt
      BY <1>1, <2>2, <2>4, Sizes
    <3>. QED
      BY <1>2, <2>1, <2>4, <3>1, DmaType DEF S2mmAt
  <2>5. CASE ~(e <= Offset(k)) /\ ~(e <= Offset(k) + SMALL_RAM_SIZE)
    BY <1>2, <2>1, <2>5, DmaType DEF S2mmAt
  <2>. QED
    BY <2>3, <2>4, <2>5
<1>4. ASSUME NEW p \in 0 .. BIG_RAM_SIZE - 1
      PROVE  Mm2sAt(p) \in DmaState
  <2>1. 0 \in Channel /\ Program(0) = <<desc_mm2s>>
    BY DEF Channel, Program
  <2>2. desc_mm2s \in Descriptor
    BY <2>1, ProgramFacts
  <2>3. p \in UInt /\ BIG_RAM_SIZE - p \in UInt
    BY <1>1, Sizes
  <2>4. <<desc_mm2s>> \in Seq(Descriptor) /\ 1 \in Nat
    BY <2>2
  <2>. QED
    BY <1>2, <2>3, <2>4, DmaType DEF Mm2sAt
<1>5. ASSUME NEW c \in Channel, NEW n \in 0 .. Len(Program(c))
      PROVE  LoadedAt(c, n) \in DmaState
  <2>1. CASE n = 0
    BY <2>1, ClearedType DEF LoadedAt
  <2>2. CASE n # 0
    <3>. DEFINE q == Program(c)
    <3>1. /\ n \in 1 .. 3 /\ n <= Len(q)
          /\ \A i \in 1 .. Len(q) : q[i] \in Descriptor
      BY <2>2, ProgramFacts
    <3>. HIDE DEF q
    <3>2. Prefix(q, n) \in Seq(Descriptor)
      <4>1. CASE n = 1
        BY <3>1, <4>1 DEF Prefix
      <4>2. CASE n = 2
        <5>1. q[1] \in Descriptor /\ q[2] \in Descriptor
          BY <3>1, <4>2, ProgramFacts DEF q
        <5>. QED
          BY <4>2, <5>1 DEF Prefix
      <4>3. CASE n = 3
        <5>1. /\ q[1] \in Descriptor /\ q[2] \in Descriptor
              /\ q[3] \in Descriptor
          BY <3>1, <4>3, ProgramFacts DEF q
        <5>. QED
          BY <4>3, <5>1 DEF Prefix
      <4>. QED
        BY <3>1, <4>1, <4>2, <4>3
    <3>3. q[1].x_count \in UInt
      BY <3>1, ProgramFacts DEF q, Descriptor
    <3>4. LoadedAt(c, n) = Dma(Prefix(q, n), n, 0, 0, q[1].x_count)
      BY <2>2 DEF LoadedAt, q
    <3>. QED
      BY <1>2, <3>1, <3>2, <3>3, <3>4, DmaType
  <2>. QED
    BY <2>1, <2>2
<1>. QED
  BY <1>3, <1>4, <1>5

-----------------------------------------------------------------------------
(* The inductive step, by what update() does.                              *)

LEMMA IdleStep ==
  ASSUME TypeOK, ~enable, UpdateRun
  PROVE  /\ dma' = dma /\ ram' = ram
         /\ stream_bus' = Zero
         /\ lost' = lost \cup InFlight
<1>1. \A d : Stepped(d) = d /\ ~Transferring(d)
  BY DEF Stepped, Transferring, Active
<1>2. dma' = [c \in Channel |-> dma[c]]
  BY <1>1 DEF UpdateRun
<1>3. ram' = [k \in Slice |-> ram[k]]
  BY <1>1 DEF UpdateRun, Written
<1>4. stream_bus' = Zero
  BY <1>1 DEF UpdateRun, OnBus
<1>. QED
  BY <1>2, <1>3, <1>4 DEF UpdateRun, TypeOK

LEMMA ResetStep ==
  ASSUME TypeOK, UpdateReset
  PROVE  /\ \A c \in Channel : dma'[c] = LoadedAt(c, 0)
         /\ dma' \in [Channel -> DmaState]
         /\ lost' = {} /\ UNCHANGED <<stream_bus, ram>>
<1>1. \A c \in Channel : dma'[c] = LoadedAt(c, 0)
  BY DEF UpdateReset, LoadedAt
<1>2. dma' \in [Channel -> DmaState]
  BY ClearedType DEF UpdateReset
<1>. QED
  BY <1>1, <1>2 DEF UpdateReset

(* What an edge of a running copy does to the slices.                      *)
Landing(k) == Elapsed \in Offset(k) + 1 .. Offset(k) + SMALL_RAM_SIZE

LEMMA RunSlice ==
  ASSUME Copying, enable, UpdateRun, NEW k \in Slice
  PROVE  /\ dma'[k] = S2mmAt(k, Elapsed + 1)
         /\ Elapsed = AllEdges => dma'[k] = S2mmAt(k, Elapsed)
         /\ ram'[k] = IF Landing(k)
                        THEN [ram[k] EXCEPT ![Elapsed - 1 - Offset(k)] = stream_bus]
                        ELSE ram[k]
<1>. DEFINE e == Elapsed
            d == S2mmAt(k, e)
<1>1. /\ Offset(k) \in Nat /\ SMALL_RAM_SIZE \in Nat /\ e \in Nat
      /\ Offset(k) + SMALL_RAM_SIZE <= BIG_RAM_SIZE
      /\ AllEdges = BIG_RAM_SIZE + 1 /\ BIG_RAM_SIZE \in Nat
  BY Sizes, OffsetBounds DEF Copying
<1>2. k \in Channel
  BY DEF Channel, Slice
<1>3. dma'[k] = Stepped(d) /\ ram'[k] = Written(d, ram[k])
  BY <1>2 DEF UpdateRun, Copying
<1>. HIDE DEF e, d
<1>4. CASE e <= Offset(k)
  <2>1. ~Transferring(d) /\ Stepped(d) = S2mmAt(k, e + 1)
    BY <1>1, <1>4, WaitStep DEF d
  <2>2. ~Landing(k) /\ e # AllEdges
    BY <1>1, <1>4 DEF Landing, e
  <2>. QED
    BY <1>3, <2>1, <2>2 DEF Written, e
<1>5. CASE Offset(k) < e /\ e <= Offset(k) + SMALL_RAM_SIZE
  <2>1. /\ Transferring(d) /\ Stepped(d) = S2mmAt(k, e + 1)
        /\ d.current_ram_index = e - 1 - Offset(k)
    BY <1>1, <1>5, SliceStep DEF d
  <2>2. Landing(k) /\ e # AllEdges
    BY <1>1, <1>5 DEF Landing, e
  <2>. QED
    BY <1>3, <2>1, <2>2 DEF Written, e
<1>6. CASE e > Offset(k) + SMALL_RAM_SIZE
  <2>1. /\ ~Transferring(d)
        /\ Stepped(d) = S2mmAt(k, e) /\ Stepped(d) = S2mmAt(k, e + 1)
    BY <1>1, <1>6, DoneStep DEF d
  <2>2. ~Landing(k)
    BY <1>1, <1>6 DEF Landing, e
  <2>. QED
    BY <1>3, <2>1, <2>2 DEF Written, e
<1>. QED
  BY <1>1, <1>4, <1>5, <1>6

LEMMA RunElapsed ==
  ASSUME Copying, enable, UpdateRun
  PROVE  /\ Elapsed' = IF Elapsed < AllEdges THEN Elapsed + 1 ELSE Elapsed
         /\ Elapsed' \in 0 .. AllEdges
         /\ \A k \in Slice : dma'[k] = S2mmAt(k, Elapsed')
<1>. DEFINE e == Elapsed
            f == IF e < AllEdges THEN e + 1 ELSE e
<1>1. e \in 0 .. AllEdges /\ AllEdges \in Nat
  BY Sizes DEF Copying
<1>2. ASSUME NEW k \in Slice PROVE dma'[k] = S2mmAt(k, f)
  <2>1. CASE e < AllEdges
    BY <2>1, RunSlice
  <2>2. CASE ~(e < AllEdges)
    <3>1. e = AllEdges
      BY <1>1, <2>2
    <3>. QED
      BY <2>2, <3>1, RunSlice
  <2>. QED
    BY <2>1, <2>2
<1>3. f \in 0 .. AllEdges
  BY <1>1
<1>. HIDE DEF f
<1>4. dma'[3] = S2mmAt(3, f)
  BY <1>2 DEF Slice
<1>5. EdgesOf(dma'[3]) = f
  BY <1>3, <1>4, EdgesAt
<1>6. Elapsed' = f
  BY <1>5 DEF Elapsed
<1>. QED
  BY <1>2, <1>3, <1>6 DEF f

LEMMA RunBus ==
  ASSUME TypeOK, Copying, enable, UpdateRun
  PROVE  /\ \E p \in 0 .. BIG_RAM_SIZE - 1 :
              /\ dma'[0] = Mm2sAt(p)
              /\ Elapsed' < BIG_RAM_SIZE => p = Elapsed'
         /\ stream_bus' \in Pixel
         /\ Elapsed < BIG_RAM_SIZE => stream_bus' = image[Elapsed]
<1>1. PICK p \in 0 .. BIG_RAM_SIZE - 1 :
        /\ dma[0] = Mm2sAt(p)
        /\ Elapsed < BIG_RAM_SIZE => p = Elapsed
  BY DEF Copying
<1>. DEFINE q == IF p = BIG_RAM_SIZE - 1 THEN 0 ELSE p + 1
<1>2. /\ Transferring(dma[0]) /\ dma[0].current_ram_index = p
      /\ Stepped(dma[0]) = Mm2sAt(q)
  BY <1>1, Mm2sStep
<1>3. 0 \in Channel
  BY DEF Channel
<1>4. dma'[0] = Mm2sAt(q) /\ stream_bus' = image[p]
  BY <1>2, <1>3 DEF UpdateRun, OnBus
<1>5. q \in 0 .. BIG_RAM_SIZE - 1
  BY Sizes
<1>6. Elapsed' < BIG_RAM_SIZE => q = Elapsed'
  <2>1. Elapsed \in 0 .. AllEdges
    BY DEF Copying
  <2>. QED
    BY <1>1, <2>1, RunElapsed, Sizes
<1>7. image[p] \in Pixel
  BY HierarchyAssumption DEF TypeOK
<1>. HIDE DEF q
<1>. QED
  BY <1>1, <1>4, <1>5, <1>6, <1>7

LEMMA RunFaithful ==
  ASSUME TypeOK, Copying, enable, UpdateRun, image' = image
  PROVE  BusFaithful' /\ SlicesFaithful'
<1>. DEFINE e == Elapsed
<1>1. /\ e \in 0 .. AllEdges /\ AllEdges = BIG_RAM_SIZE + 1
      /\ BIG_RAM_SIZE \in Nat /\ SMALL_RAM_SIZE \in Nat
  BY Sizes DEF Copying
<1>2. Elapsed' = IF e < AllEdges THEN e + 1 ELSE e
  BY RunElapsed
<1>3. Copied' = IF e < AllEdges THEN e ELSE Copied
  <2>1. e = AllEdges => Elapsed' = Elapsed
    BY <1>1, <1>2
  <2>2. e < AllEdges => Copied' = e
    BY <1>1, <1>2 DEF Copied
  <2>. QED
    BY <1>1, <2>1, <2>2 DEF Copied
<1>4. lost' = lost
  BY DEF UpdateRun
<1>5. BusFaithful'
  <2>1. SUFFICES ASSUME Elapsed' \in 1 .. BIG_RAM_SIZE
                 PROVE  stream_bus' = image'[Copied']
    BY DEF BusFaithful
  <2>2. e < BIG_RAM_SIZE /\ Copied' = e
    BY <1>1, <1>2, <1>3, <2>1
  <2>. QED
    BY <2>2, RunBus
<1>6. SlicesFaithful'
  <2>1. SUFFICES ASSUME NEW k \in Slice, NEW i \in 0 .. SMALL_RAM_SIZE - 1,
                        Offset(k) + i < Copied'
                 PROVE  \/ ram'[k][i] = image[Offset(k) + i]
                        \/ ram'[k][i] = Zero /\ Offset(k) + i \in lost
    BY <1>4 DEF SlicesFaithful, Offset
  <2>2. /\ Offset(k) \in Nat
        /\ Offset(k) + SMALL_RAM_SIZE <= BIG_RAM_SIZE
    BY OffsetBounds
  <2>3. /\ ram'[k] = IF Landing(k)
                      THEN [ram[k] EXCEPT ![e - 1 - Offset(k)] = stream_bus]
                      ELSE ram[k]
        /\ ram[k] \in [0 .. RamSize - 1 -> Pixel]
        /\ i \in 0 .. RamSize - 1
    <3>1. ram[k] \in [0 .. RamSize - 1 -> Pixel]
      BY DEF TypeOK
    <3>2. i \in 0 .. RamSize - 1
      <4>1. RamSize \in Nat /\ SMALL_RAM_SIZE <= RamSize
        BY HierarchyAssumption
      <4>. QED
        BY <1>1, <4>1
    <3>. QED
      BY <3>1, <3>2, RunSlice
  <2>4. CASE Offset(k) + i < Copied
    <3>1. \/ ram[k][i] = image[Offset(k) + i]
          \/ ram[k][i] = Zero /\ Offset(k) + i \in lost
      BY <2>4 DEF Copying, SlicesFaithful
    <3>2. i # e - 1 - Offset(k)
      BY <1>1, <2>2, <2>4 DEF Copied
    <3>. QED
      BY <2>3, <3>1, <3>2
  <2>5. CASE ~(Offset(k) + i < Copied)
    <3>1. /\ e \in 1 .. BIG_RAM_SIZE /\ Copied = e - 1
          /\ Offset(k) + i = e - 1
      BY <1>1, <1>3, <2>1, <2>2, <2>5 DEF Copied
    <3>2. Landing(k) /\ i = e - 1 - Offset(k)
      BY <1>1, <2>2, <3>1 DEF Landing
    <3>3. ram'[k][i] = stream_bus
      BY <2>3, <3>2
    <3>4. \/ stream_bus = image[Copied]
          \/ stream_bus = Zero /\ Copied \in lost
      BY <3>1 DEF Copying, BusFaithful
    <3>. QED
      BY <3>1, <3>3, <3>4
  <2>. QED
    BY <2>4, <2>5
<1>. QED
  BY <1>5, <1>6

-----------------------------------------------------------------------------
(* The induction, one lemma for each of the three phases.                  *)

LEMMA CopiedType ==
  ASSUME Copying
  PROVE  /\ Elapsed \in 0 .. AllEdges /\ AllEdges = BIG_RAM_SIZE + 1
         /\ BIG_RAM_SIZE \in Nat
         /\ Copied \in 0 .. BIG_RAM_SIZE
         /\ InFlight \subseteq 0 .. BIG_RAM_SIZE - 1
<1>1. /\ Elapsed \in 0 .. AllEdges /\ AllEdges = BIG_RAM_SIZE + 1
      /\ BIG_RAM_SIZE \in Nat
  BY Sizes DEF Copying
<1>. QED
  BY <1>1 DEF Copied, InFlight

LEMMA RunType ==
  ASSUME TypeOK, Copying, enable, UpdateRun
  PROVE  /\ dma' \in [Channel -> DmaState]
         /\ ram' \in [Slice -> [0 .. RamSize - 1 -> Pixel]]
         /\ stream_bus' \in Pixel
<1>1. \A k \in Slice : dma'[k] \in DmaState
  BY RunElapsed, FormTypes
<1>2. dma'[0] \in DmaState
  BY RunBus, FormTypes
<1>3. \A c \in Channel : c = 0 \/ c \in Slice
  BY DEF Channel, Slice
<1>4. dma' = [c \in Channel |-> dma'[c]]
  BY DEF UpdateRun
<1>5. dma' \in [Channel -> DmaState]
  BY <1>1, <1>2, <1>3, <1>4
<1>6. ASSUME NEW k \in Slice PROVE ram'[k] \in [0 .. RamSize - 1 -> Pixel]
  <2>1. /\ ram[k] \in [0 .. RamSize - 1 -> Pixel]
        /\ stream_bus \in Pixel
    BY DEF TypeOK
  <2>. QED
    BY <2>1, RunSlice
<1>7. ram' = [k \in Slice |-> ram'[k]]
  BY DEF UpdateRun
<1>. QED
  BY <1>5, <1>6, <1>7, RunBus

(* What every step keeps as long as it does not touch the hardware.        *)
LEMMA SameHardware ==
  ASSUME UNCHANGED <<dma, stream_bus, ram, lost, image>>
  PROVE  /\ Elapsed' = Elapsed /\ Copied' = Copied
         /\ BusFaithful' <=> BusFaithful
         /\ SlicesFaithful' <=> SlicesFaithful
<1>1. Elapsed' = Elapsed
  BY DEF Elapsed
<1>2. Copied' = Copied
  BY <1>1 DEF Copied
<1>. QED
  BY <1>1, <1>2 DEF BusFaithful, SlicesFaithful, Offset

LEMMA PauseFaithful ==
  ASSUME TypeOK, Copying, ~enable, UpdateRun, image' = image
  PROVE  /\ Elapsed' = Elapsed /\ Copied' = Copied
         /\ BusFaithful' /\ SlicesFaithful'
<1>1. /\ dma' = dma /\ ram' = ram /\ stream_bus' = Zero
      /\ lost' = lost \cup InFlight
  BY IdleStep
<1>2. Elapsed' = Elapsed
  BY <1>1 DEF Elapsed
<1>3. Copied' = Copied
  BY <1>2 DEF Copied
<1>4. BusFaithful'
  BY <1>1, <1>2, <1>3 DEF BusFaithful, InFlight
<1>5. SlicesFaithful'
  BY <1>1, <1>3 DEF Copying, SlicesFaithful, Offset
<1>. QED
  BY <1>2, <1>3, <1>4, <1>5

LEMMA ClockStep ==
  ASSUME IInv, Clock
  PROVE  IInv'
<1>1. /\ TypeOK /\ UNCHANGED <<image, reset, enable, pc>>
      /\ (reset => UpdateReset) /\ (~reset => UpdateRun)
  BY DEF IInv, Clock
<1>2. CASE reset
  <2>1. /\ \A c \in Channel : dma'[c] = LoadedAt(c, 0)
        /\ dma' \in [Channel -> DmaState]
        /\ lost' = {} /\ UNCHANGED <<stream_bus, ram>>
    BY <1>1, <1>2, ResetStep
  <2>2. Loading
    BY <1>2 DEF IInv, Virgin, Copying
  <2>3. Loading'
    <3>1. \A c \in Channel : 0 \in 0 .. Len(Program(c))
      BY ProgramFacts
    <3>. QED
      BY <1>1, <2>1, <2>2, <3>1 DEF Loading
  <2>4. TypeOK'
    BY <1>1, <2>1 DEF TypeOK
  <2>. QED
    BY <1>1, <2>3, <2>4 DEF IInv
<1>3. CASE ~reset /\ ~enable
  <2>1. /\ dma' = dma /\ ram' = ram /\ stream_bus' = Zero
        /\ lost' = lost \cup InFlight
    BY <1>1, <1>3, IdleStep
  <2>2. CASE Virgin \/ Loading
    <3>1. lost' = {} /\ InFlight = {}
      BY <2>1, <2>2, NotStarted DEF InFlight
    <3>2. (Virgin \/ Loading)'
      BY <1>1, <2>1, <2>2, <3>1 DEF Virgin, Loading
    <3>3. TypeOK'
      BY <1>1, <2>1, <3>1, HierarchyAssumption DEF TypeOK
    <3>. QED
      BY <1>1, <3>2, <3>3 DEF IInv
  <2>3. CASE Copying
    <3>1. Copying'
      BY <1>1, <1>3, <2>1, <2>3, PauseFaithful DEF Copying
    <3>2. TypeOK'
      BY <1>1, <2>1, <2>3, CopiedType, HierarchyAssumption DEF TypeOK
    <3>. QED
      BY <1>1, <3>1, <3>2 DEF IInv
  <2>. QED
    BY <2>2, <2>3 DEF IInv
<1>4. CASE ~reset /\ enable
  <2>1. Copying /\ UpdateRun
    BY <1>1, <1>4, NotStarted DEF IInv
  <2>2. lost' = lost
    BY <1>4, <2>1 DEF UpdateRun
  <2>3. Copying'
    BY <1>1, <1>4, <2>1, RunElapsed, RunBus, RunFaithful DEF Copying
  <2>4. TypeOK'
    BY <1>1, <1>4, <2>1, <2>2, RunType DEF TypeOK
  <2>. QED
    BY <1>1, <2>3, <2>4 DEF IInv
<1>. QED
  BY <1>1, <1>2, <1>3, <1>4

LEMMA AssertResetStep ==
  ASSUME IInv, AssertReset
  PROVE  IInv' /\ Loading'
<1>1. /\ TypeOK /\ pc \in {"idle", "stopped"} /\ ~enable
      /\ pc' = "resetting" /\ image' \in Images /\ reset' = TRUE
      /\ enable' = enable
      /\ (reset => UNCHANGED hardware) /\ (~reset => UpdateReset)
  BY DEF IInv, AssertReset
<1>2. CASE reset
  <2>1. Loading
    BY <1>2 DEF IInv, Virgin, Copying
  <2>2. UNCHANGED <<dma, stream_bus, ram, lost>>
    BY <1>1, <1>2 DEF hardware
  <2>3. Loading'
    BY <1>1, <2>1, <2>2 DEF Loading
  <2>4. TypeOK'
    BY <1>1, <2>2 DEF TypeOK
  <2>. QED
    BY <1>1, <2>3, <2>4 DEF IInv
<1>3. CASE ~reset
  <2>1. /\ \A c \in Channel : dma'[c] = LoadedAt(c, 0)
        /\ dma' \in [Channel -> DmaState]
        /\ lost' = {} /\ UNCHANGED <<stream_bus, ram>>
    BY <1>1, <1>3, ResetStep
  <2>2. \A c \in Channel : 0 \in 0 .. Len(Program(c))
    BY ProgramFacts
  <2>3. Loading'
    BY <1>1, <2>1, <2>2 DEF Loading
  <2>4. TypeOK'
    BY <1>1, <2>1 DEF TypeOK
  <2>. QED
    BY <1>1, <2>3, <2>4 DEF IInv
<1>. QED
  BY <1>2, <1>3

LEMMA ReleaseResetStep ==
  ASSUME IInv, ReleaseReset
  PROVE  IInv' /\ Loading /\ Loading'
<1>1. /\ TypeOK /\ ~enable /\ pc = "resetting" /\ pc' = "loading"
      /\ reset' = FALSE /\ UpdateRun /\ UNCHANGED <<image, enable>>
  BY DEF IInv, ReleaseReset
<1>2. Loading
  BY <1>1 DEF IInv, Virgin, Copying
<1>3. /\ dma' = dma /\ ram' = ram /\ stream_bus' = Zero
      /\ lost' = lost \cup InFlight
  BY <1>1, IdleStep
<1>4. lost' = {} /\ lost = {}
  BY <1>2, <1>3, NotStarted DEF InFlight
<1>5. Loading'
  BY <1>1, <1>2, <1>3, <1>4 DEF Loading
<1>6. TypeOK'
  BY <1>1, <1>3, <1>4, HierarchyAssumption DEF TypeOK
<1>. QED
  BY <1>1, <1>2, <1>5, <1>6 DEF IInv

LEMMA LoadDescriptorStep ==
  ASSUME IInv, NEW c \in Channel, LoadDescriptor(c)
  PROVE  IInv' /\ Loading /\ Loading'
<1>1. /\ TypeOK /\ ~enable /\ pc = "loading" /\ ~Complete(c)
      /\ dma' = [dma EXCEPT ![c] =
                   Loaded(@, Program(c)[dma[c].descriptor_count + 1])]
      /\ UNCHANGED <<stream_bus, ram, lost, image, reset, enable, pc>>
  BY DEF IInv, LoadDescriptor
<1>2. Loading
  BY <1>1 DEF IInv, Virgin, Copying
<1>3. PICK n \in 0 .. Len(Program(c)) : dma[c] = LoadedAt(c, n)
  BY <1>2 DEF Loading
<1>4. dma[c].descriptor_count = n /\ n # Len(Program(c))
  BY <1>1, <1>3, LoadedCount DEF Complete
<1>5. n \in 0 .. Len(Program(c)) - 1 /\ n + 1 \in 0 .. Len(Program(c))
  BY <1>3, <1>4, ProgramFacts
<1>6. dma'[c] = LoadedAt(c, n + 1)
  BY <1>1, <1>3, <1>4, <1>5, LoadedStep DEF TypeOK
<1>7. \A b \in Channel : b # c => dma'[b] = dma[b]
  BY <1>1 DEF TypeOK
<1>8. \A b \in Channel : \E m \in 0 .. Len(Program(b)) : dma'[b] = LoadedAt(b, m)
  BY <1>2, <1>5, <1>6, <1>7 DEF Loading
<1>9. Loading'
  BY <1>1, <1>2, <1>8 DEF Loading
<1>10. dma' \in [Channel -> DmaState]
  <2>1. dma'[c] \in DmaState
    BY <1>5, <1>6, FormTypes
  <2>. QED
    BY <1>1, <2>1 DEF TypeOK
<1>11. TypeOK'
  BY <1>1, <1>10 DEF TypeOK
<1>. QED
  BY <1>1, <1>2, <1>9, <1>11 DEF IInv

LEMMA StartStep ==
  ASSUME IInv, StartProcessor
  PROVE  IInv'
<1>1. /\ TypeOK /\ pc \in {"loading", "stopped"} /\ pc' = "running"
      /\ enable' = TRUE
      /\ UNCHANGED <<dma, stream_bus, ram, lost, image, reset>>
  BY DEF IInv, StartProcessor, hardware
<1>2. TypeOK'
  BY <1>1 DEF TypeOK
<1>3. CASE Copying
  BY <1>1, <1>2, <1>3, SameHardware DEF IInv, Copying
<1>4. CASE ~Copying
  <2>1. Loading /\ pc = "loading" /\ \A c \in Channel : Complete(c)
    BY <1>1, <1>4 DEF IInv, Virgin, Loading, StartProcessor
  <2>2. Elapsed = 0 /\ Copied = 0
    BY <2>1, NotStarted
  <2>3. ASSUME NEW c \in Channel PROVE dma[c] = LoadedAt(c, Len(Program(c)))
    <3>1. PICK n \in 0 .. Len(Program(c)) : dma[c] = LoadedAt(c, n)
      BY <2>1 DEF Loading
    <3>. QED
      BY <2>1, <3>1, LoadedCount, ProgramFacts DEF Complete
  <2>4. \A k \in Slice : dma[k] = S2mmAt(k, 0)
    BY <2>3, LoadedFull, ProgramFacts DEF Channel, Slice
  <2>5. dma[0] = Mm2sAt(0)
    BY <2>3, LoadedFull, ProgramFacts DEF Channel
  <2>6. ~reset
    BY <2>1 DEF IInv
  <2>7. 0 \in 0 .. AllEdges /\ 0 \in 0 .. BIG_RAM_SIZE - 1
    BY Sizes
  <2>8. BusFaithful' /\ SlicesFaithful'
    <3>1. \A k \in Slice : \A i \in 0 .. SMALL_RAM_SIZE - 1 :
            ~(Offset(k) + i < 0)
      BY OffsetBounds, Sizes
    <3>2. Elapsed' = 0 /\ Copied' = 0
      BY <1>1, <2>2, SameHardware
    <3>. QED
      BY <3>1, <3>2 DEF BusFaithful, SlicesFaithful, Offset
  <2>9. Copying'
    BY <1>1, <2>2, <2>4, <2>5, <2>6, <2>7, <2>8, SameHardware DEF Copying
  <2>. QED
    BY <1>1, <1>2, <2>9 DEF IInv
<1>. QED
  BY <1>3, <1>4

LEMMA DisabledStep ==
  ASSUME IInv, StopProcessor \/ Abort
  PROVE  IInv'
<1>1. /\ TypeOK /\ pc' \in {"idle", "stopped"} /\ enable' = FALSE
      /\ UNCHANGED <<dma, stream_bus, ram, lost, image, reset>>
      /\ pc' = "stopped" => ~reset
  BY DEF IInv, StopProcessor, Abort, hardware, TypeOK
<1>2. TypeOK'
  BY <1>1 DEF TypeOK
<1>3. CASE Virgin
  BY <1>3 DEF Virgin, StopProcessor, Abort
<1>4. CASE Loading
  <2>1. pc' = "idle"
    BY <1>4 DEF Loading, StopProcessor, Abort
  <2>2. Loading'
    BY <1>1, <1>4, <2>1 DEF Loading
  <2>. QED
    BY <1>1, <1>2, <2>2 DEF IInv
<1>5. CASE Copying
  <2>1. Copying'
    BY <1>1, <1>5, SameHardware DEF Copying
  <2>. QED
    BY <1>1, <1>2, <2>1 DEF IInv
<1>. QED
  BY <1>3, <1>4, <1>5 DEF IInv

LEMMA InitPhase == Init => TypeOK /\ Virgin
<1>. SUFFICES ASSUME Init PROVE TypeOK /\ Virgin
  OBVIOUS
<1>1. PICK i \in [Channel -> Indeterminate], x \in [Channel -> Indeterminate],
           n \in [Channel -> Indeterminate] :
        dma = [c \in Channel |-> Dma(<<>>, 0, i[c], x[c], n[c])]
  BY DEF Init
<1>2. ASSUME NEW c \in Channel
      PROVE  /\ dma[c] \in DmaState
             /\ dma[c].descriptor_count = 0
  <2>1. i[c] \in UInt /\ x[c] \in UInt /\ n[c] \in UInt
    BY HierarchyAssumption
  <2>2. <<>> \in Seq(Descriptor)
    OBVIOUS
  <2>. QED
    <3>1. dma[c] = Dma(<<>>, 0, i[c], x[c], n[c])
      BY <1>1
    <3>2. Dma(<<>>, 0, i[c], x[c], n[c]) \in DmaState
      BY <2>1, <2>2, DmaType
    <3>. QED
      BY <3>1, <3>2, DmaFields
<1>3. dma \in [Channel -> DmaState]
  <2>1. dma = [c \in Channel |-> dma[c]]
    BY <1>1
  <2>. QED
    BY <1>2, <2>1
<1>4. TypeOK
  <2>1. Zero \in Pixel
    BY HierarchyAssumption
  <2>2. stream_bus \in Pixel /\ ram \in [Slice -> [0 .. RamSize - 1 -> Pixel]]
    BY <2>1 DEF Init
  <2>. QED
    BY <1>3, <2>2 DEF Init, TypeOK
<1>5. Virgin
  BY <1>2 DEF Init, Virgin
<1>. QED
  BY <1>4, <1>5

LEMMA InvInit == Init => IInv
  BY InitPhase DEF Init, IInv

LEMMA InvStep == IInv /\ [Next]_vars => IInv'
<1>. SUFFICES ASSUME IInv, [Next]_vars PROVE IInv'
  OBVIOUS
<1>1. CASE Clock
  BY <1>1, ClockStep
<1>2. CASE AssertReset
  BY <1>2, AssertResetStep
<1>3. CASE ReleaseReset
  BY <1>3, ReleaseResetStep
<1>4. ASSUME NEW c \in Channel, LoadDescriptor(c) PROVE IInv'
  BY <1>4, LoadDescriptorStep
<1>5. CASE StartProcessor
  BY <1>5, StartStep
<1>6. CASE StopProcessor \/ Abort
  BY <1>6, DisabledStep
<1>7. CASE UNCHANGED vars
  <2>1. UNCHANGED <<dma, stream_bus, ram, lost, image, reset, enable, pc>>
    BY <1>7 DEF vars, hardware
  <2>2. TypeOK'
    BY <2>1 DEF IInv, TypeOK
  <2>3. (Virgin => Virgin') /\ (Loading => Loading')
    BY <2>1 DEF Virgin, Loading
  <2>4. Copying => Copying'
    BY <2>1, SameHardware DEF Copying
  <2>. QED
    BY <2>1, <2>2, <2>3, <2>4 DEF IInv
<1>. QED
  BY <1>1, <1>2, <1>3, <1>4, <1>5, <1>6, <1>7 DEF Next

LEMMA Invariant == Spec => []IInv
  BY InvInit, InvStep, PTL DEF Spec

(* What the bounds ask of a DMA that executes cur, its i-th descriptor.    *)
LEMMA BoundsOf ==
  ASSUME NEW d, NEW cells, NEW i, NEW len, NEW cur,
         d.execute_index = i, Len(d.descriptors) = len,
         d.descriptors[i + 1] = cur, i < len, cur.next < len,
         cur.state # SUSPENDED => d.x_count_remaining > 0,
         cur.state = TRANSFER => d.current_ram_index \in cells
  PROVE  WithinBounds(d, cells)
  BY Zenon DEF WithinBounds

LEMMA SliceInside ==
  ASSUME NEW k \in Slice, NEW e \in Nat
  PROVE  WithinBounds(S2mmAt(k, e), 0 .. SMALL_RAM_SIZE - 1)
<1>. DEFINE ds == ram_descriptors(k)
            cells == 0 .. SMALL_RAM_SIZE - 1
            d == S2mmAt(k, e)
            b == Offset(k)
            n == SMALL_RAM_SIZE
<1>1. b \in Nat /\ n \in Nat /\ n > 0
  BY Sizes, OffsetBounds
<1>2. /\ Len(ds) = 3
      /\ ds[0 + 1] = wait_descriptor(k) /\ ds[1 + 1] = slice_descriptor
      /\ ds[2 + 1] = done_descriptor /\ done_descriptor.next = 0
  BY RamProgram DEF done_descriptor
<1>3. 0 < 3 /\ 1 < 3 /\ 2 < 3
  OBVIOUS
<1>4. CASE e <= b
  <2>1. d = Dma(ds, 3, 0, 0, 1 + b - e) /\ 1 + b - e > 0
    BY <1>1, <1>4 DEF S2mmAt
  <2>2. /\ d.descriptors = ds /\ d.execute_index = 0
        /\ d.x_count_remaining > 0
    BY <2>1, DmaFields
  <2>. HIDE DEF d, ds, cells, b, n
  <2>3. wait_descriptor(k).state # TRANSFER /\ wait_descriptor(k).next = 1
    BY DescriptorFields, States
  <2>4. WithinBounds(d, cells)
    BY <1>2, <1>3, <2>2, <2>3, BoundsOf, Zenon
  <2>. QED
    BY <2>4 DEF d, cells
<1>5. CASE ~(e <= b) /\ e <= b + n
  <2>1. /\ d = Dma(ds, 3, 1, e - 1 - b, b + n + 1 - e)
        /\ b + n + 1 - e > 0 /\ e - 1 - b \in cells
    BY <1>1, <1>5 DEF S2mmAt
  <2>2. /\ d.descriptors = ds /\ d.execute_index = 1
        /\ d.current_ram_index \in cells /\ d.x_count_remaining > 0
    BY <2>1, DmaFields
  <2>. HIDE DEF d, ds, cells, b, n
  <2>3. WithinBounds(d, cells)
    BY <1>2, <1>3, <2>2, DescriptorFields, States, BoundsOf, Zenon
  <2>. QED
    BY <2>3 DEF d, cells
<1>6. CASE ~(e <= b) /\ ~(e <= b + n)
  <2>1. d = Dma(ds, 3, 2, 0, 0)
    BY <1>6 DEF S2mmAt
  <2>2. d.descriptors = ds /\ d.execute_index = 2
    BY <2>1, DmaFields
  <2>. HIDE DEF d, ds, cells, b, n
  <2>3. WithinBounds(d, cells)
    BY <1>2, <1>3, <2>2, DescriptorFields, States, BoundsOf, Zenon
  <2>. QED
    BY <2>3 DEF d, cells
<1>. QED
  BY <1>4, <1>5, <1>6

LEMMA SourceInside ==
  ASSUME NEW p \in 0 .. BIG_RAM_SIZE - 1
  PROVE  WithinBounds(Mm2sAt(p), 0 .. BIG_RAM_SIZE - 1)
<1>. DEFINE ds == <<desc_mm2s>>
            d == Mm2sAt(p)
<1>1. /\ Len(ds) = 1 /\ ds[0 + 1] = desc_mm2s /\ desc_mm2s.next = 0
      /\ 0 < 1 /\ BIG_RAM_SIZE - p > 0
  BY Sizes, DescriptorFields
<1>2. /\ d.descriptors = ds /\ d.execute_index = 0
      /\ d.current_ram_index = p /\ d.x_count_remaining = BIG_RAM_SIZE - p
  BY DmaFields DEF Mm2sAt
<1>. HIDE DEF d, ds
<1>3. WithinBounds(d, 0 .. BIG_RAM_SIZE - 1)
  BY <1>1, <1>2, BoundsOf, Zenon
<1>. QED
  BY <1>3 DEF d

LEMMA InvInside == IInv => AccessesInside
<1>. SUFFICES ASSUME IInv, enable
              PROVE  /\ WithinBounds(dma[0], 0 .. BIG_RAM_SIZE - 1)
                     /\ \A k \in Slice :
                          WithinBounds(dma[k], 0 .. SMALL_RAM_SIZE - 1)
  BY DEF AccessesInside
<1>1. Copying
  BY DEF IInv, Virgin, Loading
<1>2. Elapsed \in Nat
  BY <1>1 DEF Copying
<1>3. \A k \in Slice : WithinBounds(dma[k], 0 .. SMALL_RAM_SIZE - 1)
  BY <1>1, <1>2, SliceInside DEF Copying
<1>4. WithinBounds(dma[0], 0 .. BIG_RAM_SIZE - 1)
  BY <1>1, SourceInside DEF Copying
<1>. QED
  BY <1>3, <1>4

(***************************************************************************)
(* For every image size: whatever pauses, resets and driver deaths         *)
(* happened, the four DMAs execute descriptors of their programs, count    *)
(* no descriptor below zero, and the three that write stay inside their    *)
(* slices, clear of the padding; every member keeps its type.              *)
(***************************************************************************)
THEOREM HierarchyStaysInside == Spec => [](TypeOK /\ AccessesInside)
<1>1. IInv => TypeOK
  BY DEF IInv
<1>. QED
  BY <1>1, InvInside, Invariant, PTL

LEMMA InvFaithful == IInv => SlicesFaithful
<1>. SUFFICES ASSUME IInv PROVE SlicesFaithful
  OBVIOUS
<1>1. CASE Copying
  BY <1>1 DEF Copying
<1>2. CASE Virgin \/ Loading
  <2>1. Copied = 0
    BY <1>2, NotStarted
  <2>2. \A k \in Slice : \A i \in 0 .. SMALL_RAM_SIZE - 1 :
          ~(Offset(k) + i < 0)
    BY OffsetBounds, Sizes
  <2>. QED
    BY <2>1, <2>2 DEF SlicesFaithful
<1>. QED
  BY <1>1, <1>2 DEF IInv

(***************************************************************************)
(* For every image size, image and RAM: each pixel the S2MM DMAs have      *)
(* written is in its own cell of its own slice, whatever pauses, resets    *)
(* and driver deaths happened; only the pixel on the bus during a pause is *)
(* blanked.                                                                *)
(***************************************************************************)
THEOREM SlicesAreFaithful == Spec => []SlicesFaithful
  BY InvFaithful, Invariant, PTL

-----------------------------------------------------------------------------
(* Refinement.                                                             *)

LEMMA RunDeals ==
  ASSUME TypeOK, Copying, enable, UpdateRun, image' = image
  PROVE  Copy!Deal \/ UNCHANGED Copy!vars
<1>. DEFINE e == Elapsed
<1>1. /\ e \in 0 .. AllEdges /\ AllEdges = BIG_RAM_SIZE + 1
      /\ BIG_RAM_SIZE \in Nat /\ SMALL_RAM_SIZE \in Nat
      /\ BIG_RAM_SIZE = 3 * SMALL_RAM_SIZE
  BY Sizes DEF Copying
<1>2. Elapsed' = IF e < AllEdges THEN e + 1 ELSE e
  BY RunElapsed
<1>3. ram' = [k \in Slice |-> ram'[k]]
  BY DEF UpdateRun
<1>4. ram = [k \in Slice |-> ram[k]]
  BY DEF TypeOK
<1>5. CASE e \in 1 .. BIG_RAM_SIZE
  <2>1. Copied = e - 1 /\ Copied' = Copied + 1
    BY <1>1, <1>2, <1>5 DEF Copied
  <2>2. PICK k \in Slice : Landing(k)
    <3>1. /\ 1 \in Slice /\ 2 \in Slice /\ 3 \in Slice
      BY DEF Slice
    <3>2. \/ e \in Offset(1) + 1 .. Offset(1) + SMALL_RAM_SIZE
          \/ e \in Offset(2) + 1 .. Offset(2) + SMALL_RAM_SIZE
          \/ e \in Offset(3) + 1 .. Offset(3) + SMALL_RAM_SIZE
      BY <1>1, <1>5, Offsets
    <3>. QED
      BY <3>1, <3>2 DEF Landing
  <2>. DEFINE i == e - 1 - Offset(k)
  <2>3. /\ Offset(k) \in Nat /\ i \in 0 .. SMALL_RAM_SIZE - 1
        /\ Copied = Offset(k) + i
    BY <1>1, <2>1, <2>2, OffsetBounds DEF Landing
  <2>4. ram'[k] = [ram[k] EXCEPT ![i] = stream_bus]
    BY <2>2, RunSlice
  <2>5. ASSUME NEW l \in Slice, l # k PROVE ram'[l] = ram[l]
    <3>1. ~Landing(l)
      BY <1>1, <2>2, <2>5, SlicesDisjoint, OffsetBounds DEF Landing
    <3>. QED
      BY <3>1, RunSlice
  <2>. HIDE DEF i
  <2>6. ram' = [ram EXCEPT ![k][i] = stream_bus]
    BY <1>3, <1>4, <2>4, <2>5
  <2>7. stream_bus \in {image[Copied], Zero}
    BY <1>5 DEF Copying, BusFaithful
  <2>. QED
    BY <2>1, <2>3, <2>6, <2>7 DEF Copy!Deal, Slice, Offset
<1>6. CASE ~(e \in 1 .. BIG_RAM_SIZE)
  <2>1. e = 0 \/ e = AllEdges
    BY <1>1, <1>6
  <2>2. Copied' = Copied
    BY <1>1, <1>2, <2>1 DEF Copied
  <2>3. ASSUME NEW k \in Slice PROVE ram'[k] = ram[k]
    <3>1. ~Landing(k)
      BY <1>1, <2>1, OffsetBounds DEF Landing
    <3>. QED
      BY <3>1, RunSlice
  <2>4. ram' = ram
    BY <1>3, <1>4, <2>3
  <2>. QED
    BY <2>2, <2>4 DEF Copy!vars
<1>. QED
  BY <1>5, <1>6

LEMMA StepRefines == IInv /\ [Next]_vars => [Copy!Next]_(Copy!vars)
<1>. SUFFICES ASSUME IInv, [Next]_vars
              PROVE  Copy!Next \/ UNCHANGED Copy!vars
  OBVIOUS
<1>. USE DEF Copy!vars
<1>1. CASE Clock
  <2>1. /\ TypeOK /\ image' = image
        /\ (reset => UpdateReset) /\ (~reset => UpdateRun)
    BY <1>1 DEF IInv, Clock
  <2>2. CASE reset
    <3>1. Loading /\ Loading'
      <4>1. Loading
        BY <2>2 DEF IInv, Virgin, Copying
      <4>2. \A c \in Channel : 0 \in 0 .. Len(Program(c))
        BY ProgramFacts
      <4>. QED
        BY <1>1, <2>1, <2>2, <4>1, <4>2, ResetStep DEF Loading, Clock
    <3>2. Copied = 0 /\ Copied' = 0
      <4>1. Elapsed' = 0
        <5>1. dma'[3] = LoadedAt(3, 0)
          BY <2>1, <2>2, ResetStep DEF Channel
        <5>. QED
          BY <5>1, EdgesLoaded DEF Elapsed
      <4>. QED
        BY <3>1, <4>1, NotStarted DEF Copied
    <3>. QED
      BY <2>1, <2>2, <3>2, ResetStep
  <2>3. CASE ~reset /\ ~enable
    <3>1. dma' = dma /\ ram' = ram
      BY <2>1, <2>3, IdleStep
    <3>2. Elapsed' = Elapsed
      BY <3>1 DEF Elapsed
    <3>. QED
      BY <2>1, <3>1, <3>2 DEF Copied
  <2>4. CASE ~reset /\ enable
    <3>1. Copying
      BY <2>4, NotStarted DEF IInv
    <3>. QED
      BY <2>1, <2>4, <3>1, RunDeals DEF Copy!Next
  <2>. QED
    BY <2>2, <2>3, <2>4
<1>2. CASE AssertReset
  <2>1. /\ image' \in Images /\ ram' = ram
    BY <1>2 DEF AssertReset, UpdateReset, hardware
  <2>2. \E n \in 0 .. 3 : dma'[3] = LoadedAt(3, n)
    <3>1. 3 \in Channel /\ Len(Program(3)) = 3
      BY ProgramFacts DEF Channel
    <3>. QED
      BY <1>2, <3>1, AssertResetStep DEF Loading
  <2>3. Elapsed' = 0
    BY <2>2, EdgesLoaded DEF Elapsed
  <2>4. Copied' = 0
    BY <2>3 DEF Copied
  <2>. QED
    BY <2>1, <2>4 DEF Copy!Next, Copy!Restart
<1>3. CASE ReleaseReset
  <2>1. UpdateRun /\ ~enable /\ TypeOK /\ image' = image
    BY <1>3 DEF IInv, ReleaseReset
  <2>2. dma' = dma /\ ram' = ram
    BY <2>1, IdleStep
  <2>3. Elapsed' = Elapsed
    BY <2>2 DEF Elapsed
  <2>. QED
    BY <2>1, <2>2, <2>3 DEF Copied
<1>4. ASSUME NEW c \in Channel, LoadDescriptor(c)
      PROVE  UNCHANGED Copy!vars
  <2>1. /\ image' = image /\ ram' = ram
    BY <1>4 DEF LoadDescriptor
  <2>2. Loading /\ Loading'
    BY <1>4, LoadDescriptorStep
  <2>3. \E n \in 0 .. 3 : dma'[3] = LoadedAt(3, n)
    <3>1. 3 \in Channel /\ Len(Program(3)) = 3
      BY ProgramFacts DEF Channel
    <3>. QED
      BY <2>2, <3>1 DEF Loading
  <2>4. Elapsed' = 0
    BY <2>3, EdgesLoaded DEF Elapsed
  <2>5. Copied' = 0 /\ Copied = 0
    BY <2>2, <2>4, NotStarted DEF Copied
  <2>. QED
    BY <2>1, <2>5
<1>5. CASE StartProcessor \/ StopProcessor \/ Abort \/ UNCHANGED vars
  <2>1. UNCHANGED <<dma, stream_bus, ram, lost, image>>
    BY <1>5 DEF StartProcessor, StopProcessor, Abort, vars, hardware
  <2>. QED
    BY <2>1, SameHardware
<1>. QED
  BY <1>1, <1>2, <1>3, <1>4, <1>5 DEF Next

(***************************************************************************)
(* Four DMAs that share a clock and a wire and know nothing of each other  *)
(* implement the ordered copy, for every image size.                       *)
(***************************************************************************)
THEOREM ImplementsOrderedCopy == Spec => CopiesInOrder
<1>1. Init => Copy!Init
  <2>. SUFFICES ASSUME Init PROVE Copy!Init
    OBVIOUS
  <2>1. Copied = 0
    BY InitPhase, NotStarted
  <2>2. \A k \in 1 .. 3 : \A i \in 0 .. SMALL_RAM_SIZE - 1 : ram[k][i] = Zero
    <3>1. \A i \in 0 .. SMALL_RAM_SIZE - 1 : i \in 0 .. RamSize - 1
      BY HierarchyAssumption, Sizes
    <3>. QED
      BY <3>1 DEF Init, Slice
  <2>. QED
    BY <2>1, <2>2 DEF Init, Copy!Init
<1>. QED
  BY <1>1, StepRefines, Invariant, PTL DEF Spec, CopiesInOrder, Copy!Spec
=============================================================================
