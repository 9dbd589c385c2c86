---------------------------- MODULE ProcessorProofs ----------------------------
(***************************************************************************)
(* Proofs about Processor, for every size of image and array: the compute  *)
(* array never reads a pixel the memory hierarchy has not written, and the *)
(* loopback reports its end when the whole result is recorded.  The second *)
(* part shows that the result is the filtered image.                       *)
(*                                                                         *)
(* As in the memory hierarchy, whose proofs are used here, each DMA is a   *)
(* function of one number, the enabled clock edges since the reset: After  *)
(* says which.                                                             *)
(***************************************************************************)
EXTENDS Processor, SequenceTheorems, FiniteSetTheorems, WellFoundedInduction,
        TLAPS

LeftProofs == INSTANCE MemoryHierarchyProofs WITH dma <- left, Zero <- 0

-----------------------------------------------------------------------------
(* The functions of the engine return values of their types,               *)

LEMMA DefaultType == default_descriptor \in Descriptor
  BY EngineAssumption DEF default_descriptor, Descriptor, UInt, SUSPENDED

LEMMA ZeroType == 0 \in UInt /\ 1 \in UInt
  BY EngineAssumption DEF UInt

LEMMA EnterType ==
  ASSUME NEW ds \in Seq(Descriptor), NEW n \in Nat,
         NEW i \in UInt, NEW x \in Descriptor
  PROVE  Enter(ds, n, i, x) \in DmaState
  BY DEF Enter, Dma, DmaState, Descriptor

LEMMA ClearedType == Cleared \in DmaState
<1>1. <<default_descriptor>> \in Seq(Descriptor)
  BY DefaultType
<1>. QED
  BY <1>1, DefaultType, ZeroType, EnterType DEF Cleared

(* and this is what they do to the fields.                                 *)

LEMMA DmaFields ==
  ASSUME NEW ds, NEW n, NEW i, NEW x, NEW r
  PROVE  /\ Dma(ds, n, i, x, r).descriptors = ds
         /\ Dma(ds, n, i, x, r).descriptor_count = n
         /\ Dma(ds, n, i, x, r).execute_index = i
         /\ Dma(ds, n, i, x, r).current_ram_index = x
         /\ Dma(ds, n, i, x, r).x_count_remaining = r
  BY DEF Dma

(* Word arithmetic that does not wrap.                                     *)

LEMMA InWord ==
  ASSUME NEW w \in Nat, NEW x \in Nat, x < w
  PROVE  x % w = x
  OBVIOUS

LEMMA CountDown ==
  ASSUME NEW w \in Nat, NEW r \in Nat, r > 0, r < w
  PROVE  (r + w - 1) % w = r - 1
  BY Z3

(* A step that ends the descriptor, and one that only counts.              *)

LEMMA AdvancedLast ==
  ASSUME NEW ds, NEW n, NEW i, NEW x, NEW cur, NEW nxt
  PROVE  Advanced(Dma(ds, n, i, x, 1), cur, nxt) =
           Dma(ds, n, cur.next, nxt.start, nxt.x_count)
<1>. DEFINE d == Dma(ds, n, i, x, 1)
<1>1. d.descriptors = ds /\ d.descriptor_count = n /\ d.x_count_remaining = 1
  BY DmaFields
<1>. HIDE DEF d
<1>2. LastCount(d)
  BY <1>1 DEF LastCount
<1>3. Advanced(d, cur, nxt) = Enter(ds, n, cur.next, nxt)
  BY <1>1, <1>2 DEF Advanced
<1>. QED
  BY <1>3 DEF Enter, d

LEMMA AdvancedCount ==
  ASSUME NEW ds, NEW n, NEW i, NEW x, NEW cur, NEW nxt,
         NEW r \in Nat, r > 1, r < Word
  PROVE  Advanced(Dma(ds, n, i, x, r), cur, nxt) =
           Dma(ds, n, i,
               IF cur.state = TRANSFER THEN (x + cur.x_modify) % Word ELSE x,
               r - 1)
<1>. DEFINE d == Dma(ds, n, i, x, r)
<1>1. /\ d.descriptors = ds /\ d.descriptor_count = n
      /\ d.execute_index = i /\ d.current_ram_index = x
      /\ d.x_count_remaining = r
  BY DmaFields
<1>. HIDE DEF d
<1>2. ~LastCount(d)
  BY <1>1 DEF LastCount
<1>3. (r + Word - 1) % Word = r - 1
  BY CountDown, EngineAssumption
<1>4. Advanced(d, cur, nxt) =
        Dma(ds, n, i,
            IF cur.state = TRANSFER THEN (x + cur.x_modify) % Word ELSE x,
            r - 1)
  BY <1>1, <1>2, <1>3 DEF Advanced
<1>. QED
  BY <1>4 DEF d

(* The vectors of the programs, of up to three descriptors, as they grow.  *)

Prefix(s, n) ==
  IF n = 1 THEN <<s[1]>>
  ELSE IF n = 2 THEN <<s[1], s[2]>> ELSE <<s[1], s[2], s[3]>>

LEMMA AppendPair ==
  ASSUME NEW S, NEW x \in S, NEW y \in S, NEW z \in S
  PROVE  /\ Append(<<x>>, y) = <<x, y>>
         /\ Append(<<x, y>>, z) = <<x, y, z>>
<1>1. /\ <<x>> \in Seq(S) /\ <<x, y>> \in Seq(S) /\ <<x, y, z>> \in Seq(S)
      /\ Len(<<x>>) = 1 /\ Len(<<x, y>>) = 2 /\ Len(<<x, y, z>>) = 3
  OBVIOUS
<1>2. Append(<<x>>, y) = <<x, y>>
  <2>1. Append(<<x>>, y) \in Seq(S) /\ Len(Append(<<x>>, y)) = 2
    BY <1>1
  <2>2. \A i \in 1 .. 2 : Append(<<x>>, y)[i] = <<x, y>>[i]
    BY <1>1
  <2>. QED
    BY <1>1, <2>1, <2>2, SeqEqual
<1>3. Append(<<x, y>>, z) = <<x, y, z>>
  <2>1. Append(<<x, y>>, z) \in Seq(S) /\ Len(Append(<<x, y>>, z)) = 3
    BY <1>1
  <2>2. \A i \in 1 .. 3 : Append(<<x, y>>, z)[i] = <<x, y, z>>[i]
    BY <1>1
  <2>. QED
    BY <1>1, <2>1, <2>2, SeqEqual
<1>. QED
  BY <1>2, <1>3

LEMMA PrefixStep ==
  ASSUME NEW s, NEW n \in 1 .. 2
  PROVE  Append(Prefix(s, n), s[n + 1]) = Prefix(s, n + 1)
<1>1. /\ Prefix(s, 1) = <<s[1]>>
      /\ Prefix(s, 2) = <<s[1], s[2]>>
      /\ Prefix(s, 3) = <<s[1], s[2], s[3]>>
  BY DEF Prefix
<1>. DEFINE S == {s[1], s[2], s[3]}
<1>2. s[1] \in S /\ s[2] \in S /\ s[3] \in S
  OBVIOUS
<1>. HIDE DEF S
<1>3. /\ Append(<<s[1]>>, s[2]) = <<s[1], s[2]>>
      /\ Append(<<s[1], s[2]>>, s[3]) = <<s[1], s[2], s[3]>>
  BY <1>2, AppendPair
<1>4. CASE n = 1
  <2>1. n + 1 = 2
    BY <1>4
  <2>. QED
    BY <1>1, <1>3, <1>4, <2>1
<1>5. CASE n = 2
  <2>1. n + 1 = 3
    BY <1>5
  <2>. QED
    BY <1>1, <1>3, <1>5, <2>1
<1>. QED
  BY <1>4, <1>5

(* Induction over the natural numbers is an appeal to the least of those   *)
(* for which a statement fails.                                            *)

LEMMA Least ==
  ASSUME NEW T, T \subseteq Nat, T # {}
  PROVE  \E x \in T : \A y \in T : x <= y
<1> DEFINE R == OpToRel(<, Nat)
<1>1. IsWellFoundedOn(R, Nat)
  BY NatLessThanWellFounded
<1>2. \A x, y \in Nat : <<x, y>> \in R <=> x < y
  BY DEF OpToRel
<1> HIDE DEF R
<1>3. PICK x \in T : \A y \in T : ~(<<y, x>> \in R)
  BY <1>1, WFMin
<1>4. \A y \in T : x \in Nat /\ y \in Nat /\ ~(y < x)
  BY <1>2, <1>3
<1>5. \A y \in T : x <= y
  BY <1>4
<1> QED
  BY <1>5

-----------------------------------------------------------------------------
(* The constants.                                                          *)

GroupWait(k) == BIG_RAM_SIZE + peArraySize * (k - 1)
GroupStart(k) == IMAGE_WIDTH * Right!Row(k)
LoopbackWait == BIG_RAM_SIZE + Right!Stages

LEMMA Monotone ==
  ASSUME NEW a \in Nat, NEW b \in Nat, NEW c \in Nat, a <= b
  PROVE  c * a \in Nat /\ c * b \in Nat /\ c * a <= c * b
  BY Z3

LEMMA Quotient ==
  ASSUME NEW n \in Nat, NEW g \in Nat \ {0}, n < 3 * g
  PROVE  n \div g \in 0 .. 2 /\ n % g \in 0 .. g - 1
<1>1. n % g \in 0 .. g - 1
  BY Z3
<1>2. n = g * (n \div g) + (n % g) /\ n \div g \in Int
  BY Z3
<1>3. n \div g >= 0
  BY Z3
<1>4. n \div g < 3
  BY <1>1, <1>2, Z3
<1> QED
  BY <1>1, <1>2, <1>3, <1>4

LEMMA Sizes ==
  /\ IMAGE_SIZE \in Nat /\ IMAGE_SIZE > 0
  /\ BIG_RAM_SIZE = 3 * IMAGE_SIZE /\ SMALL_RAM_SIZE = IMAGE_SIZE
  /\ BIG_RAM_SIZE \in Nat
  /\ groupCount \in Nat /\ groupCount > 0
  /\ peArraySize \in Nat /\ peArraySize > 0
  /\ IMAGE_WIDTH \in Nat /\ IMAGE_WIDTH > 0
  /\ Right!Stages = 3 * groupCount * peArraySize /\ Right!Stages \in Nat
  /\ BIG_RAM_SIZE + Right!Stages + IMAGE_SIZE < Word
  /\ Word \in Nat /\ RESULT \in Nat /\ RESULT + IMAGE_SIZE < Word
  /\ MaxEdges \in Nat /\ MaxEdges > BIG_RAM_SIZE + Right!Stages + IMAGE_SIZE + 1
<1>1. /\ IMAGE_SIZE \in Nat /\ IMAGE_SIZE > 0
      /\ BIG_RAM_SIZE = 3 * IMAGE_SIZE /\ SMALL_RAM_SIZE = IMAGE_SIZE
      /\ BIG_RAM_SIZE \in Nat /\ Word \in Nat
  BY DescriptorsAssumption, EngineAssumption DEF BIG_RAM_SIZE, SMALL_RAM_SIZE
<1>2. /\ groupCount \in Nat /\ groupCount > 0
      /\ peArraySize \in Nat /\ peArraySize > 0
      /\ IMAGE_WIDTH \in Nat /\ IMAGE_WIDTH > 0
      /\ RESULT \in Nat /\ RESULT + IMAGE_SIZE < Word
  BY ProcessorAssumption DEF Right!ArrayConstants
<1>3. Right!Stages = 3 * groupCount * peArraySize
  BY DEF Right!Stages, branchCount
<1>4. Right!Stages \in Nat
  BY <1>2, <1>3
<1>5. Right!BIG_RAM_SIZE = BIG_RAM_SIZE
  BY DEF Right!BIG_RAM_SIZE, BIG_RAM_SIZE
<1>6. /\ BIG_RAM_SIZE + Right!Stages + IMAGE_SIZE < Word
      /\ MaxEdges \in Nat
      /\ MaxEdges > BIG_RAM_SIZE + Right!Stages + IMAGE_SIZE + 1
  BY <1>5, ProcessorAssumption, Zenon DEF Right!ArrayConstants
<1> QED
  BY <1>1, <1>2, <1>3, <1>4, <1>6

(* The group that starts first, and with the first cell, is the first.     *)
LEMMA GroupFacts ==
  ASSUME NEW k \in Right!Group
  PROVE  /\ GroupWait(k) \in Nat /\ BIG_RAM_SIZE <= GroupWait(k)
         /\ GroupWait(k) <= LoopbackWait
         /\ GroupWait(k) = BIG_RAM_SIZE => GroupStart(k) = 0 /\ Right!BranchOf(k) = 1
         /\ GroupStart(k) \in Nat /\ GroupStart(k) + IMAGE_SIZE < Word
         /\ Right!BranchOf(k) \in 1 .. 3
<1>1. k \in Nat /\ 1 <= k /\ k <= 3 * groupCount
  BY Sizes DEF Right!Group, branchCount
<1>2. /\ (k - 1) \div groupCount \in 0 .. 2
      /\ (k - 1) % groupCount \in 0 .. groupCount - 1
  <2>1. k - 1 \in Nat /\ k - 1 < 3 * groupCount /\ groupCount \in Nat \ {0}
    BY <1>1, Sizes
  <2> QED
    BY <2>1, Quotient
<1>3. Right!BranchOf(k) \in 1 .. 3 /\ Right!Row(k) \in 0 .. groupCount - 1
  BY <1>2 DEF Right!BranchOf, Right!Row
<1>4. /\ peArraySize * (k - 1) \in Nat
      /\ peArraySize * (k - 1) <= Right!Stages
  <2>1. k - 1 \in Nat /\ 3 * groupCount \in Nat /\ k - 1 <= 3 * groupCount
    BY <1>1, Sizes
  <2>2. /\ peArraySize * (k - 1) \in Nat
        /\ peArraySize * (k - 1) <= peArraySize * (3 * groupCount)
    BY <2>1, Sizes, Monotone
  <2>3. peArraySize * (3 * groupCount) = Right!Stages
    BY Sizes, Z3
  <2> QED
    BY <2>2, <2>3
<1>5. peArraySize * (k - 1) = 0 => k = 1
  BY <1>1, Sizes, Z3
<1>6. GroupStart(k) \in Nat /\ GroupStart(k) + IMAGE_SIZE < Word
  <2>1. /\ Right!Row(k) \in Nat /\ groupCount - 1 \in Nat
        /\ Right!Row(k) <= groupCount - 1
    BY <1>3, Sizes
  <2>2. /\ GroupStart(k) \in Nat
        /\ GroupStart(k) <= IMAGE_WIDTH * (groupCount - 1)
    BY <2>1, Sizes, Monotone DEF GroupStart
  <2>3. IMAGE_WIDTH * (groupCount - 1) = (groupCount - 1) * IMAGE_WIDTH
    BY Sizes, Z3
  <2>4. /\ RamSize \in Nat /\ RamSize < Word
        /\ RamSize >= IMAGE_SIZE + IMAGE_WIDTH * (groupCount - 1)
    BY <2>3, ProcessorAssumption
  <2> DEFINE last == IMAGE_WIDTH * (groupCount - 1)
  <2>5. last \in Nat
    BY <2>1, Sizes, Monotone
  <2> HIDE DEF last
  <2> QED
    BY <2>2, <2>4, <2>5, Sizes DEF last
<1>7. k = 1 => GroupStart(k) = 0 /\ Right!BranchOf(k) = 1
  <2> SUFFICES ASSUME k = 1 PROVE GroupStart(k) = 0 /\ Right!BranchOf(k) = 1
    OBVIOUS
  <2>1. 0 \div groupCount = 0 /\ 0 % groupCount = 0
    BY Sizes, Z3
  <2>2. Right!Row(k) = 0 /\ Right!BranchOf(k) = 1
    BY <2>1 DEF Right!Row, Right!BranchOf
  <2> QED
    BY <2>2, Sizes DEF GroupStart
<1> DEFINE ahead == peArraySize * (k - 1)
<1> HIDE DEF ahead
<1>8. GroupWait(k) = BIG_RAM_SIZE + ahead /\ ahead \in Nat /\ ahead <= Right!Stages
  BY <1>4 DEF GroupWait, ahead
<1> QED
  BY <1>3, <1>5, <1>6, <1>7, <1>8, Sizes DEF LoopbackWait, ahead

-----------------------------------------------------------------------------
(* A DMA that waits, transfers one slice and stops: the readers of the     *)
(* array and the loopback.                                                 *)

Waiting(w) ==
  [next |-> 1, start |-> 0, state |-> WAIT, x_count |-> w, x_modify |-> 1]
Transfer(b) ==
  [next |-> 2, start |-> b, state |-> TRANSFER, x_count |-> IMAGE_SIZE,
   x_modify |-> 1]
Stopped ==
  [next |-> 2, start |-> 0, state |-> SUSPENDED, x_count |-> 0, x_modify |-> 1]
WaitThenTransfer(w, b) == <<Waiting(w), Transfer(b), Stopped>>

(* Where it is after e enabled edges.                                      *)
After(w, b, e) ==
  IF e < w
    THEN Dma(WaitThenTransfer(w, b), 3, 0, 0, w - e)
    ELSE IF e < w + IMAGE_SIZE
      THEN Dma(WaitThenTransfer(w, b), 3, 1, b + (e - w), IMAGE_SIZE - (e - w))
      ELSE Dma(WaitThenTransfer(w, b), 3, 2, 0, 0)

(* And when n of its descriptors have been loaded.                         *)
Partly(w, b, n) ==
  IF n = 0 THEN Cleared
  ELSE Dma(Prefix(WaitThenTransfer(w, b), n), n, 0, 0, w)

Now(d) == d.descriptors[d.execute_index + 1]
Following(d) == d.descriptors[Now(d).next + 1]

LEMMA ProgramsAre ==
  /\ \A k \in Right!Group :
       Right!group_descriptors(k) = WaitThenTransfer(GroupWait(k), GroupStart(k))
  /\ loopback_descriptors = WaitThenTransfer(LoopbackWait, RESULT)
<1>1. ASSUME NEW k \in Right!Group
      PROVE  Right!group_descriptors(k) = WaitThenTransfer(GroupWait(k), GroupStart(k))
  BY DEF Right!group_descriptors, Right!Programmed, WaitThenTransfer,
     GroupWait, GroupStart, Waiting, Transfer, Stopped, Right!done_descriptor,
     Right!WAIT, Right!TRANSFER, Right!SUSPENDED, WAIT, TRANSFER, SUSPENDED,
     Right!BIG_RAM_SIZE, BIG_RAM_SIZE
<1>2. loopback_descriptors = WaitThenTransfer(LoopbackWait, RESULT)
  BY DEF loopback_descriptors, LoopbackProgram, WaitThenTransfer,
     LoopbackWait, Waiting, Transfer, Stopped, done_descriptor
<1> QED
  BY <1>1, <1>2

LEMMA ProgramFields ==
  ASSUME NEW w, NEW b
  PROVE  /\ Len(WaitThenTransfer(w, b)) = 3
         /\ WaitThenTransfer(w, b)[1] = Waiting(w)
         /\ WaitThenTransfer(w, b)[2] = Transfer(b)
         /\ WaitThenTransfer(w, b)[3] = Stopped
         /\ Waiting(w).state = WAIT /\ Waiting(w).next = 1
         /\ Waiting(w).start = 0 /\ Waiting(w).x_count = w
         /\ Transfer(b).state = TRANSFER /\ Transfer(b).next = 2
         /\ Transfer(b).start = b /\ Transfer(b).x_count = IMAGE_SIZE
         /\ Transfer(b).x_modify = 1
         /\ Stopped.state = SUSPENDED /\ Stopped.next = 2
         /\ Stopped.start = 0 /\ Stopped.x_count = 0
         /\ SUSPENDED # TRANSFER /\ SUSPENDED # WAIT /\ WAIT # TRANSFER
  BY DEF WaitThenTransfer, Waiting, Transfer, Stopped, SUSPENDED, TRANSFER, WAIT

(* One enabled edge, in each of the three stages.                          *)
LEMMA WaitStep ==
  ASSUME NEW w \in Nat, NEW b \in Nat, NEW e \in Nat, e < w, w < Word
  PROVE  LET d == After(w, b, e)
         IN  /\ Now(d) = Waiting(w)
             /\ Advanced(d, Now(d), Following(d)) = After(w, b, e + 1)
             /\ d.descriptor_count = 3 /\ d.execute_index = 0
<1> DEFINE ds == WaitThenTransfer(w, b)
           d == After(w, b, e)
<1>1. d = Dma(ds, 3, 0, 0, w - e)
  BY DEF After
<1>2. d.descriptors = ds /\ d.execute_index = 0 /\ d.descriptor_count = 3
  BY <1>1, DmaFields
<1>3. Now(d) = Waiting(w) /\ Following(d) = Transfer(b)
  <2>1. 0 + 1 = 1 /\ 1 + 1 = 2
    OBVIOUS
  <2>2. Now(d) = Waiting(w)
    BY <1>2, <2>1, ProgramFields DEF Now
  <2> QED
    BY <1>2, <2>1, <2>2, ProgramFields DEF Following
<1>4. CASE e + 1 < w
  <2>1. w - e \in Nat /\ w - e > 1 /\ w - e < Word /\ (w - e) - 1 = w - (e + 1)
    BY <1>4, Sizes
  <2>2. Advanced(Dma(ds, 3, 0, 0, w - e), Waiting(w), Transfer(b)) =
          Dma(ds, 3, 0, 0, (w - e) - 1)
    BY <2>1, AdvancedCount, ProgramFields
  <2>3. After(w, b, e + 1) = Dma(ds, 3, 0, 0, w - (e + 1))
    BY <1>4 DEF After
  <2> QED
    BY <1>1, <1>2, <1>3, <2>1, <2>2, <2>3
<1>5. CASE ~(e + 1 < w)
  <2>1. w - e = 1 /\ e + 1 = w /\ ~(w < w) /\ w < w + IMAGE_SIZE
        /\ b + (w - w) = b /\ IMAGE_SIZE - (w - w) = IMAGE_SIZE
    BY <1>5, Sizes
  <2>2. Advanced(Dma(ds, 3, 0, 0, 1), Waiting(w), Transfer(b)) =
          Dma(ds, 3, 1, b, IMAGE_SIZE)
    BY AdvancedLast, ProgramFields
  <2>3. After(w, b, w) = Dma(ds, 3, 1, b, IMAGE_SIZE)
    BY <2>1 DEF After
  <2> QED
    BY <1>1, <1>2, <1>3, <2>1, <2>2, <2>3
<1> QED
  BY <1>4, <1>5

LEMMA TransferStep ==
  ASSUME NEW w \in Nat, NEW b \in Nat, NEW e \in Nat,
         w <= e, e < w + IMAGE_SIZE, b + IMAGE_SIZE < Word
  PROVE  LET d == After(w, b, e)
         IN  /\ Now(d) = Transfer(b)
             /\ d.current_ram_index = b + (e - w)
             /\ d.x_count_remaining = IMAGE_SIZE - (e - w)
             /\ Advanced(d, Now(d), Following(d)) = After(w, b, e + 1)
             /\ d.descriptor_count = 3 /\ d.execute_index = 1
<1> DEFINE ds == WaitThenTransfer(w, b)
           d == After(w, b, e)
           x == b + (e - w)
           r == IMAGE_SIZE - (e - w)
<1>1. ~(e < w) /\ x \in Nat /\ x + 1 < Word /\ r \in Nat /\ r >= 1 /\ r < Word
  BY Sizes
<1>2. d = Dma(ds, 3, 1, x, r)
  BY <1>1 DEF After
<1>3. /\ d.descriptors = ds /\ d.execute_index = 1 /\ d.descriptor_count = 3
      /\ d.current_ram_index = x /\ d.x_count_remaining = r
  BY <1>2, DmaFields
<1>4. Now(d) = Transfer(b) /\ Following(d) = Stopped
  <2>1. 1 + 1 = 2 /\ 2 + 1 = 3
    OBVIOUS
  <2>2. Now(d) = Transfer(b)
    BY <1>3, <2>1, ProgramFields DEF Now
  <2> QED
    BY <1>3, <2>1, <2>2, ProgramFields DEF Following
<1>5. CASE e + 1 < w + IMAGE_SIZE
  <2>1. r > 1 /\ r - 1 = IMAGE_SIZE - ((e + 1) - w) /\ ~(e + 1 < w)
        /\ x + 1 = b + ((e + 1) - w)
    BY <1>5, Sizes
  <2>2. (x + 1) % Word = x + 1
    BY <1>1, Sizes, InWord
  <2>3. Advanced(Dma(ds, 3, 1, x, r), Transfer(b), Stopped) =
          Dma(ds, 3, 1, x + 1, r - 1)
    <3> HIDE DEF x, r
    <3> QED
      BY <1>1, <2>1, <2>2, AdvancedCount, ProgramFields
  <2>4. After(w, b, e + 1) = Dma(ds, 3, 1, x + 1, r - 1)
    BY <1>5, <2>1 DEF After
  <2> QED
    BY <1>2, <1>3, <1>4, <2>3, <2>4
<1>6. CASE ~(e + 1 < w + IMAGE_SIZE)
  <2>1. r = 1 /\ ~(e + 1 < w)
    BY <1>6, Sizes
  <2>2. Advanced(Dma(ds, 3, 1, x, 1), Transfer(b), Stopped) = Dma(ds, 3, 2, 0, 0)
    BY AdvancedLast, ProgramFields
  <2>3. After(w, b, e + 1) = Dma(ds, 3, 2, 0, 0)
    BY <1>6, <2>1 DEF After
  <2> QED
    BY <1>2, <1>3, <1>4, <2>1, <2>2, <2>3
<1> QED
  BY <1>5, <1>6

LEMMA StoppedStep ==
  ASSUME NEW w \in Nat, NEW b \in Nat, NEW e \in Nat, w + IMAGE_SIZE <= e
  PROVE  LET d == After(w, b, e)
         IN  /\ Now(d) = Stopped
             /\ d = After(w, b, e + 1)
             /\ d.descriptor_count = 3 /\ d.execute_index = 2
<1> DEFINE ds == WaitThenTransfer(w, b)
           d == After(w, b, e)
<1>1. ~(e < w) /\ ~(e < w + IMAGE_SIZE) /\ ~(e + 1 < w) /\ ~(e + 1 < w + IMAGE_SIZE)
  BY Sizes
<1>2. d = Dma(ds, 3, 2, 0, 0) /\ After(w, b, e + 1) = Dma(ds, 3, 2, 0, 0)
  BY <1>1 DEF After
<1>3. /\ d.descriptors = ds /\ d.execute_index = 2 /\ d.descriptor_count = 3
  BY <1>2, DmaFields
<1>4. Now(d) = Stopped
  <2>1. 2 + 1 = 3
    OBVIOUS
  <2> QED
    BY <1>3, <2>1, ProgramFields DEF Now
<1> QED
  BY <1>2, <1>3, <1>4

(* Both handlers of a DMA, of the array and of the loopback, apply this to *)
(* it while the processor is enabled.                                      *)
Ticked(d) == IF Now(d).state # SUSPENDED THEN Advanced(d, Now(d), Following(d)) ELSE d
NextEdge(e) == IF e = MaxEdges THEN e ELSE e + 1

(* The waits of the code are in range, and its addresses do not wrap.      *)
Waits == 1 .. LoopbackWait
Starts == {b \in Nat : b + IMAGE_SIZE < Word}

LEMMA WaitsFit ==
  /\ \A w \in Waits : w \in Nat /\ 1 <= w /\ w < Word /\ w + IMAGE_SIZE < MaxEdges
  /\ \A k \in Right!Group : GroupWait(k) \in Waits /\ GroupStart(k) \in Starts
  /\ LoopbackWait \in Waits /\ RESULT \in Starts
<1>1. LoopbackWait \in Nat /\ LoopbackWait + IMAGE_SIZE < Word
      /\ LoopbackWait + IMAGE_SIZE < MaxEdges /\ LoopbackWait >= 1
  BY Sizes DEF LoopbackWait
<1>2. \A w \in Waits : w \in Nat /\ 1 <= w /\ w < Word /\ w + IMAGE_SIZE < MaxEdges
  BY <1>1, Sizes DEF Waits
<1>3. ASSUME NEW k \in Right!Group
      PROVE  GroupWait(k) \in Waits /\ GroupStart(k) \in Starts
  BY <1>1, GroupFacts, Sizes DEF Waits, Starts
<1> QED
  BY <1>1, <1>2, <1>3, Sizes DEF Waits, Starts

LEMMA TickedAfter ==
  ASSUME NEW w \in Waits, NEW b \in Starts, NEW e \in 0 .. MaxEdges
  PROVE  LET d == After(w, b, e)
         IN  /\ Ticked(d) = After(w, b, NextEdge(e))
             /\ Now(d).state = TRANSFER <=> w <= e /\ e < w + IMAGE_SIZE
             /\ Now(d).state = TRANSFER =>
                  /\ d.current_ram_index = b + (e - w)
                  /\ LastCount(d) <=> e = w + IMAGE_SIZE - 1
             /\ Now(d).state = SUSPENDED <=> w + IMAGE_SIZE <= e
<1>1. /\ w \in Nat /\ w < Word /\ w + IMAGE_SIZE < MaxEdges
      /\ b \in Nat /\ b + IMAGE_SIZE < Word /\ e \in Nat
      /\ MaxEdges \in Nat /\ IMAGE_SIZE \in Nat /\ e <= MaxEdges
  BY WaitsFit, Sizes DEF Starts
<1> DEFINE d == After(w, b, e)
<1>2. CASE e < w
  <2>1. Now(d) = Waiting(w) /\ Advanced(d, Now(d), Following(d)) = After(w, b, e + 1)
    BY <1>1, <1>2, WaitStep
  <2>2. Now(d).state = WAIT
    BY <2>1, ProgramFields
  <2>3. NextEdge(e) = e + 1 /\ ~(w <= e) /\ ~(w + IMAGE_SIZE <= e)
    BY <1>1, <1>2 DEF NextEdge
  <2> HIDE DEF d
  <2> QED
    BY <2>1, <2>2, <2>3, ProgramFields DEF Ticked, d
<1>3. CASE w <= e /\ e < w + IMAGE_SIZE
  <2>1. /\ Now(d) = Transfer(b) /\ d.current_ram_index = b + (e - w)
        /\ d.x_count_remaining = IMAGE_SIZE - (e - w)
        /\ Advanced(d, Now(d), Following(d)) = After(w, b, e + 1)
    BY <1>1, <1>3, TransferStep
  <2>2. Now(d).state = TRANSFER
    BY <2>1, ProgramFields
  <2>3. NextEdge(e) = e + 1 /\ ~(w + IMAGE_SIZE <= e)
    BY <1>1, <1>3 DEF NextEdge
  <2>4. LastCount(d) <=> e = w + IMAGE_SIZE - 1
    <3>1. LastCount(d) <=> IMAGE_SIZE - (e - w) = 1
      BY <2>1 DEF LastCount
    <3>2. IMAGE_SIZE - (e - w) = 1 <=> e = w + IMAGE_SIZE - 1
      BY <1>1
    <3> QED
      BY <3>1, <3>2
  <2> HIDE DEF d
  <2> QED
    BY <1>3, <2>1, <2>2, <2>3, <2>4, ProgramFields DEF Ticked, d
<1>4. CASE w + IMAGE_SIZE <= e
  <2>1. Now(d) = Stopped /\ d = After(w, b, e + 1)
    BY <1>1, <1>4, StoppedStep
  <2>2. Now(d).state = SUSPENDED
    BY <2>1, ProgramFields
  <2>3. d = After(w, b, NextEdge(e))
    BY <2>1 DEF NextEdge
  <2>4. ~(e < w + IMAGE_SIZE)
    BY <1>1, <1>4
  <2> HIDE DEF d
  <2> QED
    BY <1>4, <2>2, <2>3, <2>4, ProgramFields DEF Ticked, d
<1>5. e < w \/ (w <= e /\ e < w + IMAGE_SIZE) \/ w + IMAGE_SIZE <= e
  BY <1>1
<1> QED
  BY <1>2, <1>3, <1>4, <1>5

(* Loading.                                                                *)
LEMMA PartlyCount ==
  ASSUME NEW w, NEW b, NEW n \in 0 .. 3
  PROVE  Partly(w, b, n).descriptor_count = n
<1>1. Cleared.descriptor_count = 0
  BY DmaFields DEF Cleared, Enter
<1> QED
  BY <1>1, DmaFields DEF Partly

LEMMA PartlyStep ==
  ASSUME NEW w, NEW b, NEW n \in 0 .. 2
  PROVE  Loaded(Partly(w, b, n), WaitThenTransfer(w, b)[n + 1]) = Partly(w, b, n + 1)
<1> DEFINE ds == WaitThenTransfer(w, b)
           d == Partly(w, b, n)
<1>1. d.descriptor_count = n
  BY PartlyCount
<1>2. CASE n = 0
  <2>1. Loaded(d, ds[1]) = Enter(<<ds[1]>>, 1, 0, ds[1])
    BY <1>1, <1>2 DEF Loaded
  <2>2. Enter(<<ds[1]>>, 1, 0, ds[1]) = Dma(<<ds[1]>>, 1, 0, 0, w)
    BY ProgramFields DEF Enter
  <2>3. Partly(w, b, 1) = Dma(<<ds[1]>>, 1, 0, 0, w)
    BY DEF Partly, Prefix
  <2> QED
    BY <1>2, <2>1, <2>2, <2>3
<1>3. CASE n \in 1 .. 2
  <2>1. d = Dma(Prefix(ds, n), n, 0, 0, w)
    BY <1>3 DEF Partly
  <2>2. Loaded(d, ds[n + 1]) =
          Dma(Append(Prefix(ds, n), ds[n + 1]), n + 1, 0, 0, w)
    <3>1. /\ d.descriptors = Prefix(ds, n) /\ d.descriptor_count # 0
          /\ d.descriptor_count = n /\ d.execute_index = 0
          /\ d.current_ram_index = 0 /\ d.x_count_remaining = w
      BY <1>3, <2>1, DmaFields
    <3> HIDE DEF d, ds
    <3> QED
      BY <3>1 DEF Loaded
  <2>3. Append(Prefix(ds, n), ds[n + 1]) = Prefix(ds, n + 1)
    BY <1>3, PrefixStep
  <2>4. Partly(w, b, n + 1) = Dma(Prefix(ds, n + 1), n + 1, 0, 0, w)
    BY <1>3 DEF Partly
  <2> QED
    BY <2>2, <2>3, <2>4
<1> QED
  BY <1>2, <1>3

LEMMA PartlyAll ==
  ASSUME NEW w \in Waits, NEW b
  PROVE  Partly(w, b, 3) = After(w, b, 0)
<1>1. w \in Nat /\ 0 < w /\ w - 0 = w
  BY WaitsFit
<1>2. Prefix(WaitThenTransfer(w, b), 3) = WaitThenTransfer(w, b)
  BY ProgramFields DEF Prefix, WaitThenTransfer
<1> QED
  BY <1>1, <1>2 DEF Partly, After

LEMMA FormTypes ==
  ASSUME NEW w \in Waits, NEW b \in Starts
  PROVE  /\ \A e \in 0 .. MaxEdges : After(w, b, e) \in DmaState
         /\ \A n \in 0 .. 3 : Partly(w, b, n) \in DmaState
<1>1. /\ w \in Nat /\ w < Word /\ w + IMAGE_SIZE < MaxEdges
      /\ b \in Nat /\ b + IMAGE_SIZE < Word
      /\ MaxEdges \in Nat /\ IMAGE_SIZE \in Nat
  BY WaitsFit, Sizes DEF Starts
<1>2. /\ w \in UInt /\ b \in UInt /\ IMAGE_SIZE \in UInt
      /\ \A i \in 0 .. 3 : i \in UInt
  BY <1>1, EngineAssumption DEF UInt
<1>3. Waiting(w) \in Descriptor /\ Transfer(b) \in Descriptor /\ Stopped \in Descriptor
  BY <1>2 DEF Waiting, Transfer, Stopped, Descriptor, WAIT, TRANSFER, SUSPENDED
<1>4. WaitThenTransfer(w, b) \in Seq(Descriptor)
  BY <1>3 DEF WaitThenTransfer
<1>5. ASSUME NEW n \in 1 .. 3
      PROVE  Prefix(WaitThenTransfer(w, b), n) \in Seq(Descriptor)
  BY <1>3, ProgramFields DEF Prefix
<1>6. \A ds \in Seq(Descriptor), n \in Nat, i \in UInt, x \in UInt, r \in UInt :
        Dma(ds, n, i, x, r) \in DmaState
  BY DEF Dma, DmaState
<1>7. ASSUME NEW e \in 0 .. MaxEdges PROVE After(w, b, e) \in DmaState
  <2>1. CASE e < w
    <3>1. w - e \in UInt
      BY <1>1, <2>1, Sizes DEF UInt
    <3> QED
      BY <1>2, <1>4, <1>6, <2>1, <3>1 DEF After
  <2>2. CASE ~(e < w) /\ e < w + IMAGE_SIZE
    <3>1. b + (e - w) \in UInt /\ IMAGE_SIZE - (e - w) \in UInt
      BY <1>1, <2>2, Sizes DEF UInt
    <3> QED
      BY <1>2, <1>4, <1>6, <2>2, <3>1 DEF After
  <2>3. CASE ~(e < w) /\ ~(e < w + IMAGE_SIZE)
    BY <1>2, <1>4, <1>6, <2>3 DEF After
  <2> QED
    BY <2>1, <2>2, <2>3
<1>8. ASSUME NEW n \in 0 .. 3 PROVE Partly(w, b, n) \in DmaState
  <2>1. CASE n = 0
    BY <2>1, ClearedType DEF Partly
  <2>2. CASE n # 0
    <3>1. n \in 1 .. 3 /\ n \in Nat
      BY <2>2
    <3> QED
      BY <1>2, <1>5, <1>6, <3>1 DEF Partly
  <2> QED
    BY <2>1, <2>2
<1> QED
  BY <1>7, <1>8

-----------------------------------------------------------------------------
(* The processor runs the handlers of both parts: what was proved of the   *)
(* memory hierarchy holds of LEFT.                                         *)

LEMMA EngineOfRight ==
  /\ Right!Cleared = Cleared
  /\ \A d, x : Right!Loaded(d, x) = Loaded(d, x)
  /\ \A d, x, y : Right!Advanced(d, x, y) = Advanced(d, x, y)
  /\ Right!SUSPENDED = SUSPENDED /\ Right!TRANSFER = TRANSFER
  BY DEF Right!Cleared, Cleared, Right!Loaded, Loaded, Right!Advanced, Advanced,
     Right!Enter, Enter, Right!Dma, Dma, Right!default_descriptor,
     default_descriptor, Right!SUSPENDED, SUSPENDED, Right!LastCount, LastCount,
     Right!TRANSFER, TRANSFER

LEMMA EngineOfLeft ==
  /\ Left!Cleared = LeftProofs!Cleared
  /\ \A d, x : Left!Loaded(d, x) = LeftProofs!Loaded(d, x)
  /\ \A d, x, y : Left!Advanced(d, x, y) = LeftProofs!Advanced(d, x, y)
  BY DEF Left!Cleared, LeftProofs!Cleared, Left!Loaded, LeftProofs!Loaded,
     Left!Advanced, LeftProofs!Advanced, Left!Enter, LeftProofs!Enter,
     Left!Dma, LeftProofs!Dma, Left!default_descriptor,
     LeftProofs!default_descriptor, Left!SUSPENDED, LeftProofs!SUSPENDED,
     Left!LastCount, LeftProofs!LastCount, Left!TRANSFER, LeftProofs!TRANSFER

LEMMA SizesOfLeft ==
  /\ Left!SMALL_RAM_SIZE = LeftProofs!SMALL_RAM_SIZE
  /\ Left!BIG_RAM_SIZE = LeftProofs!BIG_RAM_SIZE
  /\ LeftProofs!BIG_RAM_SIZE = BIG_RAM_SIZE
  /\ Left!AllEdges = LeftProofs!AllEdges
  /\ LeftProofs!AllEdges = BIG_RAM_SIZE + 1
  /\ \A k : Left!Offset(k) = LeftProofs!Offset(k)
  /\ Left!Channel = LeftProofs!Channel /\ Left!Slice = LeftProofs!Slice
  BY DEF Left!SMALL_RAM_SIZE, LeftProofs!SMALL_RAM_SIZE, Left!BIG_RAM_SIZE,
     LeftProofs!BIG_RAM_SIZE, BIG_RAM_SIZE, Left!AllEdges, LeftProofs!AllEdges,
     Left!Offset, LeftProofs!Offset, Left!Channel, LeftProofs!Channel,
     Left!Slice, LeftProofs!Slice

LEMMA ProgramsOfLeft == \A c : Left!Program(c) = LeftProofs!Program(c)
  BY SizesOfLeft
  DEF Left!Program, LeftProofs!Program, Left!ram_descriptors,
     LeftProofs!ram_descriptors, Left!wait_descriptor,
     LeftProofs!wait_descriptor, Left!slice_descriptor,
     LeftProofs!slice_descriptor, Left!done_descriptor,
     LeftProofs!done_descriptor, Left!desc_mm2s, LeftProofs!desc_mm2s,
     Left!SUSPENDED, LeftProofs!SUSPENDED, Left!TRANSFER,
     LeftProofs!TRANSFER, Left!WAIT, LeftProofs!WAIT

LEMMA CopiedOfLeft ==
  Left!Elapsed = LeftProofs!Elapsed /\ Left!Copied = LeftProofs!Copied
  BY ProgramsOfLeft, SizesOfLeft
  DEF Left!Copied, LeftProofs!Copied, Left!Elapsed, LeftProofs!Elapsed,
     Left!EdgesOf, LeftProofs!EdgesOf

LEMMA HandlersOfLeft ==
  /\ Left!UpdateReset = LeftProofs!UpdateReset
  /\ Left!UpdateRun = LeftProofs!UpdateRun
  /\ \A c : Left!LoadDescriptor(c) = LeftProofs!LoadDescriptor(c)
  /\ \A c : Left!Complete(c) = LeftProofs!Complete(c)
<1>1. Left!UpdateReset = LeftProofs!UpdateReset
  BY EngineOfLeft, SizesOfLeft DEF Left!UpdateReset, LeftProofs!UpdateReset
<1>2. /\ \A d : Left!Stepped(d) = LeftProofs!Stepped(d)
      /\ \A d : Left!OnBus(d) = LeftProofs!OnBus(d)
      /\ \A d, x : Left!Written(d, x) = LeftProofs!Written(d, x)
  BY EngineOfLeft
  DEF Left!Stepped, LeftProofs!Stepped, Left!Active, LeftProofs!Active,
     Left!Executing, LeftProofs!Executing, Left!SUSPENDED,
     LeftProofs!SUSPENDED, Left!OnBus, LeftProofs!OnBus, Left!Transferring,
     LeftProofs!Transferring, Left!Written, LeftProofs!Written,
     Left!TRANSFER, LeftProofs!TRANSFER
<1>3. Left!UpdateRun = LeftProofs!UpdateRun
  BY <1>2, CopiedOfLeft, SizesOfLeft
  DEF Left!UpdateRun, LeftProofs!UpdateRun, Left!InFlight, LeftProofs!InFlight
<1>4. \A c : Left!Complete(c) = LeftProofs!Complete(c)
  BY ProgramsOfLeft DEF Left!Complete, LeftProofs!Complete
<1>5. \A c : Left!LoadDescriptor(c) = LeftProofs!LoadDescriptor(c)
  BY <1>4, EngineOfLeft, ProgramsOfLeft
  DEF Left!LoadDescriptor, LeftProofs!LoadDescriptor
<1> QED
  BY <1>1, <1>3, <1>4, <1>5

LEMMA TypesOfLeft ==
  Left!TypeOK = LeftProofs!TypeOK /\ Left!Init = LeftProofs!Init
  BY SizesOfLeft
  DEF Left!TypeOK, LeftProofs!TypeOK, Left!DmaState, LeftProofs!DmaState,
     Left!Descriptor, LeftProofs!Descriptor, Left!UInt, LeftProofs!UInt,
     Left!Init, LeftProofs!Init, Left!Dma, LeftProofs!Dma

(* The constants of LEFT are as its proofs require.                        *)
LEMMA LeftAssumptions ==
  /\ LeftProofs!EngineAssumption
  /\ LeftProofs!DescriptorsAssumption
  /\ LeftProofs!HierarchyAssumption
<1>1. LeftProofs!UInt = UInt /\ LeftProofs!Descriptor = Descriptor
  BY DEF LeftProofs!UInt, UInt, LeftProofs!Descriptor, Descriptor
<1>2. LeftProofs!EngineAssumption
  BY <1>1, EngineAssumption DEF LeftProofs!EngineAssumption
<1>3. LeftProofs!DescriptorsAssumption
  BY DescriptorsAssumption DEF LeftProofs!DescriptorsAssumption
<1>4. LeftProofs!HierarchyAssumption
  <2>1. /\ LeftProofs!BIG_RAM_SIZE = BIG_RAM_SIZE
        /\ LeftProofs!SMALL_RAM_SIZE = IMAGE_SIZE
    BY DEF LeftProofs!BIG_RAM_SIZE, BIG_RAM_SIZE, LeftProofs!SMALL_RAM_SIZE
  <2>2. RamSize \in Nat /\ IMAGE_SIZE <= RamSize
    <3>1. groupCount - 1 \in Nat
      BY Sizes
    <3>2. (groupCount - 1) * IMAGE_WIDTH = IMAGE_WIDTH * (groupCount - 1)
      BY Sizes, Z3
    <3>3. IMAGE_WIDTH * (groupCount - 1) \in Nat
      BY <3>1, Sizes, Monotone
    <3> DEFINE last == (groupCount - 1) * IMAGE_WIDTH
    <3>4. last \in Nat
      BY <3>2, <3>3
    <3>5. RamSize \in Nat /\ RamSize >= IMAGE_SIZE + last
      BY ProcessorAssumption
    <3> HIDE DEF last
    <3> QED
      BY <3>4, <3>5, Sizes
  <2>3. /\ Images \subseteq [0 .. BIG_RAM_SIZE - 1 -> Pixel]
        /\ 0 \in Pixel /\ Indeterminate \subseteq UInt
    BY ProcessorAssumption, Zenon DEF Right!ArrayConstants
  <2> QED
    BY <1>1, <2>1, <2>2, <2>3, Zenon DEF LeftProofs!HierarchyAssumption
<1> QED
  BY <1>2, <1>3, <1>4

(* Every step of the processor is one of the memory hierarchy, or leaves   *)
(* it alone.                                                               *)
LEMMA LeftSteps ==
  /\ Clock => LeftProofs!Clock
  /\ AssertReset => LeftProofs!AssertReset
  /\ ReleaseReset => LeftProofs!ReleaseReset
  /\ LoadLeft => \E c \in LeftProofs!Channel : LeftProofs!LoadDescriptor(c)
  /\ StartProcessor /\ LeftLoaded => LeftProofs!StartProcessor
  /\ StopProcessor => LeftProofs!StopProcessor
  /\ Abort => LeftProofs!Abort
  /\ LoadRight \/ LoadLoopback \/ LoadWeights \/ UNCHANGED vars =>
       UNCHANGED LeftProofs!vars
<1>1. Clock => LeftProofs!Clock
  BY HandlersOfLeft DEF Clock, UpdateReset, UpdateRun, LeftProofs!Clock
<1>2. AssertReset => LeftProofs!AssertReset
  BY HandlersOfLeft
  DEF AssertReset, UpdateReset, LeftProofs!AssertReset, hardware, left_vars,
     LeftProofs!hardware
<1>3. ReleaseReset => LeftProofs!ReleaseReset
  BY HandlersOfLeft DEF ReleaseReset, UpdateRun, LeftProofs!ReleaseReset
<1>4. LoadLeft => \E c \in LeftProofs!Channel : LeftProofs!LoadDescriptor(c)
  BY HandlersOfLeft, SizesOfLeft DEF LoadLeft
<1>5. StartProcessor /\ LeftLoaded => LeftProofs!StartProcessor
  BY HandlersOfLeft, SizesOfLeft
  DEF StartProcessor, LeftLoaded, LeftProofs!StartProcessor, hardware,
     left_vars, LeftProofs!hardware
<1>6. /\ StopProcessor => LeftProofs!StopProcessor
      /\ Abort => LeftProofs!Abort
  BY DEF StopProcessor, Abort, LeftProofs!StopProcessor, LeftProofs!Abort,
     hardware, left_vars, LeftProofs!hardware
<1>7. LoadRight \/ LoadLoopback \/ LoadWeights \/ UNCHANGED vars =>
        UNCHANGED LeftProofs!vars
  BY DEF LoadRight, LoadLoopback, LoadWeights, vars, LeftProofs!vars,
     LeftProofs!hardware, hardware, left_vars, Right!LoadDescriptor,
     Right!LoadWeights, Right!driver
<1> QED
  BY <1>1, <1>2, <1>3, <1>4, <1>5, <1>6, <1>7

-----------------------------------------------------------------------------
(* The inductive invariant.                                                *)

(* No run has begun: the vectors of the DMAs are empty.                    *)
Fresh ==
  /\ pc = "idle" /\ ~enable /\ ~reset
  /\ edges = 0 /\ ~trans_finished

(* LEFT is loaded before RIGHT, RIGHT before the loopback and all of them  *)
(* before the first weight.                                                *)
Loading ==
  /\ pc \in {"idle", "resetting", "loading"} /\ ~enable
  /\ edges = 0 /\ ~trans_finished
  /\ \A k \in Right!Group :
       \E n \in 0 .. 3 : right[k] = Partly(GroupWait(k), GroupStart(k), n)
  /\ \E n \in 0 .. 3 : loopback = Partly(LoopbackWait, RESULT, n)
  /\ reset => \A k \in Right!Group : right[k].descriptor_count = 0
  /\ pc = "resetting" => reset /\ sent = 0
  /\ pc = "loading" =>
       /\ \A k \in Right!Group : right[k].descriptor_count > 0 => LeftLoaded
       /\ sent > 0 => LeftLoaded /\ RightLoaded /\ LoopbackLoaded

(* All DMAs are where the number of edges says.                            *)
Running ==
  /\ pc \in {"idle", "running", "stopped"} /\ ~reset
  /\ \A k \in Right!Group :
       right[k] = After(GroupWait(k), GroupStart(k), edges)
  /\ loopback = After(LoopbackWait, RESULT, edges)
  /\ trans_finished <=> edges >= LoopbackWait + IMAGE_SIZE

(* LEFT is as far as the array, until it has finished.                     *)
Together ==
  LeftProofs!Elapsed =
    IF edges < LeftProofs!AllEdges THEN edges ELSE LeftProofs!AllEdges

IInv ==
  /\ LeftProofs!IInv
  /\ TypeOK
  /\ Together
  /\ Fresh \/ Loading \/ Running

LEMMA InitInv == Init => IInv
<1> SUFFICES ASSUME Init PROVE IInv
  OBVIOUS
<1>1. LeftProofs!Init
  BY TypesOfLeft DEF Init
<1>2. LeftProofs!TypeOK /\ LeftProofs!Virgin
  BY <1>1, LeftProofs!InitPhase, LeftAssumptions
<1>3. LeftProofs!IInv
  BY <1>1, LeftProofs!InvInit, LeftAssumptions
<1>4. Fresh
  BY DEF Init, Fresh, Left!Init, Right!Init
<1>5. Together
  <2>1. LeftProofs!Elapsed = 0
    BY <1>2, LeftProofs!NotStarted, LeftAssumptions
  <2> QED
    BY <1>4, <2>1, Sizes, SizesOfLeft DEF Together, Fresh
<1>6. TypeOK
  <2>1. \A x \in Int : x = x /\ 0 \in Int
    OBVIOUS
  <2>2. 0 \in Pixel /\ Uninitialised \subseteq Int /\ MaxRuns \in Nat
    BY ProcessorAssumption DEF Right!ArrayConstants
  <2>3. Dma(<<>>, 0, 0, 0, 0) \in DmaState
    BY ZeroType, EmptySeq DEF Dma, DmaState
  <2>4. Right!Dma(<<>>, 0, 0, 0, 0) = Dma(<<>>, 0, 0, 0, 0)
    BY DEF Right!Dma, Dma
  <2>5. PICK x \in Uninitialised :
          /\ right = [k \in Right!Group |-> Right!Dma(<<>>, 0, 0, 0, 0)]
          /\ weight = [k \in Right!Group |-> [i \in Right!Stage |-> x]]
    BY DEF Init, Right!Init
  <2>6. /\ right \in [Right!Group -> DmaState]
        /\ weight \in [Right!Group -> [Right!Stage -> Int]]
    BY <2>2, <2>3, <2>4, <2>5
  <2>7. /\ pixelInBus \in [Right!Group -> Pixel]
        /\ pe \in [Right!Group -> [Right!Stage -> Int]]
        /\ psumFirst \in [Right!Group -> Int]
        /\ cloudFirst \in [Right!Branch -> Int]
        /\ output \in [OutputCell -> Int]
    BY <2>2 DEF Init, Right!Init
  <2>8. edges = 0 /\ sent = 0 /\ runs = 0
    BY DEF Init, Right!Init
  <2>9. /\ edges \in 0 .. MaxEdges /\ runs \in 0 .. MaxRuns
        /\ sent \in 0 .. branchCount * groupCount
    BY <2>2, <2>8, Sizes DEF branchCount
  <2> QED
    BY <1>2, <2>3, <2>6, <2>7, <2>9, TypesOfLeft DEF TypeOK, Init
<1> QED
  BY <1>3, <1>4, <1>5, <1>6 DEF IInv

-----------------------------------------------------------------------------
(* Types.                                                                  *)

LEMMA ComputeType ==
  ASSUME TypeOK, Right!Compute
  PROVE  /\ pe' \in [Right!Group -> [Right!Stage -> Int]]
         /\ cloudFirst' \in [Right!Branch -> Int]
         /\ psumFirst' \in [Right!Group -> Int]
         /\ edges' = NextEdge(edges) /\ edges' \in 0 .. MaxEdges
<1>1. \A p \in Pixel : p \in Int
  BY ProcessorAssumption
<1>2. ASSUME NEW k \in Right!Group, NEW i \in Right!Stage
      PROVE  Right!Accumulated(k, i) \in Int
  <2>1. pixelInBus[k] \in Int /\ weight[k][i] \in Int /\ psumFirst[k] \in Int
    BY <1>1 DEF TypeOK
  <2>2. pixelInBus[k] * weight[k][i] \in Int
    BY <2>1
  <2>3. CASE i = 1
    BY <2>1, <2>2, <2>3 DEF Right!Accumulated
  <2>4. CASE i # 1
    <3>1. i - 1 \in Right!Stage
      BY <2>4, Sizes DEF Right!Stage
    <3>2. pe[k][i - 1] \in Int
      BY <3>1 DEF TypeOK
    <3> QED
      BY <2>2, <2>4, <3>2 DEF Right!Accumulated
  <2> QED
    BY <2>3, <2>4
<1>3. pe' \in [Right!Group -> [Right!Stage -> Int]]
  BY <1>2 DEF Right!Compute
<1>4. peArraySize \in Right!Stage
  BY Sizes DEF Right!Stage
<1>5. ASSUME NEW b \in Right!Branch PROVE Right!LastOf(b) \in Right!Group
  <2>1. b \in Nat /\ 1 <= b /\ b <= 3 /\ 3 \in Nat
    BY DEF Right!Branch, branchCount
  <2>2. groupCount * 1 <= groupCount * b /\ groupCount * b <= groupCount * 3
        /\ groupCount * b \in Nat
    BY <2>1, Sizes, Monotone
  <2>3. groupCount * 1 = groupCount /\ groupCount * b = b * groupCount
        /\ groupCount * 3 = 3 * groupCount
    BY <2>1, Sizes, Z3
  <2> DEFINE last == b * groupCount
  <2>4. last \in Nat /\ groupCount <= last /\ last <= 3 * groupCount
    BY <2>2, <2>3
  <2> HIDE DEF last
  <2>5. last \in 1 .. 3 * groupCount
    BY <2>4, Sizes
  <2> QED
    BY <2>5 DEF last, Right!LastOf, Right!Group, branchCount
<1>6. ASSUME NEW p \in [Right!Group -> [Right!Stage -> Int]], NEW k \in Right!Group
      PROVE  Right!Out(p, k) \in Int
  BY <1>4 DEF Right!Out
<1>7. ASSUME NEW b \in Right!Branch PROVE Right!CloudUpdated(pe', b) \in Int
  <2>1. cloudFirst[b] \in Int
    BY DEF TypeOK
  <2>2. CASE b = 1
    BY <2>1, <2>2 DEF Right!CloudUpdated, Right!CloudPsumIn
  <2>3. CASE b # 1
    <3>1. b - 1 \in Right!Branch
      BY <2>3 DEF Right!Branch, branchCount
    <3>2. Right!CloudPsumIn(pe', b) \in Int
      BY <1>3, <1>5, <1>6, <2>3, <3>1 DEF Right!CloudPsumIn
    <3> QED
      BY <2>1, <3>2 DEF Right!CloudUpdated
  <2> QED
    BY <2>2, <2>3
<1>8. cloudFirst' \in [Right!Branch -> Int]
  BY <1>7 DEF Right!Compute
<1>9. ASSUME NEW k \in Right!Group PROVE Right!GroupUpdated(pe', cloudFirst', k) \in Int
  <2>1. psumFirst[k] \in Int
    BY DEF TypeOK
  <2>2. Right!PsumIn(pe', cloudFirst', k) \in Int
    <3>1. CASE Right!Row(k) = 0
      <4>1. Right!BranchOf(k) \in Right!Branch
        BY GroupFacts DEF Right!Branch, branchCount
      <4> QED
        BY <1>8, <3>1, <4>1 DEF Right!PsumIn
    <3>2. CASE Right!Row(k) # 0
      <4>1. k # 1
        <5>1. 0 % groupCount = 0
          BY Sizes, Z3
        <5> QED
          BY <3>2, <5>1 DEF Right!Row
      <4>2. k - 1 \in Right!Group
        <5> DEFINE last == 3 * groupCount
        <5>1. last \in Nat /\ k \in 1 .. last
          BY Sizes DEF Right!Group, branchCount
        <5> HIDE DEF last
        <5>2. k - 1 \in 1 .. last
          BY <4>1, <5>1
        <5> QED
          BY <5>2 DEF last, Right!Group, branchCount
      <4> QED
        BY <1>3, <1>6, <3>2, <4>2 DEF Right!PsumIn
    <3> QED
      BY <3>1, <3>2
  <2> QED
    BY <2>1, <2>2 DEF Right!GroupUpdated
<1>10. psumFirst' \in [Right!Group -> Int]
  BY <1>9 DEF Right!Compute
<1>11. edges' = NextEdge(edges) /\ edges' \in 0 .. MaxEdges
  <2>1. edges \in 0 .. MaxEdges /\ MaxEdges \in Nat
    BY Sizes DEF TypeOK
  <2>2. edges' = NextEdge(edges)
    BY DEF Right!Compute, NextEdge
  <2> QED
    BY <2>1, <2>2 DEF NextEdge
<1> QED
  BY <1>3, <1>8, <1>10, <1>11
-----------------------------------------------------------------------------
(* The steps.                                                              *)

LEMMA StartReady ==
  ASSUME IInv, StartProcessor
  PROVE  Loading /\ LeftLoaded /\ RightLoaded /\ LoopbackLoaded
<1>1. pc = "loading" /\ sent > 0
  BY Sizes DEF StartProcessor, branchCount
<1>2. Loading
  BY <1>1 DEF IInv, Fresh, Running
<1> QED
  BY <1>1, <1>2 DEF Loading

LEMMA TypesOfLeftNext == Left!TypeOK' = LeftProofs!TypeOK'
  BY SizesOfLeft
  DEF Left!TypeOK, LeftProofs!TypeOK, Left!DmaState, LeftProofs!DmaState,
     Left!Descriptor, LeftProofs!Descriptor, Left!UInt, LeftProofs!UInt

LEMMA LeftStep ==
  ASSUME IInv, [Next]_vars
  PROVE  LeftProofs!IInv' /\ Left!TypeOK'
<1>1. LeftProofs!IInv
  BY DEF IInv
<1>2. StartProcessor => LeftLoaded
  BY StartReady
<1>3. [LeftProofs!Next]_(LeftProofs!vars)
  BY <1>2, LeftSteps, Zenon DEF Next, LeftProofs!Next
<1>4. LeftProofs!IInv'
  BY <1>1, <1>3, LeftProofs!InvStep, LeftAssumptions
<1>5. LeftProofs!TypeOK'
  BY <1>4 DEF LeftProofs!IInv
<1> QED
  BY <1>4, <1>5, TypesOfLeftNext

(* The forms of the DMAs are of the type of a DMA.                         *)
LEMMA FormsOfRight ==
  ASSUME right' = [k \in Right!Group |-> right'[k]],
         Loading' \/ Running', edges' \in 0 .. MaxEdges
  PROVE  right' \in [Right!Group -> DmaState] /\ loopback' \in DmaState
<1>1. ASSUME NEW w \in Waits, NEW b \in Starts, NEW d,
             (\E n \in 0 .. 3 : d = Partly(w, b, n)) \/ d = After(w, b, edges')
      PROVE  d \in DmaState
  BY <1>1, FormTypes
<1>2. ASSUME NEW k \in Right!Group PROVE right'[k] \in DmaState
  <2>1. GroupWait(k) \in Waits /\ GroupStart(k) \in Starts
    BY WaitsFit
  <2>2. \/ \E n \in 0 .. 3 : right'[k] = Partly(GroupWait(k), GroupStart(k), n)
        \/ right'[k] = After(GroupWait(k), GroupStart(k), edges')
    BY DEF Loading, Running
  <2> QED
    BY <1>1, <2>1, <2>2
<1>3. loopback' \in DmaState
  <2>1. \/ \E n \in 0 .. 3 : loopback' = Partly(LoopbackWait, RESULT, n)
        \/ loopback' = After(LoopbackWait, RESULT, edges')
    BY DEF Loading, Running
  <2> QED
    BY <1>1, <2>1, WaitsFit
<1> QED
  BY <1>2, <1>3

LEMMA StreamType ==
  ASSUME TypeOK
  PROVE  Right!streamOut \in Int
<1>1. Right!LastOf(branchCount) \in Right!Group
  <2> DEFINE last == 3 * groupCount
  <2>1. last \in Nat /\ last > 0
    BY Sizes
  <2> HIDE DEF last
  <2>2. last \in 1 .. last
    BY <2>1
  <2> QED
    BY <2>2 DEF last, Right!LastOf, Right!Group, branchCount
<1>2. peArraySize \in Right!Stage
  BY Sizes DEF Right!Stage
<1> QED
  BY <1>1, <1>2 DEF TypeOK, Right!streamOut, Right!Out

LEMMA BusType ==
  ASSUME TypeOK, NEW k \in Right!Group
  PROVE  Right!OnBus(k) \in Pixel
<1>1. 0 \in Pixel
  BY ProcessorAssumption DEF Right!ArrayConstants
<1>2. ASSUME NEW b \in 1 .. 3, NEW i \in Nat PROVE Right!Ram(b, i) \in Pixel
  <2>1. CASE i < IMAGE_SIZE
    <3>1. i \in 0 .. IMAGE_SIZE - 1
      BY <2>1, Sizes
    <3>2. IMAGE_SIZE <= RamSize /\ RamSize \in Nat
      BY LeftAssumptions DEF LeftProofs!HierarchyAssumption, LeftProofs!SMALL_RAM_SIZE
    <3>3. i \in 0 .. RamSize - 1
      BY <3>1, <3>2, Sizes
    <3>4. ram[b] \in [0 .. RamSize - 1 -> Pixel]
      BY DEF TypeOK, Left!TypeOK, Left!Slice
    <3>5. ram[b][i] \in Pixel
      BY <3>3, <3>4
    <3>6. slices[b][i] = ram[b][i]
      BY <3>1 DEF slices, branchCount
    <3> QED
      BY <2>1, <3>5, <3>6 DEF Right!Ram
  <2>2. CASE ~(i < IMAGE_SIZE)
    BY <1>1, <2>2 DEF Right!Ram
  <2> QED
    BY <2>1, <2>2
<1>3. right[k].current_ram_index \in Nat
  BY EngineAssumption DEF TypeOK, DmaState, UInt
<1>4. Right!BranchOf(k) \in 1 .. 3
  BY GroupFacts
<1> QED
  BY <1>1, <1>2, <1>3, <1>4 DEF Right!OnBus

(* One edge of the enabled processor.                                      *)
LEMMA RunStep ==
  ASSUME IInv, Running, enable, UpdateRun
  PROVE  /\ edges' = NextEdge(edges) /\ edges' \in 0 .. MaxEdges
         /\ \A k \in Right!Group :
              right'[k] = After(GroupWait(k), GroupStart(k), edges')
         /\ loopback' = After(LoopbackWait, RESULT, edges')
         /\ trans_finished' <=> edges' >= LoopbackWait + IMAGE_SIZE
         /\ Together'
<1>1. TypeOK /\ edges \in 0 .. MaxEdges
  BY DEF IInv, TypeOK
<1>2. Right!Compute /\ edges' = NextEdge(edges) /\ edges' \in 0 .. MaxEdges
  <2>1. Right!Compute
    BY DEF UpdateRun, Right!UpdateRun
  <2> QED
    BY <1>1, <2>1, ComputeType
<1>3. ASSUME NEW k \in Right!Group
      PROVE  right'[k] = After(GroupWait(k), GroupStart(k), edges')
  <2>1. right'[k] = Right!Stepped(right[k])
    BY DEF UpdateRun, Right!UpdateRun
  <2>2. Right!Stepped(right[k]) = Ticked(right[k])
    BY EngineOfRight
    DEF Right!Stepped, Right!Active, Right!Executing, Ticked, Now, Following
  <2>3. right[k] = After(GroupWait(k), GroupStart(k), edges)
    BY DEF Running
  <2>4. Ticked(right[k]) = After(GroupWait(k), GroupStart(k), NextEdge(edges))
    BY <1>1, <2>3, WaitsFit, TickedAfter
  <2> QED
    BY <1>2, <2>1, <2>2, <2>4
<1> DEFINE d == loopback
<1>4. /\ Executing = Now(d)
      /\ Executing.next = Now(d).next
      /\ Active <=> Now(d).state # SUSPENDED
  BY DEF Executing, Active, Now
<1>5. d = After(LoopbackWait, RESULT, edges)
  BY DEF Running
<1>6. /\ Ticked(d) = After(LoopbackWait, RESULT, NextEdge(edges))
      /\ Now(d).state = TRANSFER <=>
           LoopbackWait <= edges /\ edges < LoopbackWait + IMAGE_SIZE
      /\ Now(d).state = TRANSFER =>
           (LastCount(d) <=> edges = LoopbackWait + IMAGE_SIZE - 1)
      /\ Now(d).state = SUSPENDED <=> LoopbackWait + IMAGE_SIZE <= edges
  BY <1>1, <1>5, WaitsFit, TickedAfter
<1>7. loopback' = After(LoopbackWait, RESULT, edges')
  <2>1. loopback' = Ticked(d)
    BY <1>4 DEF UpdateRun, LoopbackRun, Ticked, Following
  <2> QED
    BY <1>2, <1>6, <2>1
<1>8. trans_finished' <=> edges' >= LoopbackWait + IMAGE_SIZE
  <2>1. /\ LoopbackWait \in Nat /\ IMAGE_SIZE \in Nat /\ IMAGE_SIZE > 0
        /\ edges \in Nat /\ MaxEdges \in Nat
        /\ LoopbackWait + IMAGE_SIZE < MaxEdges
    BY <1>1, WaitsFit, Sizes
  <2>2. trans_finished' = Finish
    BY DEF UpdateRun, LoopbackRun
  <2>3. CASE Active
    <3>1. edges < LoopbackWait + IMAGE_SIZE
      BY <1>4, <1>6, <2>1, <2>3
    <3>2. edges' = edges + 1
      BY <1>2, <2>1, <3>1 DEF NextEdge
    <3>3. Finish <=> edges = LoopbackWait + IMAGE_SIZE - 1
      <4>1. Finish <=> LastCount(d) /\ Now(d).state = TRANSFER
        BY <1>4, <2>3 DEF Finish
      <4>2. edges = LoopbackWait + IMAGE_SIZE - 1 =>
              LoopbackWait <= edges /\ edges < LoopbackWait + IMAGE_SIZE
        BY <2>1
      <4> QED
        BY <1>6, <4>1, <4>2
    <3> QED
      BY <2>1, <2>2, <3>1, <3>2, <3>3
  <2>4. CASE ~Active
    <3>1. LoopbackWait + IMAGE_SIZE <= edges
      BY <1>4, <1>6, <2>4
    <3>2. trans_finished
      BY <2>1, <3>1 DEF Running
    <3>3. trans_finished'
      BY <2>2, <2>4, <3>2 DEF Finish
    <3>4. edges' >= LoopbackWait + IMAGE_SIZE
      BY <1>2, <2>1, <3>1 DEF NextEdge
    <3> QED
      BY <3>3, <3>4
  <2> QED
    BY <2>3, <2>4
<1>9. Together'
  <2>1. LeftProofs!Copying
    <3>1. ~(LeftProofs!Virgin \/ LeftProofs!Loading)
      BY LeftProofs!NotStarted, LeftAssumptions
    <3> QED
      BY <3>1 DEF IInv, LeftProofs!IInv
  <2>2. LeftProofs!UpdateRun
    BY HandlersOfLeft DEF UpdateRun
  <2>3. LeftProofs!Elapsed' = IF LeftProofs!Elapsed < LeftProofs!AllEdges
                                THEN LeftProofs!Elapsed + 1
                                ELSE LeftProofs!Elapsed
    BY <2>1, <2>2, LeftProofs!RunElapsed, LeftAssumptions
  <2>4. LeftProofs!Elapsed =
          IF edges < LeftProofs!AllEdges THEN edges ELSE LeftProofs!AllEdges
    BY DEF IInv, Together
  <2>5. /\ LeftProofs!AllEdges \in Nat /\ LeftProofs!AllEdges <= MaxEdges
        /\ edges \in Nat /\ MaxEdges \in Nat
    BY <1>1, SizesOfLeft, Sizes
  <2>6. LeftProofs!AllEdges' = LeftProofs!AllEdges
    BY DEF LeftProofs!AllEdges, LeftProofs!BIG_RAM_SIZE
  <2> DEFINE f == LeftProofs!Elapsed
             a == LeftProofs!AllEdges
  <2>7. f' = IF edges' < a THEN edges' ELSE a
    <3> HIDE DEF f, a
    <3>1. CASE edges < a
      BY <1>2, <2>3, <2>4, <2>5, <3>1 DEF NextEdge, f, a
    <3>2. CASE ~(edges < a)
      BY <1>2, <2>3, <2>4, <2>5, <3>2 DEF NextEdge, f, a
    <3> QED
      BY <3>1, <3>2
  <2> QED
    BY <2>6, <2>7 DEF Together
<1> QED
  BY <1>2, <1>3, <1>7, <1>8, <1>9

(* One edge of the processor while it is not enabled.                      *)
LEMMA PausedStep ==
  ASSUME TypeOK, ~enable, UpdateRun
  PROVE  /\ UNCHANGED <<right, loopback, trans_finished, output, edges,
                        pe, cloudFirst, psumFirst>>
         /\ left' = left
<1>1. \A k \in Right!Group : Right!Stepped(right[k]) = right[k]
  BY DEF Right!Stepped, Right!Active
<1>2. right' = [k \in Right!Group |-> right[k]]
  BY <1>1 DEF UpdateRun, Right!UpdateRun
<1>3. right' = right
  BY <1>2 DEF TypeOK
<1>4. UNCHANGED <<edges, pe, cloudFirst, psumFirst>>
  BY DEF UpdateRun, Right!UpdateRun
<1>5. UNCHANGED <<loopback, trans_finished, output>>
  BY DEF UpdateRun, LoopbackRun, Finish, Recording, Active
<1>6. left' = left
  <2>1. LeftProofs!UpdateRun /\ LeftProofs!TypeOK
    BY HandlersOfLeft, TypesOfLeft DEF UpdateRun, TypeOK
  <2> QED
    BY <2>1, LeftProofs!IdleStep, LeftAssumptions
<1> QED
  BY <1>3, <1>4, <1>5, <1>6

(* An edge while reset is high, and the edge at which it becomes so.       *)
LEMMA ClearedStep ==
  ASSUME TypeOK, UpdateReset
  PROVE  /\ \A k \in Right!Group :
              right'[k] = Partly(GroupWait(k), GroupStart(k), 0)
         /\ right' = [k \in Right!Group |-> right'[k]]
         /\ loopback' = Partly(LoopbackWait, RESULT, 0)
         /\ edges' = 0 /\ trans_finished' = FALSE
         /\ pe' = [k \in Right!Group |-> [i \in Right!Stage |-> 0]]
         /\ UNCHANGED <<pixelInBus, psumFirst, cloudFirst, output>>
         /\ LeftProofs!Elapsed' = 0
<1>1. /\ right' = [k \in Right!Group |-> Cleared]
      /\ edges' = 0
      /\ pe' = [k \in Right!Group |-> [i \in Right!Stage |-> 0]]
      /\ UNCHANGED <<pixelInBus, psumFirst, cloudFirst>>
  BY EngineOfRight DEF UpdateReset, Right!UpdateReset
<1>2. /\ loopback' = Cleared /\ trans_finished' = FALSE /\ output' = output
  BY DEF UpdateReset, LoopbackReset
<1>3. \A w, b : Partly(w, b, 0) = Cleared
  BY DEF Partly
<1>4. LeftProofs!Elapsed' = 0
  <2>1. LeftProofs!UpdateReset /\ LeftProofs!TypeOK
    BY HandlersOfLeft, TypesOfLeft DEF UpdateReset, TypeOK
  <2>2. left'[3] = LeftProofs!LoadedAt(3, 0)
    BY <2>1, LeftProofs!ResetStep, LeftAssumptions DEF LeftProofs!Channel
  <2>3. LeftProofs!EdgesOf(LeftProofs!LoadedAt(3, 0)) = 0
    BY LeftProofs!EdgesLoaded, LeftAssumptions
  <2> QED
    BY <2>2, <2>3 DEF LeftProofs!Elapsed
<1> QED
  BY <1>1, <1>2, <1>3, <1>4

LEMMA RunTypes ==
  ASSUME TypeOK, UpdateRun
  PROVE  /\ right' = [k \in Right!Group |-> right'[k]]
         /\ pixelInBus' \in [Right!Group -> Pixel]
         /\ pe' \in [Right!Group -> [Right!Stage -> Int]]
         /\ psumFirst' \in [Right!Group -> Int]
         /\ cloudFirst' \in [Right!Branch -> Int]
         /\ edges' \in 0 .. MaxEdges
         /\ trans_finished' \in BOOLEAN
         /\ output' \in [OutputCell -> Int]
<1>1. right' = [k \in Right!Group |-> right'[k]]
  BY DEF UpdateRun, Right!UpdateRun
<1>2. pixelInBus' \in [Right!Group -> Pixel]
  BY BusType DEF UpdateRun, Right!UpdateRun
<1>3. /\ pe' \in [Right!Group -> [Right!Stage -> Int]]
      /\ psumFirst' \in [Right!Group -> Int]
      /\ cloudFirst' \in [Right!Branch -> Int]
      /\ edges' \in 0 .. MaxEdges
  <2>1. CASE enable
    <3>1. Right!Compute
      BY <2>1 DEF UpdateRun, Right!UpdateRun
    <3> QED
      BY <3>1, ComputeType
  <2>2. CASE ~enable
    <3>1. UNCHANGED <<pe, cloudFirst, psumFirst, edges>>
      BY <2>2, PausedStep
    <3> QED
      BY <3>1 DEF TypeOK
  <2> QED
    BY <2>1, <2>2
<1>4. trans_finished' \in BOOLEAN
  <2>1. trans_finished \in BOOLEAN /\ LastCount(loopback) \in BOOLEAN
    BY DEF TypeOK, LastCount
  <2> QED
    BY <2>1 DEF UpdateRun, LoopbackRun, Finish
<1>5. output' \in [OutputCell -> Int]
  <2>1. output \in [OutputCell -> Int] /\ Right!streamOut \in Int
    BY StreamType DEF TypeOK
  <2> DEFINE i == loopback.current_ram_index
             x == Right!streamOut
  <2> HIDE DEF i, x
  <2>2. output' = output \/ output' = [output EXCEPT ![i] = x]
    BY DEF UpdateRun, LoopbackRun, i, x
  <2>3. [output EXCEPT ![i] = x] \in [OutputCell -> Int]
    BY <2>1 DEF x
  <2> QED
    BY <2>1, <2>2, <2>3
<1> QED
  BY <1>1, <1>2, <1>3, <1>4, <1>5

LEMMA ClearedTypes ==
  ASSUME TypeOK, UpdateReset
  PROVE  /\ pixelInBus' \in [Right!Group -> Pixel]
         /\ pe' \in [Right!Group -> [Right!Stage -> Int]]
         /\ psumFirst' \in [Right!Group -> Int]
         /\ cloudFirst' \in [Right!Branch -> Int]
         /\ edges' \in 0 .. MaxEdges
         /\ trans_finished' \in BOOLEAN
         /\ output' \in [OutputCell -> Int]
<1>1. 0 \in 0 .. MaxEdges
  BY Sizes
<1>2. pe' \in [Right!Group -> [Right!Stage -> Int]]
  <2>1. pe' = [k \in Right!Group |-> [i \in Right!Stage |-> 0]]
    BY ClearedStep
  <2> QED
    BY <2>1
<1>3. edges' \in 0 .. MaxEdges /\ trans_finished' \in BOOLEAN
  BY <1>1, ClearedStep
<1> QED
  BY <1>2, <1>3, ClearedStep DEF TypeOK

(* The descriptors of the driver are all sent, or not, as they were.       *)
LEMMA SameLoaded ==
  /\ left' = left => LeftLoaded' = LeftLoaded
  /\ right' = right => RightLoaded' = RightLoaded
  /\ loopback' = loopback => LoopbackLoaded' = LoopbackLoaded
<1>1. left' = left => LeftLoaded' = LeftLoaded
  BY HandlersOfLeft
  DEF LeftLoaded, Left!Complete, Left!Channel, Left!Program, Left!desc_mm2s,
     Left!ram_descriptors, Left!wait_descriptor, Left!slice_descriptor,
     Left!done_descriptor, Left!Offset, Left!SMALL_RAM_SIZE, Left!BIG_RAM_SIZE
<1>2. right' = right => RightLoaded' = RightLoaded
  BY DEF RightLoaded, Right!Complete, Right!Group, Right!group_descriptors,
     Right!Programmed
<1>3. loopback' = loopback => LoopbackLoaded' = LoopbackLoaded
  BY DEF LoopbackLoaded, loopback_descriptors, LoopbackProgram
<1> QED
  BY <1>1, <1>2, <1>3

LEMMA TogetherNext ==
  ASSUME IInv, left' = left \/ LeftProofs!Elapsed' = 0,
         edges' = edges, edges = 0 \/ left' = left
  PROVE  Together'
<1>1. LeftProofs!Elapsed' = LeftProofs!Elapsed \/ LeftProofs!Elapsed' = 0
  BY DEF LeftProofs!Elapsed
<1>2. LeftProofs!AllEdges' = LeftProofs!AllEdges /\ LeftProofs!AllEdges > 0
  BY SizesOfLeft, Sizes DEF LeftProofs!AllEdges, LeftProofs!BIG_RAM_SIZE
<1>3. left' = left => LeftProofs!Elapsed' = LeftProofs!Elapsed
  BY DEF LeftProofs!Elapsed
<1>4. LeftProofs!Elapsed =
        IF edges < LeftProofs!AllEdges THEN edges ELSE LeftProofs!AllEdges
  BY DEF IInv, Together
<1> QED
  BY <1>1, <1>2, <1>3, <1>4 DEF Together

LEMMA ClockStep ==
  ASSUME IInv, Clock
  PROVE  IInv'
<1>1. /\ TypeOK /\ LeftProofs!IInv' /\ Left!TypeOK'
      /\ UNCHANGED <<weight, image, reset, enable, pc, sent, runs>>
      /\ (reset => UpdateReset) /\ (~reset => UpdateRun)
  BY LeftStep DEF IInv, Clock, Next
<1>2. /\ weight' \in [Right!Group -> [Right!Stage -> Int]]
      /\ sent' \in 0 .. branchCount * groupCount /\ runs' \in 0 .. MaxRuns
  BY <1>1 DEF TypeOK
<1>3. CASE reset
  <2>1. Loading /\ pc \in {"idle", "resetting"}
    BY <1>3 DEF IInv, Fresh, Running, Loading, LeftProofs!IInv
  <2>2. UpdateReset
    BY <1>1, <1>3
  <2>3. Loading'
    <3>1. ASSUME NEW k \in Right!Group
          PROVE  /\ \E n \in 0 .. 3 :
                      right'[k] = Partly(GroupWait(k), GroupStart(k), n)
                 /\ right'[k].descriptor_count = 0
      <4>1. 0 \in 0 .. 3 /\ right'[k] = Partly(GroupWait(k), GroupStart(k), 0)
        BY <1>1, <2>2, ClearedStep
      <4> QED
        BY <4>1, PartlyCount
    <3>2. \E n \in 0 .. 3 : loopback' = Partly(LoopbackWait, RESULT, n)
      <4>1. 0 \in 0 .. 3 /\ loopback' = Partly(LoopbackWait, RESULT, 0)
        BY <1>1, <2>2, ClearedStep
      <4> QED
        BY <4>1
    <3>3. edges' = 0 /\ ~trans_finished'
      BY <1>1, <2>2, ClearedStep
    <3> QED
      BY <1>1, <2>1, <3>1, <3>2, <3>3 DEF Loading
  <2>4. Together'
    BY <1>1, <2>1, <2>2, ClearedStep, TogetherNext DEF Loading
  <2>5. right' \in [Right!Group -> DmaState] /\ loopback' \in DmaState
    BY <1>1, <2>2, <2>3, ClearedStep, ClearedTypes, FormsOfRight
  <2>6. TypeOK'
    BY <1>1, <1>2, <2>2, <2>5, ClearedTypes, Zenon DEF TypeOK
  <2> QED
    BY <1>1, <2>3, <2>4, <2>6 DEF IInv
<1>4. CASE ~reset /\ ~enable
  <2>1. UpdateRun
    BY <1>1, <1>4
  <2>2. UNCHANGED <<left, right, loopback, trans_finished, edges>>
    BY <1>1, <1>4, <2>1, PausedStep
  <2>3. TypeOK'
    BY <1>1, <1>2, <2>1, <2>2, RunTypes, Zenon DEF TypeOK
  <2>4. Together'
    BY <2>2, TogetherNext
  <2>5. Fresh => Fresh'
    BY <1>1, <2>2 DEF Fresh
  <2>6. Loading => Loading'
    BY <1>1, <2>2, SameLoaded DEF Loading
  <2>7. Running => Running'
    BY <1>1, <2>2 DEF Running
  <2> QED
    BY <1>1, <2>3, <2>4, <2>5, <2>6, <2>7 DEF IInv
<1>5. CASE ~reset /\ enable
  <2>1. UpdateRun /\ Running
    BY <1>1, <1>5 DEF IInv, Fresh, Loading
  <2>2. Running' /\ Together'
    BY <1>1, <1>5, <2>1, RunStep DEF Running
  <2>3. right' \in [Right!Group -> DmaState] /\ loopback' \in DmaState
    BY <1>1, <2>1, <2>2, RunTypes, FormsOfRight
  <2>4. TypeOK'
    BY <1>1, <1>2, <2>1, <2>3, RunTypes, Zenon DEF TypeOK
  <2> QED
    BY <1>1, <2>2, <2>4 DEF IInv
<1> QED
  BY <1>3, <1>4, <1>5

LEMMA AssertResetStep ==
  ASSUME IInv, AssertReset
  PROVE  IInv'
<1>1. /\ TypeOK /\ LeftProofs!IInv' /\ Left!TypeOK'
      /\ pc \in {"idle", "stopped"} /\ pc' = "resetting" /\ reset' = TRUE
      /\ sent' = 0 /\ runs < MaxRuns /\ runs' = runs + 1
      /\ UNCHANGED <<weight, enable>>
      /\ (reset => UNCHANGED hardware) /\ (~reset => UpdateReset)
  BY LeftStep DEF IInv, AssertReset, Next
<1>2. ~enable
  BY <1>1 DEF IInv, LeftProofs!IInv
<1>3. /\ weight' \in [Right!Group -> [Right!Stage -> Int]]
      /\ sent' \in 0 .. branchCount * groupCount /\ runs' \in 0 .. MaxRuns
  <2>0. MaxRuns \in Nat
    BY ProcessorAssumption, Zenon
  <2>1. runs \in 0 .. MaxRuns
    BY <1>1 DEF TypeOK
  <2>2. 0 \in 0 .. branchCount * groupCount
    BY Sizes DEF branchCount
  <2> QED
    BY <1>1, <2>0, <2>1, <2>2 DEF TypeOK
<1>4. CASE reset
  <2>1. Loading
    BY <1>4 DEF IInv, Fresh, Running
  <2>2. UNCHANGED <<left, right, loopback, trans_finished, edges, output,
                    pixelInBus, pe, psumFirst, cloudFirst>>
    BY <1>1, <1>4 DEF hardware, left_vars, right_vars, loopback_vars
  <2>3. Loading'
    BY <1>1, <1>2, <1>4, <2>1, <2>2 DEF Loading
  <2>4. Together'
    BY <2>2, TogetherNext
  <2>5. TypeOK'
    BY <1>1, <1>3, <2>2, Zenon DEF TypeOK
  <2> QED
    BY <1>1, <2>3, <2>4, <2>5 DEF IInv
<1>5. CASE ~reset
  <2>1. UpdateReset
    BY <1>1, <1>5
  <2>2. Loading'
    <3>1. ASSUME NEW k \in Right!Group
          PROVE  /\ \E n \in 0 .. 3 :
                      right'[k] = Partly(GroupWait(k), GroupStart(k), n)
                 /\ right'[k].descriptor_count = 0
      <4>1. 0 \in 0 .. 3 /\ right'[k] = Partly(GroupWait(k), GroupStart(k), 0)
        BY <1>1, <2>1, ClearedStep
      <4> QED
        BY <4>1, PartlyCount
    <3>2. \E n \in 0 .. 3 : loopback' = Partly(LoopbackWait, RESULT, n)
      <4>1. 0 \in 0 .. 3 /\ loopback' = Partly(LoopbackWait, RESULT, 0)
        BY <1>1, <2>1, ClearedStep
      <4> QED
        BY <4>1
    <3>3. edges' = 0 /\ ~trans_finished'
      BY <1>1, <2>1, ClearedStep
    <3> QED
      BY <1>1, <1>2, <3>1, <3>2, <3>3 DEF Loading
  <2>3. Together'
    <3>1. LeftProofs!Elapsed' = 0 /\ edges' = 0
      BY <1>1, <2>1, ClearedStep
    <3>2. LeftProofs!AllEdges' = LeftProofs!AllEdges /\ LeftProofs!AllEdges > 0
      BY SizesOfLeft, Sizes DEF LeftProofs!AllEdges, LeftProofs!BIG_RAM_SIZE
    <3> QED
      BY <3>1, <3>2 DEF Together
  <2>4. right' \in [Right!Group -> DmaState] /\ loopback' \in DmaState
    BY <1>1, <2>1, <2>2, ClearedStep, ClearedTypes, FormsOfRight
  <2>5. TypeOK'
    BY <1>1, <1>3, <2>1, <2>4, ClearedTypes, Zenon DEF TypeOK
  <2> QED
    BY <1>1, <2>2, <2>3, <2>5 DEF IInv
<1> QED
  BY <1>4, <1>5

LEMMA ReleaseResetStep ==
  ASSUME IInv, ReleaseReset
  PROVE  IInv'
<1>1. /\ TypeOK /\ LeftProofs!IInv' /\ Left!TypeOK'
      /\ pc = "resetting" /\ pc' = "loading" /\ reset' = FALSE /\ UpdateRun
      /\ UNCHANGED <<weight, image, enable, sent, runs>>
  BY LeftStep DEF IInv, ReleaseReset, Next
<1>2. /\ Loading /\ ~enable /\ sent = 0
      /\ \A k \in Right!Group : ~(right[k].descriptor_count > 0)
  BY <1>1 DEF IInv, Fresh, Running, Loading
<1>3. UNCHANGED <<left, right, loopback, trans_finished, edges>>
  BY <1>1, <1>2, PausedStep
<1>4. Loading'
  BY <1>1, <1>2, <1>3 DEF Loading
<1>5. Together'
  BY <1>3, TogetherNext
<1>6. TypeOK'
  <2>1. /\ weight' \in [Right!Group -> [Right!Stage -> Int]]
        /\ sent' \in 0 .. branchCount * groupCount /\ runs' \in 0 .. MaxRuns
        /\ right' \in [Right!Group -> DmaState] /\ loopback' \in DmaState
    BY <1>1, <1>3 DEF TypeOK
  <2> QED
    BY <1>1, <2>1, RunTypes, Zenon DEF TypeOK
<1> QED
  BY <1>1, <1>4, <1>5, <1>6 DEF IInv

(* A step of the driver that leaves the array and the loopback alone but   *)
(* for one DMA that is being loaded.                                       *)
LEMMA LoadLeftStep ==
  ASSUME IInv, LoadLeft
  PROVE  IInv'
<1>1. PICK c \in Left!Channel : Left!LoadDescriptor(c)
  BY DEF LoadLeft
<1>2. /\ TypeOK /\ LeftProofs!IInv' /\ Left!TypeOK'
      /\ pc = "loading" /\ ~Left!Complete(c)
      /\ UNCHANGED <<right, loopback, trans_finished, edges, output, weight,
                     pixelInBus, pe, psumFirst, cloudFirst, reset, enable,
                     pc, sent, runs>>
  BY <1>1, LeftStep
  DEF IInv, LoadLeft, Next, Left!LoadDescriptor, right_vars, loopback_vars
<1>3. Loading /\ ~LeftLoaded
  BY <1>2 DEF IInv, Fresh, Running, LeftLoaded
<1>4. Loading'
  BY <1>2, <1>3 DEF Loading
<1>5. LeftProofs!Elapsed' = 0
  <2>1. c \in LeftProofs!Channel /\ LeftProofs!LoadDescriptor(c) /\ LeftProofs!IInv
    BY <1>1, SizesOfLeft, HandlersOfLeft DEF IInv
  <2>2. LeftProofs!Loading'
    BY <2>1, LeftProofs!LoadDescriptorStep, LeftAssumptions
  <2>3. \E n \in 0 .. 3 : left'[3] = LeftProofs!LoadedAt(3, n)
    <3>1. 3 \in LeftProofs!Channel
      BY DEF LeftProofs!Channel
    <3>2. Len(LeftProofs!Program(3)) = 3
      BY <3>1, LeftProofs!ProgramFacts, LeftAssumptions
    <3> QED
      BY <2>2, <3>1, <3>2 DEF LeftProofs!Loading
  <2> QED
    BY <2>3, LeftProofs!EdgesLoaded, LeftAssumptions DEF LeftProofs!Elapsed
<1>6. Together'
  BY <1>2, <1>3, <1>5, TogetherNext DEF Loading
<1>7. TypeOK'
  BY <1>2, Zenon DEF TypeOK
<1> QED
  BY <1>2, <1>4, <1>6, <1>7 DEF IInv

LEMMA LoadRightStep ==
  ASSUME IInv, LoadRight
  PROVE  IInv'
<1>1. PICK k \in Right!Group : Right!LoadDescriptor(k)
  BY DEF LoadRight
<1>2. /\ TypeOK /\ LeftProofs!IInv' /\ Left!TypeOK' /\ LeftLoaded
      /\ pc = "loading" /\ ~Right!Complete(k)
      /\ right' = [right EXCEPT ![k] =
                     Loaded(@, Right!group_descriptors(k)[right[k].descriptor_count + 1])]
      /\ UNCHANGED <<left, loopback, trans_finished, edges, output, weight,
                     pixelInBus, pe, psumFirst, cloudFirst, reset, enable,
                     pc, sent, runs>>
  BY <1>1, LeftStep, EngineOfRight
  DEF IInv, LoadRight, Next, Right!LoadDescriptor, left_vars, loopback_vars,
      Right!signals, Right!driver
<1>3. Loading /\ ~reset /\ sent = 0
  <2>1. Loading
    BY <1>2 DEF IInv, Fresh, Running
  <2>2. ~reset
    BY <1>2 DEF IInv, LeftProofs!IInv
  <2>3. ~(sent > 0)
    BY <1>2, <2>1 DEF Loading, RightLoaded
  <2>4. sent \in 0 .. 3 * groupCount
    BY <1>2 DEF TypeOK, branchCount
  <2>5. sent = 0
    <3> DEFINE last == 3 * groupCount
    <3>1. last \in Nat /\ sent \in 0 .. last
      BY <2>4, Sizes
    <3> HIDE DEF last
    <3> QED
      BY <2>3, <3>1
  <2> QED
    BY <2>1, <2>2, <2>5
<1>4. \E n \in 0 .. 3 : right'[k] = Partly(GroupWait(k), GroupStart(k), n)
  <2> DEFINE w == GroupWait(k)
             b == GroupStart(k)
  <2>1. PICK n \in 0 .. 3 : right[k] = Partly(w, b, n)
    BY <1>3 DEF Loading
  <2>2. right[k].descriptor_count = n
    BY <2>1, PartlyCount
  <2>3. Right!group_descriptors(k) = WaitThenTransfer(w, b)
    BY ProgramsAre
  <2>4. n # 3
    <3>1. Len(WaitThenTransfer(w, b)) = 3
      BY ProgramFields
    <3>2. right[k].descriptor_count # Len(Right!group_descriptors(k))
      BY <1>2 DEF Right!Complete
    <3> HIDE DEF w, b
    <3> QED
      BY <2>2, <2>3, <3>1, <3>2, Zenon
  <2>5. n \in 0 .. 2 /\ n + 1 \in 0 .. 3
    BY <2>4
  <2>6. right'[k] = Loaded(Partly(w, b, n), WaitThenTransfer(w, b)[n + 1])
    BY <1>2, <2>1, <2>2, <2>3 DEF TypeOK
  <2> HIDE DEF w, b
  <2>7. right'[k] = Partly(w, b, n + 1)
    BY <2>5, <2>6, PartlyStep
  <2> QED
    BY <2>5, <2>7 DEF w, b
<1>5. \A j \in Right!Group : j # k => right'[j] = right[j]
  BY <1>2 DEF TypeOK
<1>6. Loading'
  <2>1. \A j \in Right!Group :
          \E n \in 0 .. 3 : right'[j] = Partly(GroupWait(j), GroupStart(j), n)
    BY <1>3, <1>4, <1>5 DEF Loading
  <2>2. LeftLoaded'
    BY <1>2, SameLoaded
  <2>3. ~(0 > 0)
    OBVIOUS
  <2> QED
    BY <1>2, <1>3, <2>1, <2>2, <2>3 DEF Loading
<1>7. Together'
  BY <1>2, TogetherNext
<1>8. right' \in [Right!Group -> DmaState]
  <2>1. right' = [j \in Right!Group |-> right'[j]]
    BY <1>2 DEF TypeOK
  <2>2. edges' \in 0 .. MaxEdges
    BY <1>2 DEF TypeOK
  <2> QED
    BY <1>6, <2>1, <2>2, FormsOfRight
<1>9. TypeOK'
  BY <1>2, <1>8, Zenon DEF TypeOK
<1> QED
  BY <1>2, <1>6, <1>7, <1>9 DEF IInv

LEMMA LoadLoopbackStep ==
  ASSUME IInv, LoadLoopback
  PROVE  IInv'
<1>1. /\ TypeOK /\ LeftProofs!IInv' /\ Left!TypeOK'
      /\ pc = "loading" /\ RightLoaded /\ ~LoopbackLoaded
      /\ loopback' =
           Loaded(loopback, loopback_descriptors[loopback.descriptor_count + 1])
      /\ UNCHANGED <<left, right, trans_finished, edges, output, weight,
                     pixelInBus, pe, psumFirst, cloudFirst, reset, enable,
                     pc, sent, runs>>
  BY LeftStep DEF IInv, LoadLoopback, Next, left_vars, right_vars
<1>2. Loading /\ sent = 0
  <2>1. Loading
    BY <1>1 DEF IInv, Fresh, Running
  <2>2. ~(sent > 0)
    BY <1>1, <2>1 DEF Loading
  <2>3. sent \in 0 .. 3 * groupCount
    BY <1>1 DEF TypeOK, branchCount
  <2> DEFINE last == 3 * groupCount
  <2>4. last \in Nat /\ sent \in 0 .. last
    BY <2>3, Sizes
  <2> HIDE DEF last
  <2>5. sent = 0
    BY <2>2, <2>4
  <2> QED
    BY <2>1, <2>5
<1>3. \E n \in 0 .. 3 : loopback' = Partly(LoopbackWait, RESULT, n)
  <2>1. PICK n \in 0 .. 3 : loopback = Partly(LoopbackWait, RESULT, n)
    BY <1>2 DEF Loading
  <2>2. loopback.descriptor_count = n
    BY <2>1, PartlyCount
  <2>3. loopback_descriptors = WaitThenTransfer(LoopbackWait, RESULT)
    BY ProgramsAre
  <2>4. Len(WaitThenTransfer(LoopbackWait, RESULT)) = 3
    BY ProgramFields
  <2>5. n # 3
    BY <1>1, <2>2, <2>3, <2>4, Zenon DEF LoopbackLoaded
  <2>6. n \in 0 .. 2 /\ n + 1 \in 0 .. 3
    BY <2>5
  <2>7. loopback' = Partly(LoopbackWait, RESULT, n + 1)
    BY <1>1, <2>1, <2>2, <2>3, <2>6, PartlyStep
  <2> QED
    BY <2>6, <2>7
<1>4. Loading'
  <2>1. LeftLoaded' = LeftLoaded /\ ~(0 > 0)
    BY <1>1, SameLoaded
  <2> QED
    BY <1>1, <1>2, <1>3, <2>1 DEF Loading
<1>5. Together'
  BY <1>1, TogetherNext
<1>6. loopback' \in DmaState
  <2>1. right' = [k \in Right!Group |-> right'[k]] /\ edges' \in 0 .. MaxEdges
    BY <1>1 DEF TypeOK
  <2> QED
    BY <1>4, <2>1, FormsOfRight
<1>7. TypeOK'
  BY <1>1, <1>6, Zenon DEF TypeOK
<1> QED
  BY <1>1, <1>4, <1>5, <1>7 DEF IInv

LEMMA LoadWeightsStep ==
  ASSUME IInv, LoadWeights
  PROVE  IInv'
<1>1. PICK k \in Right!Group : Right!LoadWeights(k)
  BY DEF LoadWeights
<1>2. /\ TypeOK /\ LeftProofs!IInv' /\ Left!TypeOK'
      /\ pc = "loading" /\ RightLoaded /\ LoopbackLoaded
      /\ weight' = [weight EXCEPT ![k] = kernel[k]] /\ sent' = k
      /\ UNCHANGED <<left, right, loopback, trans_finished, edges, output,
                     pixelInBus, pe, psumFirst, cloudFirst, reset, enable,
                     pc, runs>>
  BY <1>1, LeftStep
  DEF IInv, LoadWeights, Next, Right!LoadWeights, RightLoaded, left_vars,
      loopback_vars, Right!hardware, Right!signals
<1>3. Loading
  BY <1>2 DEF IInv, Fresh, Running
<1>4. LeftLoaded
  <2>1. Len(Right!group_descriptors(k)) = 3
    BY ProgramsAre, ProgramFields
  <2>2. right[k].descriptor_count = 3
    BY <1>2, <2>1, Zenon DEF RightLoaded, Right!Complete
  <2>3. 3 > 0
    OBVIOUS
  <2> QED
    BY <1>2, <1>3, <2>2, <2>3 DEF Loading
<1>5. LeftLoaded' /\ RightLoaded' /\ LoopbackLoaded'
  BY <1>2, <1>4, SameLoaded
<1>6. Loading'
  BY <1>2, <1>3, <1>5 DEF Loading
<1>7. Together'
  BY <1>2, TogetherNext
<1>8. weight' \in [Right!Group -> [Right!Stage -> Int]]
  <2>1. kernel \in [Right!Group -> [Right!Stage -> Int]]
    BY ProcessorAssumption, Zenon DEF Right!ArrayConstants
  <2>2. weight \in [Right!Group -> [Right!Stage -> Int]]
    BY <1>2 DEF TypeOK
  <2> QED
    BY <1>2, <2>1, <2>2
<1>9. sent' \in 0 .. branchCount * groupCount
  <2> DEFINE last == branchCount * groupCount
  <2>1. last \in Nat
    BY Sizes DEF branchCount
  <2>2. k \in 1 .. last
    BY DEF Right!Group
  <2> HIDE DEF last
  <2>3. sent' \in 0 .. last
    BY <1>2, <2>1, <2>2
  <2> QED
    BY <2>3 DEF last
<1>10. TypeOK'
  BY <1>2, <1>8, <1>9, Zenon DEF TypeOK
<1> QED
  BY <1>2, <1>6, <1>7, <1>10 DEF IInv

LEMMA StartStep ==
  ASSUME IInv, StartProcessor
  PROVE  IInv'
<1>1. /\ TypeOK /\ LeftProofs!IInv' /\ Left!TypeOK'
      /\ pc = "loading" /\ pc' = "running"
      /\ UNCHANGED <<left, right, loopback, trans_finished, edges, output,
                     weight, pixelInBus, pe, psumFirst, cloudFirst, reset,
                     sent, runs>>
  BY LeftStep
  DEF IInv, StartProcessor, Next, hardware, left_vars, right_vars,
      loopback_vars
<1>2. Loading /\ RightLoaded /\ LoopbackLoaded
  BY StartReady
<1>3. edges = 0 /\ ~trans_finished /\ ~reset
  BY <1>1, <1>2 DEF Loading, IInv, LeftProofs!IInv
<1>4. ASSUME NEW k \in Right!Group
      PROVE  right[k] = After(GroupWait(k), GroupStart(k), 0)
  <2>1. PICK n \in 0 .. 3 : right[k] = Partly(GroupWait(k), GroupStart(k), n)
    BY <1>2 DEF Loading
  <2>2. Len(Right!group_descriptors(k)) = 3
    BY ProgramsAre, ProgramFields
  <2>3. n = 3
    <3>1. right[k].descriptor_count = n
      BY <2>1, PartlyCount
    <3> QED
      BY <1>2, <2>2, <3>1, Zenon DEF RightLoaded, Right!Complete
  <2> QED
    BY <2>1, <2>3, WaitsFit, PartlyAll
<1>5. loopback = After(LoopbackWait, RESULT, 0)
  <2>1. PICK n \in 0 .. 3 : loopback = Partly(LoopbackWait, RESULT, n)
    BY <1>2 DEF Loading
  <2>2. Len(loopback_descriptors) = 3
    BY ProgramsAre, ProgramFields
  <2>3. n = 3
    <3>1. loopback.descriptor_count = n
      BY <2>1, PartlyCount
    <3> QED
      BY <1>2, <2>2, <3>1, Zenon DEF LoopbackLoaded
  <2> QED
    BY <2>1, <2>3, WaitsFit, PartlyAll
<1>6. ~(0 >= LoopbackWait + IMAGE_SIZE)
  BY WaitsFit, Sizes
<1>7. Running'
  BY <1>1, <1>3, <1>4, <1>5, <1>6 DEF Running
<1>8. Together'
  BY <1>1, TogetherNext
<1>9. TypeOK'
  BY <1>1, Zenon DEF TypeOK
<1> QED
  BY <1>1, <1>7, <1>8, <1>9 DEF IInv

LEMMA DisabledStep ==
  ASSUME IInv, StopProcessor \/ Abort
  PROVE  IInv'
<1>1. /\ TypeOK /\ LeftProofs!IInv' /\ Left!TypeOK'
      /\ UNCHANGED <<left, right, loopback, trans_finished, edges, output,
                     weight, pixelInBus, pe, psumFirst, cloudFirst, reset,
                     sent, runs>>
  BY LeftStep
  DEF IInv, StopProcessor, Abort, Next, hardware, left_vars, right_vars,
      loopback_vars
<1>2. \/ pc = "running" /\ pc' = "stopped" /\ enable' = FALSE
      \/ pc # "idle" /\ pc' = "idle" /\ enable' = enable
  BY DEF StopProcessor, Abort
<1>3. ~Fresh
  BY <1>2 DEF Fresh
<1>4. Loading => Loading'
  BY <1>1, <1>2 DEF Loading
<1>5. Running => Running'
  BY <1>1, <1>2 DEF Running
<1>6. Together'
  BY <1>1, TogetherNext
<1>7. TypeOK'
  BY <1>1, Zenon DEF TypeOK
<1> QED
  BY <1>1, <1>3, <1>4, <1>5, <1>6, <1>7 DEF IInv

LEMMA InvStep == IInv /\ [Next]_vars => IInv'
<1> SUFFICES ASSUME IInv, [Next]_vars PROVE IInv'
  OBVIOUS
<1>1. CASE Clock
  BY <1>1, ClockStep
<1>2. CASE AssertReset
  BY <1>2, AssertResetStep
<1>3. CASE ReleaseReset
  BY <1>3, ReleaseResetStep
<1>4. CASE LoadLeft
  BY <1>4, LoadLeftStep
<1>5. CASE LoadRight
  BY <1>5, LoadRightStep
<1>6. CASE LoadLoopback
  BY <1>6, LoadLoopbackStep
<1>7. CASE LoadWeights
  BY <1>7, LoadWeightsStep
<1>8. CASE StartProcessor
  BY <1>8, StartStep
<1>9. CASE StopProcessor \/ Abort
  BY <1>9, DisabledStep
<1>10. CASE UNCHANGED vars
  <2>1. LeftProofs!IInv' /\ Left!TypeOK' /\ TypeOK
    BY LeftStep DEF IInv
  <2>2. UNCHANGED <<left, right, loopback, trans_finished, edges, output,
                    weight, pixelInBus, pe, psumFirst, cloudFirst, reset,
                    enable, pc, sent, runs>>
    BY <1>10 DEF vars, hardware, left_vars, right_vars, loopback_vars
  <2>3. TypeOK'
    BY <2>1, <2>2, Zenon DEF TypeOK
  <2>4. Together'
    BY <2>2, TogetherNext
  <2>5. Fresh => Fresh'
    BY <2>2 DEF Fresh
  <2>6. Loading => Loading'
    BY <2>2, SameLoaded DEF Loading
  <2>7. Running => Running'
    BY <2>2 DEF Running
  <2> QED
    BY <2>1, <2>3, <2>4, <2>5, <2>6, <2>7 DEF IInv
<1> QED
  BY <1>1, <1>2, <1>3, <1>4, <1>5, <1>6, <1>7, <1>8, <1>9, <1>10 DEF Next

LEMMA Invariant == Spec => []IInv
  BY InitInv, InvStep, PTL DEF Spec

(* The readers of the array and the loopback, at every edge.               *)
LEMMA AfterInside ==
  ASSUME NEW w \in Waits, NEW b \in Starts, NEW e \in 0 .. MaxEdges
  PROVE  WithinBounds(After(w, b, e), b .. b + IMAGE_SIZE - 1)
<1> DEFINE ds == WaitThenTransfer(w, b)
           cells == b .. b + IMAGE_SIZE - 1
           d == After(w, b, e)
<1>1. /\ w \in Nat /\ b \in Nat /\ e \in Nat
      /\ IMAGE_SIZE \in Nat /\ IMAGE_SIZE > 0
  BY WaitsFit, Sizes DEF Starts
<1>2. /\ Len(ds) = 3
      /\ ds[0 + 1] = Waiting(w) /\ ds[1 + 1] = Transfer(b) /\ ds[2 + 1] = Stopped
  BY ProgramFields
<1>3. ASSUME NEW i \in Nat, NEW x, NEW r, d = Dma(ds, 3, i, x, r)
      PROVE  /\ d.descriptors = ds /\ d.execute_index = i
             /\ d.current_ram_index = x /\ d.x_count_remaining = r
  BY <1>3, DmaFields
<1>4. CASE e < w
  <2>1. d = Dma(ds, 3, 0, 0, w - e)
    BY <1>4 DEF After
  <2>2. w - e > 0
    BY <1>1, <1>4
  <2>3. /\ d.descriptors = ds /\ d.execute_index = 0
        /\ d.x_count_remaining = w - e
    BY <2>1, <1>3
  <2> HIDE DEF d, ds, cells
  <2> QED
    BY <1>2, <2>2, <2>3, ProgramFields DEF WithinBounds, d, cells
<1>5. CASE ~(e < w) /\ e < w + IMAGE_SIZE
  <2>1. d = Dma(ds, 3, 1, b + (e - w), IMAGE_SIZE - (e - w))
    BY <1>5 DEF After
  <2>2. IMAGE_SIZE - (e - w) > 0 /\ b + (e - w) \in cells
    BY <1>1, <1>5
  <2>3. /\ d.descriptors = ds /\ d.execute_index = 1
        /\ d.current_ram_index = b + (e - w)
        /\ d.x_count_remaining = IMAGE_SIZE - (e - w)
    BY <2>1, <1>3
  <2> HIDE DEF d, ds, cells
  <2> QED
    BY <1>2, <2>2, <2>3, ProgramFields DEF WithinBounds, d, cells
<1>6. CASE ~(e < w) /\ ~(e < w + IMAGE_SIZE)
  <2>1. d = Dma(ds, 3, 2, 0, 0)
    BY <1>6 DEF After
  <2>2. d.descriptors = ds /\ d.execute_index = 2
    BY <2>1, <1>3
  <2> HIDE DEF d, ds, cells
  <2> QED
    BY <1>2, <2>2, ProgramFields DEF WithinBounds, d, cells
<1> QED
  BY <1>4, <1>5, <1>6

LEMMA BoundsWiden ==
  ASSUME NEW d, NEW S, NEW T, S \subseteq T, WithinBounds(d, S)
  PROVE  WithinBounds(d, T)
  BY DEF WithinBounds

(* Row by row, the readers end before the padding does.                    *)
LEMMA ReadersFit ==
  ASSUME NEW k \in Right!Group
  PROVE  GroupStart(k) .. GroupStart(k) + IMAGE_SIZE - 1 \subseteq 0 .. RamSize - 1
<1>1. k \in Nat /\ 1 <= k /\ k <= 3 * groupCount
  BY Sizes DEF Right!Group, branchCount
<1>2. (k - 1) % groupCount \in 0 .. groupCount - 1
  <2>1. k - 1 \in Nat /\ k - 1 < 3 * groupCount /\ groupCount \in Nat \ {0}
    BY <1>1, Sizes
  <2> QED
    BY <2>1, Quotient
<1>3. /\ Right!Row(k) \in Nat /\ groupCount - 1 \in Nat
      /\ Right!Row(k) <= groupCount - 1
  BY <1>2, Sizes DEF Right!Row
<1> DEFINE last == IMAGE_WIDTH * (groupCount - 1)
<1>4. GroupStart(k) \in Nat /\ GroupStart(k) <= last /\ last \in Nat
  BY <1>3, Sizes, Monotone DEF GroupStart
<1>5. last = (groupCount - 1) * IMAGE_WIDTH
  BY Sizes, Z3
<1>6. RamSize \in Nat /\ RamSize >= IMAGE_SIZE + last
  BY <1>5, ProcessorAssumption
<1> HIDE DEF last
<1> QED
  BY <1>4, <1>6, Sizes

LEMMA AccessesInsideOfLeft == Left!AccessesInside = LeftProofs!AccessesInside
<1>1. \A d, cells : Left!WithinBounds(d, cells) = LeftProofs!WithinBounds(d, cells)
  BY DEF Left!WithinBounds, LeftProofs!WithinBounds, Left!SUSPENDED,
     LeftProofs!SUSPENDED, Left!TRANSFER, LeftProofs!TRANSFER
<1> QED
  BY <1>1, SizesOfLeft DEF Left!AccessesInside, LeftProofs!AccessesInside

LEMMA InvInside == IInv => AccessesInside
<1> SUFFICES ASSUME IInv PROVE AccessesInside
  OBVIOUS
<1>1. Left!AccessesInside
  BY LeftProofs!InvInside, LeftAssumptions, AccessesInsideOfLeft DEF IInv
<1>2. ASSUME enable
      PROVE  /\ \A k \in Right!Group : WithinBounds(right[k], 0 .. RamSize - 1)
             /\ WithinBounds(loopback, OutputCell)
  <2>1. Running /\ edges \in 0 .. MaxEdges
    BY <1>2 DEF IInv, Fresh, Loading, TypeOK
  <2>2. ASSUME NEW k \in Right!Group
        PROVE  WithinBounds(right[k], 0 .. RamSize - 1)
    <3>1. WithinBounds(right[k],
                       GroupStart(k) .. GroupStart(k) + IMAGE_SIZE - 1)
      BY <2>1, WaitsFit, AfterInside DEF Running
    <3> QED
      BY <3>1, ReadersFit, BoundsWiden
  <2>3. WithinBounds(loopback, OutputCell)
    BY <2>1, WaitsFit, AfterInside DEF Running, OutputCell
  <2> QED
    BY <2>2, <2>3
<1> QED
  BY <1>1, <1>2 DEF AccessesInside

(***************************************************************************)
(* For every size of image and array, whatever was stopped half way: all   *)
(* descriptor DMAs execute descriptors of their programs, count none below *)
(* zero, read no cell past the padding of a slice and write none outside   *)
(* the slices and the result; every member, signal and cell keeps its      *)
(* type, and no more weights are sent than there are groups.               *)
(***************************************************************************)
THEOREM ProcessorStaysInside == Spec => [](TypeOK /\ AccessesInside)
<1>1. IInv => TypeOK
  BY DEF IInv
<1> QED
  BY <1>1, InvInside, Invariant, PTL

LEMMA ReadersFollow == IInv => ReadersFollowWriters
<1>1. ASSUME IInv, pc = "running", NEW k \in Right!Group,
             Right!Executing(right[k]).state = TRANSFER,
             right[k].current_ram_index < IMAGE_SIZE
      PROVE  Offset(Right!BranchOf(k)) + right[k].current_ram_index < Left!Copied
  <2> DEFINE w == GroupWait(k)
             b == GroupStart(k)
             i == right[k].current_ram_index
             n == Right!BranchOf(k)
  <2>1. /\ edges \in 0 .. MaxEdges
        /\ right[k] = After(w, b, edges)
    BY <1>1 DEF IInv, TypeOK, Fresh, Loading, Running
  <2>2. Now(right[k]).state = TRANSFER
    BY <1>1 DEF Right!Executing, Now
  <2>3. w <= edges /\ i = b + (edges - w)
    BY <2>1, <2>2, WaitsFit, TickedAfter
  <2>4. /\ w \in Nat /\ BIG_RAM_SIZE <= w /\ b \in Nat
        /\ w = BIG_RAM_SIZE => b = 0 /\ n = 1
        /\ n \in 1 .. 3
    BY GroupFacts
  <2>5. /\ IMAGE_SIZE \in Nat /\ IMAGE_SIZE > 0
        /\ BIG_RAM_SIZE = 3 * IMAGE_SIZE /\ BIG_RAM_SIZE \in Nat
        /\ edges \in Nat
    BY <2>1, Sizes
  <2>6. Offset(n) = IF n = 1 THEN 0
                    ELSE IF n = 2 THEN IMAGE_SIZE ELSE IMAGE_SIZE + IMAGE_SIZE
    <3>1. /\ (1 - 1) * IMAGE_SIZE = 0 /\ (2 - 1) * IMAGE_SIZE = IMAGE_SIZE
          /\ (3 - 1) * IMAGE_SIZE = IMAGE_SIZE + IMAGE_SIZE
      BY <2>5
    <3>2. n = 1 \/ n = 2 \/ n = 3
      BY <2>4
    <3>3. SMALL_RAM_SIZE = IMAGE_SIZE
      BY Sizes
    <3> QED
      BY <3>1, <3>2, <3>3 DEF Offset
  <2>7. Left!Copied = IF edges > BIG_RAM_SIZE THEN BIG_RAM_SIZE ELSE edges - 1
    <3>1. LeftProofs!Elapsed =
            IF edges < BIG_RAM_SIZE + 1 THEN edges ELSE BIG_RAM_SIZE + 1
      BY <1>1, SizesOfLeft DEF IInv, Together
    <3>2. Left!Copied = IF LeftProofs!Elapsed = 0 THEN 0 ELSE LeftProofs!Elapsed - 1
      BY CopiedOfLeft DEF LeftProofs!Copied
    <3>3. edges > 0
      BY <2>3, <2>4, <2>5
    <3> QED
      BY <2>5, <3>1, <3>2, <3>3
  <2>8. i < IMAGE_SIZE
    BY <1>1
  <2>9. Offset(n) + i < Left!Copied
    <3> HIDE DEF w, b, i, n
    <3>1. CASE edges > BIG_RAM_SIZE
      BY <2>3, <2>4, <2>5, <2>6, <2>7, <2>8, <3>1
    <3>2. CASE ~(edges > BIG_RAM_SIZE)
      <4>1. w = BIG_RAM_SIZE /\ edges = BIG_RAM_SIZE
        BY <2>3, <2>4, <2>5, <3>2
      <4>2. i = 0 /\ Offset(n) = 0
        BY <2>3, <2>4, <2>5, <2>6, <4>1
      <4> QED
        BY <2>5, <2>7, <4>1, <4>2
    <3> QED
      BY <3>1, <3>2
  <2> QED
    BY <2>9
<1> QED
  BY <1>1 DEF ReadersFollowWriters

(***************************************************************************)
(* For every size of image, kernel and array: whenever a group of the      *)
(* array is to read a cell of a slice RAM, the memory hierarchy wrote it   *)
(* at an earlier edge.  A group that starts as soon as the copy has sent   *)
(* its last pixel starts with the first pixel of the first slice.          *)
(***************************************************************************)
THEOREM ReadersFollowWritersAlways == Spec => []ReadersFollowWriters
  BY ReadersFollow, Invariant, PTL

(***************************************************************************)
(* For every size of image and array: trans_finished is not raised before  *)
(* the loopback has recorded the last cell of the result.                  *)
(***************************************************************************)
THEOREM FinishedMeansRecordedAlways == Spec => []FinishedMeansRecorded
<1>1. ASSUME IInv, trans_finished PROVE Recorded = IMAGE_SIZE
  <2>1. /\ loopback = After(LoopbackWait, RESULT, edges)
        /\ edges >= LoopbackWait + IMAGE_SIZE /\ edges \in Nat
    BY <1>1 DEF IInv, TypeOK, Fresh, Loading, Running
  <2>2. LoopbackWait \in Nat /\ RESULT \in Nat
    BY WaitsFit, Sizes
  <2>3. loopback.descriptor_count = 3 /\ loopback.execute_index = 2
    BY <2>1, <2>2, StoppedStep
  <2>4. LoopbackLoaded
    BY <2>3, ProgramsAre, ProgramFields DEF LoopbackLoaded
  <2> QED
    BY <2>3, <2>4 DEF Recorded
<1>2. IInv => FinishedMeansRecorded
  BY <1>1 DEF FinishedMeansRecorded
<1> QED
  BY <1>2, Invariant, PTL

-----------------------------------------------------------------------------
(* Composition.                                                            *)

LEMMA SlicesOfLeft == Left!SlicesFaithful = LeftProofs!SlicesFaithful
  BY CopiedOfLeft, SizesOfLeft
  DEF Left!SlicesFaithful, LeftProofs!SlicesFaithful

(***************************************************************************)
(* The memory hierarchy inside the processor behaves as the one alone, and *)
(* cuts every image into faithful slices: the array and the loopback       *)
(* neither disturb it nor start it early.                                  *)
(***************************************************************************)
THEOREM ProcessorContainsHierarchy ==
  Spec => /\ Left!Init /\ [][LeftProofs!Next]_(LeftProofs!vars)
          /\ []Left!SlicesFaithful
<1>1. Init => Left!Init
  BY DEF Init
<1>2. IInv /\ [Next]_vars => [LeftProofs!Next]_(LeftProofs!vars)
  <2> SUFFICES ASSUME IInv, [Next]_vars
               PROVE  [LeftProofs!Next]_(LeftProofs!vars)
    OBVIOUS
  <2>1. StartProcessor => LeftLoaded
    BY StartReady
  <2> QED
    BY <2>1, LeftSteps, Zenon DEF Next, LeftProofs!Next
<1>3. IInv => Left!SlicesFaithful
  BY LeftProofs!InvFaithful, LeftAssumptions, SlicesOfLeft DEF IInv
<1> QED
  BY <1>1, <1>2, <1>3, Invariant, PTL DEF Spec

(***************************************************************************)
(* The processor computes the filter, for every size of image and kernel:  *)
(* every pixel of the convolution that the loopback has recorded is in its *)
(* cell of the result.                                                     *)
(*                                                                         *)
(* The stages of the array are numbered along the chain of adders.  Each   *)
(* sees a pixel fed to its group and adds what it weighs; the sum that     *)
(* belongs to a pixel of the result moves one stage per edge.  What an     *)
(* earlier run has left in the signals between groups and branches is gone *)
(* before the first pixel comes.  The last sections show that the sum in   *)
(* the order of the chain is the convolution, a sum over a set.            *)
(***************************************************************************)

-----------------------------------------------------------------------------
(* The stages of all groups, numbered along the chain.                     *)

Number(k, i) == peArraySize * (k - 1) + i
GroupAt(s) == 1 + ((s - 1) \div peArraySize)
StageAt(s) == 1 + ((s - 1) % peArraySize)

LEMMA Division ==
  ASSUME NEW n \in Nat, NEW d \in Nat \ {0}
  PROVE  /\ n \div d \in Nat /\ n % d \in 0 .. d - 1
         /\ n = d * (n \div d) + (n % d)
<1>1. n % d \in 0 .. d - 1
  BY Z3
<1>2. n = d * (n \div d) + (n % d) /\ n \div d \in Int
  BY Z3
<1>3. n \div d >= 0
  BY Z3
<1> QED
  BY <1>1, <1>2, <1>3

(* Quotient and remainder are unique.                                      *)
LEMMA OneDivision ==
  ASSUME NEW d \in Nat \ {0}, NEW q \in Nat, NEW r \in 0 .. d - 1,
         NEW u \in Nat, NEW v \in 0 .. d - 1, d * q + r = d * u + v
  PROVE  q = u /\ r = v
<1>1. ASSUME NEW a \in Nat, NEW b \in Nat, NEW x \in 0 .. d - 1,
             NEW y \in 0 .. d - 1, a < b
      PROVE  d * a + x # d * b + y
  <2>1. /\ d * (a + 1) \in Nat /\ d * b \in Nat /\ d * (a + 1) <= d * b
        /\ d * a \in Nat
    BY <1>1, Monotone
  <2>2. d * (a + 1) = d * a + d
    BY Z3
  <2> DEFINE da == d * a
             db == d * b
             dc == d * (a + 1)
  <2>3. da \in Nat /\ db \in Nat /\ dc <= db /\ dc = da + d
    BY <2>1, <2>2
  <2> HIDE DEF da, db, dc
  <2>4. da + x # db + y
    BY <2>3
  <2> QED
    BY <2>4 DEF da, db
<1>2. q = u
  <2>1. ~(q < u) /\ ~(u < q)
    BY <1>1
  <2> QED
    BY <2>1
<1> DEFINE dq == d * q
<1>3. dq \in Nat
  BY Monotone
<1>4. dq + r = dq + v
  BY <1>2
<1> HIDE DEF dq
<1>5. r = v
  BY <1>3, <1>4
<1> QED
  BY <1>2, <1>5

LEMMA DivisionOf ==
  ASSUME NEW d \in Nat \ {0}, NEW q \in Nat, NEW r \in 0 .. d - 1
  PROVE  (d * q + r) \div d = q /\ (d * q + r) % d = r
<1> DEFINE n == d * q + r
<1>1. n \in Nat
  <2>1. d * q \in Nat
    BY Monotone
  <2> QED
    BY <2>1
<1> HIDE DEF n
<1>2. n \div d \in Nat /\ n % d \in 0 .. d - 1 /\ n = d * (n \div d) + (n % d)
  BY <1>1, Division
<1>3. d * (n \div d) + (n % d) = d * q + r
  BY <1>2 DEF n
<1>4. n \div d = q /\ n % d = r
  BY <1>2, <1>3, OneDivision
<1> QED
  BY <1>4 DEF n

LEMMA GroupRange ==
  /\ \A k \in Right!Group : k \in Nat /\ 1 <= k /\ k <= 3 * groupCount
  /\ \A k \in Nat : 1 <= k /\ k <= 3 * groupCount => k \in Right!Group
  /\ 3 * groupCount \in Nat /\ 3 * groupCount >= 1
<1> DEFINE last == 3 * groupCount
<1>1. last \in Nat /\ last >= 1
  BY Sizes
<1>2. Right!Group = 1 .. last
  BY DEF Right!Group, branchCount
<1> HIDE DEF last
<1>3. /\ \A k \in Right!Group : k \in Nat /\ 1 <= k /\ k <= last
      /\ \A k \in Nat : 1 <= k /\ k <= last => k \in Right!Group
  BY <1>1, <1>2
<1> QED
  BY <1>1, <1>3 DEF last

LEMMA StageRange ==
  /\ \A i \in Right!Stage : i \in Nat /\ 1 <= i /\ i <= peArraySize
  /\ \A i \in Nat : 1 <= i /\ i <= peArraySize => i \in Right!Stage
  BY Sizes DEF Right!Stage

LEMMA StagesProduct == Right!Stages = peArraySize * (3 * groupCount)
  BY Sizes, Z3

(* Every stage has one number, and every number is that of one stage.      *)
LEMMA Numbered ==
  ASSUME NEW k \in Right!Group, NEW i \in Right!Stage
  PROVE  /\ Number(k, i) \in 1 .. Right!Stages
         /\ GroupAt(Number(k, i)) = k /\ StageAt(Number(k, i)) = i
<1>1. /\ k - 1 \in Nat /\ k \in Nat /\ k <= 3 * groupCount
      /\ i \in Nat /\ 1 <= i /\ i <= peArraySize
  BY GroupRange, StageRange
<1> DEFINE a == peArraySize * (k - 1)
<1>2. a \in Nat /\ a + peArraySize <= Right!Stages
  <2>1. /\ peArraySize * k <= peArraySize * (3 * groupCount)
        /\ a \in Nat
    BY <1>1, Sizes, GroupRange, Monotone
  <2>2. peArraySize * k = a + peArraySize
    BY <1>1, Sizes, Z3
  <2> HIDE DEF a
  <2> QED
    BY <2>1, <2>2, StagesProduct
<1>3. Number(k, i) = a + i
  BY DEF Number
<1>4. (a + i) - 1 = a + (i - 1) /\ i - 1 \in 0 .. peArraySize - 1
  <2> HIDE DEF a
  <2> QED
    BY <1>1, <1>2, Sizes
<1>5. /\ (a + (i - 1)) \div peArraySize = k - 1
      /\ (a + (i - 1)) % peArraySize = i - 1
  BY <1>1, <1>4, Sizes, DivisionOf
<1> HIDE DEF a
<1>6. Number(k, i) \in 1 .. Right!Stages
  BY <1>1, <1>2, <1>3, Sizes
<1>7. GroupAt(Number(k, i)) = 1 + (k - 1)
  BY <1>3, <1>4, <1>5 DEF GroupAt
<1>8. StageAt(Number(k, i)) = 1 + (i - 1)
  BY <1>3, <1>4, <1>5 DEF StageAt
<1> QED
  BY <1>1, <1>6, <1>7, <1>8

LEMMA NumbersAll ==
  ASSUME NEW s \in 1 .. Right!Stages
  PROVE  /\ GroupAt(s) \in Right!Group /\ StageAt(s) \in Right!Stage
         /\ Number(GroupAt(s), StageAt(s)) = s
<1> DEFINE d == peArraySize
           q == (s - 1) \div d
           r == (s - 1) % d
<1>1. s - 1 \in Nat /\ s - 1 < Right!Stages /\ s \in Nat /\ d \in Nat \ {0}
  BY Sizes
<1>2. q \in Nat /\ r \in 0 .. d - 1 /\ s - 1 = d * q + r
  BY <1>1, Division
<1>3. GroupAt(s) = 1 + q /\ StageAt(s) = 1 + r
  BY DEF GroupAt, StageAt
<1>4. q < 3 * groupCount
  <2>1. SUFFICES ASSUME 3 * groupCount <= q PROVE FALSE
    BY <1>2, GroupRange
  <2>2. d * (3 * groupCount) <= d * q /\ d * q \in Nat
    BY <1>1, <1>2, <2>1, GroupRange, Monotone
  <2>3. Right!Stages <= d * q
    BY <2>2, StagesProduct
  <2> DEFINE dq == d * q
  <2>4. dq \in Nat /\ Right!Stages <= dq /\ s - 1 = dq + r
    BY <1>2, <2>2, <2>3
  <2> HIDE DEF d, q, r, dq
  <2> QED
    BY <1>1, <1>2, <2>4, Sizes
<1> HIDE DEF d, q, r
<1>5. GroupAt(s) \in Right!Group
  <2>1. 1 + q \in Nat /\ 1 <= 1 + q /\ 1 + q <= 3 * groupCount
    BY <1>2, <1>4, GroupRange
  <2> QED
    BY <1>3, <2>1, GroupRange
<1>6. StageAt(s) \in Right!Stage
  <2>1. 1 + r \in Nat /\ 1 <= 1 + r /\ 1 + r <= d
    BY <1>1, <1>2
  <2> QED
    BY <1>3, <2>1, StageRange DEF d
<1>7. Number(GroupAt(s), StageAt(s)) = d * q + (1 + r)
  <2>1. (1 + q) - 1 = q
    BY <1>2
  <2> QED
    BY <1>3, <2>1 DEF Number, d
<1>8. d * q + (1 + r) = s
  <2> DEFINE dq == d * q
  <2>1. dq \in Nat /\ s - 1 = dq + r
    BY <1>1, <1>2, Monotone
  <2> HIDE DEF dq
  <2>2. dq + (1 + r) = s
    BY <1>1, <1>2, <2>1
  <2> QED
    BY <2>2 DEF dq
<1> QED
  BY <1>5, <1>6, <1>7, <1>8

(* The stage before another is the one in its group, or the last of the    *)
(* group before.                                                           *)
LEMMA NumberBefore ==
  ASSUME NEW k \in Right!Group, NEW i \in Right!Stage
  PROVE  /\ i # 1 => /\ i - 1 \in Right!Stage
                     /\ Number(k, i - 1) = Number(k, i) - 1
         /\ i = 1 /\ k = 1 => Number(k, i) = 1
         /\ i = 1 /\ k # 1 =>
              /\ k - 1 \in Right!Group /\ peArraySize \in Right!Stage
              /\ Number(k - 1, peArraySize) = Number(k, i) - 1
<1>1. /\ k - 1 \in Nat /\ k \in Nat /\ k <= 3 * groupCount /\ 1 <= k
      /\ i \in Nat /\ 1 <= i /\ i <= peArraySize
  BY GroupRange, StageRange
<1>2. ASSUME i # 1
      PROVE  i - 1 \in Right!Stage /\ Number(k, i - 1) = Number(k, i) - 1
  <2>1. i - 1 \in Right!Stage
    <3>1. i - 1 \in Nat /\ 1 <= i - 1 /\ i - 1 <= peArraySize
      BY <1>1, <1>2, Sizes
    <3> QED
      BY <3>1, StageRange
  <2> DEFINE a == peArraySize * (k - 1)
  <2>2. a \in Nat
    BY <1>1, Sizes, Monotone
  <2> HIDE DEF a
  <2>3. a + (i - 1) = (a + i) - 1
    BY <1>1, <2>2
  <2> QED
    BY <2>1, <2>3 DEF Number, a
<1>3. ASSUME i = 1, k = 1
      PROVE  Number(k, i) = 1
  BY <1>3, Sizes DEF Number
<1>4. ASSUME i = 1, k # 1
      PROVE  /\ k - 1 \in Right!Group /\ peArraySize \in Right!Stage
             /\ Number(k - 1, peArraySize) = Number(k, i) - 1
  <2>1. k - 1 \in Right!Group
    BY <1>1, <1>4, GroupRange
  <2>2. peArraySize \in Right!Stage
    BY Sizes, StageRange
  <2>3. (k - 1) - 1 \in Nat /\ k - 1 = ((k - 1) - 1) + 1
    BY <1>1, <1>4
  <2>4. peArraySize * (k - 1) = peArraySize * ((k - 1) - 1) + peArraySize
    BY <2>3, Sizes, Z3
  <2> DEFINE a == peArraySize * (k - 1)
  <2>5. a \in Nat
    BY <1>1, Sizes, Monotone
  <2> HIDE DEF a
  <2>6. a = (a + 1) - 1
    BY <2>5
  <2> QED
    BY <1>4, <2>1, <2>2, <2>4, <2>6 DEF Number, a
<1> QED
  BY <1>2, <1>3, <1>4

-----------------------------------------------------------------------------
(* What the stages add up.                                                 *)

(* Pixel n of those group k is fed, from image m: zero before and after.   *)
Fed(m, k, n) ==
  IF n \in 0 .. IMAGE_SIZE - 1 /\ GroupStart(k) + n < IMAGE_SIZE
    THEN m[Offset(Right!BranchOf(k)) + (GroupStart(k) + n)]
    ELSE 0

(* What stage s adds to the sum that belongs to pixel q, and the sum up to *)
(* that stage.                                                             *)
Summand(m, q, s) ==
  kernel[GroupAt(s)][StageAt(s)] * Fed(m, GroupAt(s), q + (StageAt(s) - 1))

PartialSum(m, q) ==
  LET sum[s \in 0 .. Right!Stages] ==
        IF s = 0 THEN 0 ELSE sum[s - 1] + Summand(m, q, s)
  IN  sum

LEMMA OffsetIs ==
  ASSUME NEW b \in 1 .. 3
  PROVE  /\ Offset(b) = IF b = 1 THEN 0
                        ELSE IF b = 2 THEN IMAGE_SIZE
                        ELSE IMAGE_SIZE + IMAGE_SIZE
         /\ Offset(b) \in Nat /\ Offset(b) + IMAGE_SIZE <= BIG_RAM_SIZE
<1>1. /\ (1 - 1) * IMAGE_SIZE = 0 /\ (2 - 1) * IMAGE_SIZE = IMAGE_SIZE
      /\ (3 - 1) * IMAGE_SIZE = IMAGE_SIZE + IMAGE_SIZE
  BY Sizes
<1>2. b = 1 \/ b = 2 \/ b = 3
  OBVIOUS
<1>3. SMALL_RAM_SIZE = IMAGE_SIZE
  BY Sizes
<1>4. Offset(b) = IF b = 1 THEN 0
                  ELSE IF b = 2 THEN IMAGE_SIZE ELSE IMAGE_SIZE + IMAGE_SIZE
  BY <1>1, <1>2, <1>3 DEF Offset
<1> QED
  BY <1>2, <1>4, Sizes

LEMMA ImageType ==
  ASSUME NEW m \in Images
  PROVE  \A p \in 0 .. BIG_RAM_SIZE - 1 : m[p] \in Int
  BY ProcessorAssumption

LEMMA FedType ==
  ASSUME NEW m \in Images, NEW k \in Right!Group, NEW n \in Int
  PROVE  Fed(m, k, n) \in Int
<1> DEFINE i == GroupStart(k) + n
           o == Offset(Right!BranchOf(k))
<1>1. CASE n \in 0 .. IMAGE_SIZE - 1 /\ i < IMAGE_SIZE
  <2>1. GroupStart(k) \in Nat /\ n \in Nat /\ Right!BranchOf(k) \in 1 .. 3
    BY <1>1, GroupFacts, Sizes
  <2>2. i \in Nat
    BY <2>1
  <2>3. o \in Nat /\ o + IMAGE_SIZE <= BIG_RAM_SIZE
    BY <2>1, OffsetIs
  <2>4. i < IMAGE_SIZE
    BY <1>1
  <2>5. Fed(m, k, n) = m[o + i]
    BY <1>1 DEF Fed
  <2> HIDE DEF i, o
  <2>6. o + i \in 0 .. BIG_RAM_SIZE - 1
    BY <2>2, <2>3, <2>4, Sizes
  <2> QED
    BY <2>5, <2>6, ImageType
<1>2. CASE ~(n \in 0 .. IMAGE_SIZE - 1 /\ i < IMAGE_SIZE)
  BY <1>2 DEF Fed
<1> QED
  BY <1>1, <1>2

LEMMA SummandType ==
  ASSUME NEW m \in Images, NEW q \in Int, NEW s \in 1 .. Right!Stages
  PROVE  Summand(m, q, s) \in Int
<1>1. GroupAt(s) \in Right!Group /\ StageAt(s) \in Right!Stage
  BY NumbersAll
<1>2. kernel \in [Right!Group -> [Right!Stage -> Int]]
  BY ProcessorAssumption, Zenon DEF Right!ArrayConstants
<1>3. kernel[GroupAt(s)][StageAt(s)] \in Int
  BY <1>1, <1>2
<1>4. q + (StageAt(s) - 1) \in Int
  BY <1>1, StageRange
<1>5. Fed(m, GroupAt(s), q + (StageAt(s) - 1)) \in Int
  BY <1>1, <1>4, FedType
<1> QED
  BY <1>3, <1>5 DEF Summand

(* The recursion has a solution: extend one that holds up to some stage.   *)
Sums(m, q, p, n) ==
  /\ p = [s \in 0 .. Right!Stages |-> p[s]]
  /\ \A s \in 0 .. Right!Stages :
       s < n => p[s] = IF s = 0 THEN 0 ELSE p[s - 1] + Summand(m, q, s)

LEMMA SumsExist ==
  ASSUME NEW m, NEW q \in Int
  PROVE  \A n \in Nat : \E p : Sums(m, q, p, n)
<1> DEFINE T == {n \in Nat : ~ \E p : Sums(m, q, p, n)}
<1>1. SUFFICES ASSUME T # {} PROVE FALSE
  OBVIOUS
<1>2. PICK n \in T : \A l \in T : n <= l
  BY <1>1, Least
<1>3. n # 0
  <2> DEFINE p == [s \in 0 .. Right!Stages |-> 0]
  <2>1. p = [s \in 0 .. Right!Stages |-> p[s]]
    OBVIOUS
  <2>2. \A s \in 0 .. Right!Stages : ~(s < 0)
    BY Sizes
  <2>3. Sums(m, q, p, 0)
    BY <2>1, <2>2 DEF Sums
  <2> QED
    BY <2>3
<1>4. n - 1 \in Nat /\ ~(n <= n - 1)
  BY <1>3
<1>5. n - 1 \notin T
  BY <1>2, <1>4
<1>6. PICK p : Sums(m, q, p, n - 1)
  BY <1>4, <1>5
<1> DEFINE r == [s \in 0 .. Right!Stages |->
                   IF s = 0 THEN 0 ELSE p[s - 1] + Summand(m, q, s)]
<1>7. ASSUME NEW s \in 0 .. Right!Stages, s < n
      PROVE  r[s] = IF s = 0 THEN 0 ELSE r[s - 1] + Summand(m, q, s)
  <2>1. CASE s = 0
    BY <2>1
  <2>2. CASE s # 0
    <3>1. s - 1 \in 0 .. Right!Stages /\ s - 1 < n - 1
      BY <1>4, <1>7, <2>2, Sizes
    <3>2. p[s - 1] = r[s - 1]
      BY <1>6, <3>1 DEF Sums
    <3>3. r[s] = p[s - 1] + Summand(m, q, s)
      BY <2>2
    <3> QED
      BY <2>2, <3>2, <3>3
  <2> QED
    BY <2>1, <2>2
<1>8. r = [s \in 0 .. Right!Stages |-> r[s]]
  OBVIOUS
<1> HIDE DEF r
<1>9. Sums(m, q, r, n)
  BY <1>7, <1>8 DEF Sums
<1> QED
  BY <1>2, <1>9

LEMMA PartialSumIs ==
  ASSUME NEW m \in Images, NEW q \in Int
  PROVE  /\ PartialSum(m, q)[0] = 0
         /\ \A s \in 1 .. Right!Stages :
              PartialSum(m, q)[s] = PartialSum(m, q)[s - 1] + Summand(m, q, s)
         /\ \A s \in 0 .. Right!Stages : PartialSum(m, q)[s] \in Int
<1> DEFINE Eq(p) == p = [s \in 0 .. Right!Stages |->
                           IF s = 0 THEN 0 ELSE p[s - 1] + Summand(m, q, s)]
           sum == PartialSum(m, q)
<1>1. sum = CHOOSE p : Eq(p)
  BY DEF PartialSum
<1>2. \E p : Eq(p)
  <2>1. Right!Stages + 1 \in Nat
    BY Sizes
  <2>2. PICK p : Sums(m, q, p, Right!Stages + 1)
    BY <2>1, SumsExist
  <2>3. \A s \in 0 .. Right!Stages :
          p[s] = IF s = 0 THEN 0 ELSE p[s - 1] + Summand(m, q, s)
    <3>1. \A s \in 0 .. Right!Stages : s < Right!Stages + 1
      BY Sizes
    <3> QED
      BY <2>2, <3>1, Zenon DEF Sums
  <2>4. p = [s \in 0 .. Right!Stages |-> p[s]]
    BY <2>2 DEF Sums
  <2>5. Eq(p)
    BY <2>3, <2>4
  <2> QED
    BY <2>5
<1>3. Eq(sum)
  BY <1>1, <1>2
<1> HIDE DEF sum
<1>4. sum[0] = 0
  <2>1. 0 \in 0 .. Right!Stages
    BY Sizes
  <2> QED
    BY <1>3, <2>1
<1>5. ASSUME NEW s \in 1 .. Right!Stages
      PROVE  sum[s] = sum[s - 1] + Summand(m, q, s)
  <2>1. s \in 0 .. Right!Stages /\ s # 0
    BY Sizes
  <2> QED
    BY <1>3, <2>1
<1> DEFINE T == {s \in 0 .. Right!Stages : sum[s] \notin Int}
<1>6. T = {}
  <2> SUFFICES ASSUME T # {} PROVE FALSE
    OBVIOUS
  <2>1. T \subseteq Nat
    BY Sizes
  <2>2. PICK s \in T : \A t \in T : s <= t
    BY <2>1, Least
  <2>3. s # 0
    BY <1>4
  <2>4. s \in 1 .. Right!Stages /\ s - 1 \in 0 .. Right!Stages /\ ~(s <= s - 1)
    BY <2>3, Sizes
  <2>5. sum[s - 1] \in Int
    BY <2>2, <2>4
  <2>6. Summand(m, q, s) \in Int
    BY <2>4, SummandType
  <2> QED
    BY <1>5, <2>2, <2>4, <2>5, <2>6
<1>7. \A s \in 0 .. Right!Stages : sum[s] \in Int
  BY <1>6
<1> QED
  BY <1>4, <1>5, <1>7 DEF sum

-----------------------------------------------------------------------------
(* How the groups are joined.                                              *)

LEMMA GroupDivides ==
  ASSUME NEW k \in Right!Group
  PROVE  /\ Right!BranchOf(k) \in Right!Branch /\ Right!BranchOf(k) \in 1 .. 3
         /\ Right!Row(k) \in 0 .. groupCount - 1
         /\ k = groupCount * (Right!BranchOf(k) - 1) + (Right!Row(k) + 1)
<1> DEFINE q == (k - 1) \div groupCount
           r == (k - 1) % groupCount
<1>1. k - 1 \in Nat /\ groupCount \in Nat \ {0} /\ k - 1 < 3 * groupCount
  BY GroupRange, Sizes
<1>2. q \in 0 .. 2 /\ r \in 0 .. groupCount - 1 /\ q \in Nat
  <2>1. q \in 0 .. 2 /\ r \in 0 .. groupCount - 1
    BY <1>1, Quotient
  <2> HIDE DEF q, r
  <2> QED
    BY <2>1
<1>3. k - 1 = groupCount * q + r
  BY <1>1, Division
<1>4. Right!BranchOf(k) = 1 + q /\ Right!Row(k) = r
  BY DEF Right!BranchOf, Right!Row
<1> HIDE DEF q, r
<1>5. (1 + q) - 1 = q /\ 1 + q \in 1 .. 3
  BY <1>2
<1>6. k = groupCount * q + (r + 1)
  <2> DEFINE a == groupCount * q
  <2>1. a \in Nat
    BY <1>1, <1>2, Monotone
  <2>2. k - 1 = a + r
    BY <1>3
  <2> HIDE DEF a
  <2>3. k = a + (r + 1)
    BY <1>1, <1>2, <2>1, <2>2, GroupRange
  <2> QED
    BY <2>3 DEF a
<1> QED
  BY <1>2, <1>4, <1>5, <1>6 DEF Right!Branch, branchCount

LEMMA GroupOf ==
  ASSUME NEW b \in 1 .. 3, NEW r \in 0 .. groupCount - 1
  PROVE  LET k == groupCount * (b - 1) + (r + 1)
         IN  k \in Right!Group /\ Right!BranchOf(k) = b /\ Right!Row(k) = r
<1> DEFINE a == groupCount * (b - 1)
           k == a + (r + 1)
<1>1. b - 1 \in Nat /\ b - 1 <= 2 /\ groupCount \in Nat \ {0} /\ 2 \in Nat
  BY Sizes
<1>2. a \in Nat /\ a <= groupCount * 2
  BY <1>1, Monotone
<1>3. (a + r) \div groupCount = b - 1 /\ (a + r) % groupCount = r
  BY <1>1, DivisionOf
<1> HIDE DEF a
<1>4. k - 1 = a + r
  BY <1>1, <1>2
<1>5. k \in Nat /\ 1 <= k /\ k <= 3 * groupCount
  BY <1>1, <1>2
<1>6. k \in Right!Group
  BY <1>5, GroupRange
<1>7. Right!BranchOf(k) = 1 + (b - 1)
  BY <1>3, <1>4 DEF Right!BranchOf
<1>8. Right!Row(k) = r
  BY <1>3, <1>4 DEF Right!Row
<1> QED
  BY <1>6, <1>7, <1>8 DEF a

(* The group before one that is not the first of its branch.               *)
LEMMA RowBefore ==
  ASSUME NEW k \in Right!Group, Right!Row(k) # 0
  PROVE  /\ k - 1 \in Right!Group
         /\ Right!BranchOf(k - 1) = Right!BranchOf(k)
         /\ Right!Row(k - 1) = Right!Row(k) - 1
<1> DEFINE b == Right!BranchOf(k)
           r == Right!Row(k)
           a == groupCount * (b - 1)
           j == a + ((r - 1) + 1)
<1>1. b \in 1 .. 3 /\ r \in 0 .. groupCount - 1 /\ k = a + (r + 1)
  BY GroupDivides
<1>2. r - 1 \in 0 .. groupCount - 1
  BY <1>1, Sizes
<1>3. j \in Right!Group /\ Right!BranchOf(j) = b /\ Right!Row(j) = r - 1
  BY <1>1, <1>2, GroupOf
<1>4. a \in Nat
  <2>1. b - 1 \in Nat
    BY <1>1
  <2> QED
    BY <2>1, Sizes, Monotone
<1> HIDE DEF a, b, r
<1>5. j = k - 1
  BY <1>1, <1>4, Sizes
<1> HIDE DEF j
<1> QED
  BY <1>3, <1>5 DEF b, r

(* The first group of a branch follows the last group of the branch before.*)
LEMMA BranchBefore ==
  ASSUME NEW k \in Right!Group, Right!Row(k) = 0
  PROVE  /\ Right!BranchOf(k) = 1 <=> k = 1
         /\ k # 1 => /\ Right!BranchOf(k) - 1 \in Right!Branch
                     /\ Right!LastOf(Right!BranchOf(k) - 1) = k - 1
                     /\ k - 1 \in Right!Group
<1> DEFINE b == Right!BranchOf(k)
           a == groupCount * (b - 1)
<1>1. b \in 1 .. 3 /\ k = a + 1 /\ k \in Nat /\ k >= 1 /\ k <= 3 * groupCount
  BY GroupDivides, GroupRange
<1>2. b - 1 \in Nat
  BY <1>1
<1>3. a \in Nat /\ (b = 1 <=> a = 0)
  <2>1. a \in Nat
    BY <1>2, Sizes, Monotone
  <2>2. b - 1 = 0 => a = 0
    BY Sizes
  <2>3. b - 1 # 0 => a # 0
    <3> SUFFICES ASSUME b - 1 # 0 PROVE a # 0
      OBVIOUS
    <3> HIDE DEF b
    <3>1. 1 <= b - 1 /\ 1 \in Nat
      BY <1>1
    <3>2. groupCount * 1 <= groupCount * (b - 1)
      BY <1>2, <3>1, Sizes, Monotone
    <3>3. groupCount * 1 = groupCount
      BY Sizes
    <3>4. groupCount <= a
      BY <3>2, <3>3
    <3> HIDE DEF a
    <3> QED
      BY <2>1, <3>4, Sizes
  <2> QED
    BY <1>1, <2>1, <2>2, <2>3
<1>4. Right!LastOf(b - 1) = a
  BY <1>2, Sizes, Z3 DEF Right!LastOf
<1> HIDE DEF a, b
<1>5. a = k - 1 /\ (b = 1 <=> k = 1)
  BY <1>1, <1>3
<1>6. k # 1 => /\ b - 1 \in 1 .. 3
               /\ k - 1 \in Nat /\ 1 <= k - 1 /\ k - 1 <= 3 * groupCount
  BY <1>1, <1>5, GroupRange
<1>7. k # 1 => b - 1 \in Right!Branch /\ k - 1 \in Right!Group
  BY <1>6, GroupRange DEF Right!Branch, branchCount
<1> QED
  BY <1>4, <1>5, <1>7 DEF b

LEMMA LastGroup ==
  ASSUME NEW b \in Right!Branch
  PROVE  /\ Right!LastOf(b) \in Right!Group
         /\ Right!BranchOf(Right!LastOf(b)) = b
         /\ Right!Row(Right!LastOf(b)) = groupCount - 1
<1> DEFINE r == groupCount - 1
           k == groupCount * (b - 1) + (r + 1)
<1>1. b \in 1 .. 3 /\ r \in 0 .. groupCount - 1
  BY Sizes DEF Right!Branch, branchCount
<1>2. k \in Right!Group /\ Right!BranchOf(k) = b /\ Right!Row(k) = r
  BY <1>1, GroupOf
<1>3. Right!LastOf(b) = k
  <2>1. r + 1 = groupCount /\ b - 1 \in Nat /\ b \in Nat
    BY <1>1, Sizes
  <2>2. b * groupCount = groupCount * (b - 1) + groupCount
    BY <2>1, Sizes, Z3
  <2> QED
    BY <2>1, <2>2 DEF Right!LastOf
<1> HIDE DEF k
<1> QED
  BY <1>2, <1>3

(* The last group of all ends with the last stage.                         *)
LEMMA LastStage ==
  /\ Right!LastOf(branchCount) \in Right!Group /\ peArraySize \in Right!Stage
  /\ Number(Right!LastOf(branchCount), peArraySize) = Right!Stages
<1> DEFINE g == 3 * groupCount
<1>1. Right!LastOf(branchCount) = g
  BY DEF Right!LastOf, branchCount
<1>2. g \in Nat /\ g >= 1
  BY GroupRange
<1>3. Right!Stages = peArraySize * g
  BY StagesProduct
<1> HIDE DEF g
<1>4. peArraySize * (g - 1) + peArraySize = peArraySize * g
  BY <1>2, Sizes, Z3
<1>5. g \in Right!Group
  BY <1>2, GroupRange DEF g
<1> QED
  BY <1>1, <1>3, <1>4, <1>5, Sizes, StageRange DEF Number

-----------------------------------------------------------------------------
(* The invariant about the data.                                           *)

(* The edges a pass through one branch takes: it is over before the first  *)
(* pixel of the slices is read.                                            *)
Window == groupCount * peArraySize
Fits == Window <= BIG_RAM_SIZE

(* The weights are those of the driver, and all of them when it starts.    *)
WeightsSent ==
  /\ \A k \in Right!Group : k <= sent => weight[k] = kernel[k]
  /\ pc = "running" => enable /\ sent = branchCount * groupCount

(* Every group sees the pixel whose turn it is.                            *)
BusFed ==
  /\ pc = "loading" => \A k \in Right!Group : pixelInBus[k] = 0
  /\ pc = "running" =>
       \A k \in Right!Group :
         pixelInBus[k] = Fed(image, k, (edges - 1) - GroupWait(k))

StagesClear ==
  edges = 0 => \A k \in Right!Group, i \in Right!Stage : pe[k][i] = 0

NoneLost == edges = 0 \/ pc = "running" => lost = {}

(* A group that is not the first of its branch passes on what it gets, or  *)
(* still shifts through its stages what an earlier run left in its first   *)
(* signal.  The first group always has what its branch passes to it.       *)
StaleGroup(k) ==
  /\ edges < peArraySize
  /\ Right!Out(pe, k - 1) = 0
  /\ \A i \in Right!Stage : pe[k][i] = IF i <= edges THEN psumFirst[k] ELSE 0

GroupsJoined ==
  \A k \in Right!Group :
    IF Right!Row(k) = 0
      THEN psumFirst[k] = cloudFirst[Right!BranchOf(k)]
      ELSE psumFirst[k] = Right!Out(pe, k - 1) \/ StaleGroup(k)

(* The same of the branches.                                               *)
StaleBranch(b) ==
  /\ edges < Window
  /\ Right!CloudPsumIn(pe, b) = 0
  /\ Right!Out(pe, Right!LastOf(b)) = 0
  /\ \A k \in Right!Group, i \in Right!Stage :
       Right!BranchOf(k) = b /\ peArraySize * Right!Row(k) + i <= edges =>
         pe[k][i] = cloudFirst[b]

BranchesJoined ==
  \A b \in Right!Branch :
    cloudFirst[b] = Right!CloudPsumIn(pe, b) \/ StaleBranch(b)

(* From then on a stage holds the sum, up to it, of the pixel whose turn   *)
(* it is: the sums move along the chain with the edges.                    *)
SumsMove ==
  edges < MaxEdges =>
    \A k \in Right!Group, i \in Right!Stage :
      Number(k, i) + Window <= edges =>
        pe[k][i] =
          PartialSum(image, edges - (BIG_RAM_SIZE + 1 + Number(k, i)))
            [Number(k, i)]

(* What the loopback has written.                                          *)
CellsRecorded ==
  \A n \in 0 .. IMAGE_SIZE - 1 :
    LoopbackWait + n < edges =>
      output[RESULT + n] = PartialSum(image, n - 1)[Right!Stages]

ChainInv ==
  /\ StagesClear
  /\ Fits => GroupsJoined /\ BranchesJoined /\ SumsMove /\ CellsRecorded

DataInv == WeightsSent /\ BusFed /\ NoneLost /\ ChainInv

LEMMA WindowType == Window \in Nat /\ Window >= peArraySize /\ Window >= 1
<1>1. /\ peArraySize * 1 <= peArraySize * groupCount
      /\ peArraySize * groupCount \in Nat
  BY Sizes, Monotone
<1>2. Window = peArraySize * groupCount /\ peArraySize * 1 = peArraySize
  BY Sizes, Z3 DEF Window
<1> QED
  BY <1>1, <1>2, Sizes

LEMMA EdgesType ==
  ASSUME TypeOK
  PROVE  /\ edges \in Nat /\ edges <= MaxEdges /\ MaxEdges \in Nat
         /\ edges \in 0 .. MaxEdges
  BY Sizes DEF TypeOK

(* A group is shown the pixel that follows the one it was shown before.    *)
LEMMA BusStep ==
  ASSUME IInv, Running, pc = "running", enable, lost = {},
         NEW k \in Right!Group
  PROVE  Right!OnBus(k) = Fed(image, k, edges - GroupWait(k))
<1> DEFINE w == GroupWait(k)
           g == GroupStart(k)
           d == right[k]
           o == Offset(Right!BranchOf(k))
           n == edges - w
<1>1. TypeOK /\ edges \in Nat /\ edges \in 0 .. MaxEdges
  BY EdgesType DEF IInv
<1>2. w \in Waits /\ g \in Starts /\ w \in Nat /\ g \in Nat
  BY WaitsFit DEF Starts
<1>3. d = After(w, g, edges)
  BY DEF Running
<1>4. /\ Now(d).state = TRANSFER <=> w <= edges /\ edges < w + IMAGE_SIZE
      /\ Now(d).state = TRANSFER => d.current_ram_index = g + (edges - w)
  BY <1>1, <1>2, <1>3, TickedAfter
<1>5. Right!Executing(d) = Now(d) /\ Right!TRANSFER = TRANSFER
      /\ Right!SUSPENDED = SUSPENDED /\ SUSPENDED # TRANSFER
  BY EngineOfRight DEF Right!Executing, Now, SUSPENDED, TRANSFER
<1>6. Right!Active(d) /\ Right!Executing(d).state = Right!TRANSFER
        <=> Now(d).state = TRANSFER
  BY <1>5 DEF Right!Active
<1>7. n \in 0 .. IMAGE_SIZE - 1 <=> w <= edges /\ edges < w + IMAGE_SIZE
  BY <1>1, <1>2, Sizes
<1>8. CASE ~(n \in 0 .. IMAGE_SIZE - 1)
  <2>1. Right!OnBus(k) = 0
    BY <1>4, <1>6, <1>7, <1>8 DEF Right!OnBus
  <2>2. Fed(image, k, n) = 0
    BY <1>8 DEF Fed
  <2> QED
    BY <2>1, <2>2
<1>9. CASE n \in 0 .. IMAGE_SIZE - 1
  <2>1. Right!OnBus(k) = Right!Ram(Right!BranchOf(k), g + n)
    BY <1>4, <1>6, <1>7, <1>9 DEF Right!OnBus
  <2>2. g + n \in Nat
    BY <1>2, <1>9, Sizes
  <2>3. CASE g + n < IMAGE_SIZE
    <3> DEFINE b == Right!BranchOf(k)
               i == g + n
    <3>1. b \in 1 .. 3 /\ i \in 0 .. IMAGE_SIZE - 1
      BY <2>2, <2>3, GroupFacts, Sizes
    <3>2. slices[b][i] = ram[b][i]
      BY <3>1 DEF slices, branchCount
    <3>3. Right!Ram(b, i) = ram[b][i]
      BY <2>3, <3>2 DEF Right!Ram
    <3>4. Offset(b) + i < Left!Copied
      <4>1. ReadersFollowWriters
        BY ReadersFollow
      <4>2. d.current_ram_index = i /\ Now(d).state = TRANSFER
        BY <1>4, <1>7, <1>9
      <4> QED
        BY <1>5, <2>3, <4>1, <4>2 DEF ReadersFollowWriters
    <3>5. Left!Offset(b) = Offset(b)
      BY <3>1, SizesOfLeft
      DEF Left!Offset, Offset, Left!SMALL_RAM_SIZE, SMALL_RAM_SIZE
    <3>6. Left!SlicesFaithful
      BY LeftProofs!InvFaithful, LeftAssumptions, SlicesOfLeft DEF IInv
    <3>7. Left!SMALL_RAM_SIZE = IMAGE_SIZE /\ Left!Slice = 1 .. 3
      BY DEF Left!SMALL_RAM_SIZE, Left!Slice
    <3>8. ram[b][i] = image[Offset(b) + i]
      BY <3>1, <3>4, <3>5, <3>6, <3>7 DEF Left!SlicesFaithful
    <3> QED
      BY <1>9, <2>1, <2>3, <3>3, <3>8 DEF Fed
  <2>4. CASE ~(g + n < IMAGE_SIZE)
    BY <1>9, <2>1, <2>4 DEF Fed, Right!Ram
  <2> QED
    BY <2>3, <2>4
<1> QED
  BY <1>8, <1>9

(* What a stage adds its product to.                                       *)
Before(k, i) == IF i = 1 THEN psumFirst[k] ELSE pe[k][i - 1]

LEMMA Accumulates ==
  ASSUME TypeOK, Right!Compute, NEW k \in Right!Group, NEW i \in Right!Stage
  PROVE  /\ pe'[k][i] = pixelInBus[k] * weight[k][i] + Before(k, i)
         /\ Before(k, i) \in Int /\ weight[k][i] \in Int
         /\ pixelInBus[k] \in Int
<1>1. pe'[k][i] = pixelInBus[k] * weight[k][i] + Before(k, i)
  BY DEF Right!Compute, Right!Accumulated, Before
<1>2. Before(k, i) \in Int
  <2>1. CASE i = 1
    BY <2>1 DEF TypeOK, Before
  <2>2. CASE i # 1
    <3>1. i - 1 \in Right!Stage
      BY <2>2, NumberBefore
    <3> QED
      BY <2>2, <3>1 DEF TypeOK, Before
  <2> QED
    BY <2>1, <2>2
<1>3. weight[k][i] \in Int
  BY DEF TypeOK
<1>4. pixelInBus[k] \in Int
  <2>1. pixelInBus[k] \in Pixel
    BY DEF TypeOK
  <2> QED
    BY <2>1, ProcessorAssumption
<1> QED
  BY <1>1, <1>2, <1>3, <1>4

(* Before the first pixel the stages only hand on what they get.           *)
LEMMA HandsOn ==
  ASSUME TypeOK, BusFed, Fits, pc = "running", edges < Window, Right!Compute,
         NEW k \in Right!Group, NEW i \in Right!Stage
  PROVE  pe'[k][i] = Before(k, i)
<1>1. pixelInBus[k] = 0
  <2>1. pixelInBus[k] = Fed(image, k, (edges - 1) - GroupWait(k))
    BY DEF BusFed
  <2>2. (edges - 1) - GroupWait(k) < 0
    <3>1. GroupWait(k) \in Nat /\ BIG_RAM_SIZE <= GroupWait(k)
      BY GroupFacts
    <3> QED
      BY <3>1, EdgesType, WindowType, Sizes DEF Fits
  <2>3. ~((edges - 1) - GroupWait(k) \in 0 .. IMAGE_SIZE - 1)
    BY <2>2, Sizes
  <2> QED
    BY <2>1, <2>3 DEF Fed
<1>2. 0 * weight[k][i] = 0
  BY Accumulates
<1> QED
  BY <1>1, <1>2, Accumulates

LEMMA EdgesMove ==
  ASSUME TypeOK, Right!Compute, edges < Window, Fits
  PROVE  edges' = edges + 1
<1>1. Window < MaxEdges
  BY Sizes, WindowType DEF Fits
<1> QED
  BY <1>1, EdgesType, WindowType, ComputeType DEF NextEdge

(* A first signal is refreshed when what it comes from changes, and when   *)
(* the output of its own chain does.                                       *)
LEMMA GroupRefreshed ==
  ASSUME Right!Compute, NEW k \in Right!Group
  PROVE  \/ psumFirst'[k] = Right!PsumIn(pe', cloudFirst', k)
         \/ /\ psumFirst'[k] = psumFirst[k]
            /\ Right!Out(pe', k) = Right!Out(pe, k)
            /\ Right!PsumIn(pe', cloudFirst', k) =
                 Right!PsumIn(pe, cloudFirst, k)
  BY DEF Right!Compute, Right!GroupUpdated

LEMMA BranchRefreshed ==
  ASSUME Right!Compute, NEW b \in Right!Branch
  PROVE  \/ cloudFirst'[b] = Right!CloudPsumIn(pe', b)
         \/ /\ cloudFirst'[b] = cloudFirst[b]
            /\ Right!Out(pe', Right!LastOf(b)) = Right!Out(pe, Right!LastOf(b))
            /\ Right!CloudPsumIn(pe', b) = Right!CloudPsumIn(pe, b)
  BY DEF Right!Compute, Right!CloudUpdated

LEMMA GroupsStep ==
  ASSUME TypeOK, DataInv, Fits, pc = "running", Right!Compute
  PROVE  GroupsJoined'
<1>1. SUFFICES ASSUME NEW k \in Right!Group
      PROVE  IF Right!Row(k) = 0
               THEN psumFirst'[k] = cloudFirst'[Right!BranchOf(k)]
               ELSE psumFirst'[k] = Right!Out(pe', k - 1) \/ StaleGroup(k)'
  BY DEF GroupsJoined, Right!Group, Right!Row, Right!BranchOf
<1>2. CASE Right!Row(k) = 0
  <2>1. psumFirst[k] = cloudFirst[Right!BranchOf(k)]
    BY <1>2 DEF DataInv, ChainInv, GroupsJoined
  <2>2. /\ Right!PsumIn(pe', cloudFirst', k) = cloudFirst'[Right!BranchOf(k)]
        /\ Right!PsumIn(pe, cloudFirst, k) = cloudFirst[Right!BranchOf(k)]
    BY <1>2 DEF Right!PsumIn
  <2> QED
    BY <1>2, <2>1, <2>2, GroupRefreshed
<1>3. CASE Right!Row(k) # 0
  <2>1. /\ Right!PsumIn(pe', cloudFirst', k) = Right!Out(pe', k - 1)
        /\ Right!PsumIn(pe, cloudFirst, k) = Right!Out(pe, k - 1)
    BY <1>3 DEF Right!PsumIn
  <2>2. psumFirst[k] = Right!Out(pe, k - 1) \/ StaleGroup(k)
    BY <1>3 DEF DataInv, ChainInv, GroupsJoined
  <2>3. SUFFICES ASSUME psumFirst'[k] # Right!Out(pe', k - 1)
        PROVE  StaleGroup(k)'
    BY <1>3
  <2>4. /\ psumFirst'[k] = psumFirst[k]
        /\ Right!Out(pe', k) = Right!Out(pe, k)
        /\ Right!Out(pe', k - 1) = Right!Out(pe, k - 1)
    BY <2>1, <2>3, GroupRefreshed
  <2>5. StaleGroup(k)
    BY <2>2, <2>3, <2>4
  <2>6. edges < peArraySize /\ edges < Window /\ edges' = edges + 1
    <3>1. edges < peArraySize /\ edges < Window
      BY <2>5, EdgesType, WindowType, Sizes DEF StaleGroup
    <3> QED
      BY <3>1, EdgesMove
  <2>7. ASSUME NEW i \in Right!Stage
        PROVE  pe'[k][i] = IF i <= edges + 1 THEN psumFirst[k] ELSE 0
    <3>1. pe'[k][i] = Before(k, i)
      BY <2>6, HandsOn DEF DataInv
    <3>2. CASE i = 1
      BY <3>1, <3>2, EdgesType DEF Before
    <3>3. CASE i # 1
      <4>1. i - 1 \in Right!Stage /\ i \in Nat
        BY <3>3, NumberBefore, StageRange
      <4>2. pe'[k][i] = IF i - 1 <= edges THEN psumFirst[k] ELSE 0
        BY <2>5, <3>1, <3>3, <4>1 DEF Before, StaleGroup
      <4>3. i - 1 <= edges <=> i <= edges + 1
        BY <4>1, EdgesType
      <4> QED
        BY <4>2, <4>3
    <3> QED
      BY <3>2, <3>3
  <2>8. edges + 1 < peArraySize
    <3> SUFFICES ASSUME ~(edges + 1 < peArraySize) PROVE FALSE
      OBVIOUS
    <3>1. edges + 1 = peArraySize /\ peArraySize <= edges + 1
          /\ ~(peArraySize <= edges) /\ peArraySize \in Right!Stage
      BY <2>6, EdgesType, Sizes, StageRange
    <3>2. pe'[k][peArraySize] = psumFirst[k] /\ pe[k][peArraySize] = 0
      BY <2>5, <2>7, <3>1 DEF StaleGroup
    <3>3. psumFirst[k] = 0
      BY <2>4, <3>2 DEF Right!Out
    <3> QED
      BY <2>3, <2>4, <2>5, <3>3 DEF StaleGroup
  <2> QED
    BY <2>4, <2>5, <2>6, <2>7, <2>8 DEF StaleGroup, Right!Out, Right!Stage
<1> QED
  BY <1>2, <1>3

LEMMA BranchesStep ==
  ASSUME TypeOK, DataInv, Fits, pc = "running", Right!Compute
  PROVE  BranchesJoined'
<1>1. SUFFICES ASSUME NEW b \in Right!Branch,
                      cloudFirst'[b] # Right!CloudPsumIn(pe', b)
      PROVE  StaleBranch(b)'
  BY DEF BranchesJoined, Right!Branch, Right!CloudPsumIn, Right!Out,
     Right!LastOf
<1> DEFINE last == Right!LastOf(b)
           v == cloudFirst[b]
<1>2. /\ cloudFirst'[b] = v
      /\ Right!Out(pe', last) = Right!Out(pe, last)
      /\ Right!CloudPsumIn(pe', b) = Right!CloudPsumIn(pe, b)
  BY <1>1, BranchRefreshed
<1>3. StaleBranch(b)
  <2>1. v # Right!CloudPsumIn(pe, b)
    BY <1>1, <1>2
  <2> QED
    BY <2>1 DEF DataInv, ChainInv, BranchesJoined
<1>4. edges < Window /\ edges' = edges + 1
  BY <1>3, EdgesMove DEF StaleBranch
<1>5. ASSUME NEW k \in Right!Group, NEW i \in Right!Stage,
             Right!BranchOf(k) = b,
             peArraySize * Right!Row(k) + i <= edges + 1
      PROVE  pe'[k][i] = v
  <2> DEFINE a == peArraySize * Right!Row(k)
  <2>1. a \in Nat /\ Right!Row(k) \in Nat
    <3>1. Right!Row(k) \in Nat
      BY GroupDivides, Sizes
    <3> QED
      BY <3>1, Sizes, Monotone
  <2>2. pe'[k][i] = Before(k, i)
    BY <1>4, HandsOn DEF DataInv
  <2>3. a + i <= edges + 1 /\ i \in Nat /\ edges \in Nat
    BY <1>5, EdgesType, StageRange
  <2>4. CASE i # 1
    <3>1. i - 1 \in Right!Stage
      BY <2>4, NumberBefore
    <3>2. a + (i - 1) <= edges
      <4> HIDE DEF a
      <4> QED
        BY <2>1, <2>3
    <3>3. pe[k][i - 1] = v
      BY <1>3, <1>5, <3>1, <3>2 DEF StaleBranch
    <3> QED
      BY <2>2, <2>4, <3>3 DEF Before
  <2>5. CASE i = 1 /\ Right!Row(k) = 0
    <3>1. psumFirst[k] = v
      BY <1>5, <2>5 DEF DataInv, ChainInv, GroupsJoined
    <3> QED
      BY <2>2, <2>5, <3>1 DEF Before
  <2>6. CASE i = 1 /\ Right!Row(k) # 0
    <3>1. /\ k - 1 \in Right!Group /\ Right!BranchOf(k - 1) = b
          /\ Right!Row(k - 1) = Right!Row(k) - 1
      BY <1>5, <2>6, RowBefore
    <3>2. a = peArraySize * (Right!Row(k) - 1) + peArraySize
      BY <2>1, <2>6, Sizes, Z3
    <3>3. a >= peArraySize
      <4>1. Right!Row(k) >= 1 /\ 1 \in Nat
        BY <2>1, <2>6
      <4>2. peArraySize * 1 <= a /\ peArraySize * 1 = peArraySize
        BY <2>1, <4>1, Sizes, Monotone
      <4> HIDE DEF a
      <4> QED
        BY <2>1, <4>2, Sizes
    <3>4. a <= edges /\ ~(edges < peArraySize)
      <4> HIDE DEF a
      <4> QED
        BY <2>1, <2>3, <2>6, <3>3, Sizes
    <3>5. ~StaleGroup(k)
      BY <3>4 DEF StaleGroup
    <3>6. psumFirst[k] = pe[k - 1][peArraySize]
      BY <2>6, <3>5 DEF DataInv, ChainInv, GroupsJoined, Right!Out
    <3>7. peArraySize * Right!Row(k - 1) + peArraySize <= edges
      BY <3>1, <3>2, <3>4
    <3>8. peArraySize \in Right!Stage
      BY Sizes, StageRange
    <3>9. pe[k - 1][peArraySize] = v
      BY <1>3, <3>1, <3>7, <3>8 DEF StaleBranch
    <3> QED
      BY <2>2, <2>6, <3>6, <3>9 DEF Before
  <2> QED
    BY <2>4, <2>5, <2>6
<1>6. edges + 1 < Window
  <2> SUFFICES ASSUME ~(edges + 1 < Window) PROVE FALSE
    OBVIOUS
  <2>1. edges + 1 = Window
    BY <1>4, EdgesType, WindowType
  <2>2. /\ last \in Right!Group /\ Right!BranchOf(last) = b
        /\ Right!Row(last) = groupCount - 1
    BY LastGroup
  <2>3. peArraySize * (groupCount - 1) + peArraySize = Window
    BY Sizes, Z3 DEF Window
  <2>4. peArraySize \in Right!Stage
    BY Sizes, StageRange
  <2>5. Window <= edges + 1
    BY <2>1, WindowType
  <2>6. pe'[last][peArraySize] = v
    BY <1>5, <2>2, <2>3, <2>4, <2>5
  <2>7. v = 0
    BY <1>2, <1>3, <2>6 DEF StaleBranch, Right!Out
  <2> QED
    BY <1>1, <1>2, <1>3, <2>7 DEF StaleBranch
<1>7. /\ Right!CloudPsumIn(pe', b) = 0
      /\ Right!Out(pe', last) = 0
  BY <1>2, <1>3 DEF StaleBranch
<1> HIDE DEF v
<1>8. /\ edges' < Window
      /\ \A k \in Right!Group, i \in Right!Stage :
           Right!BranchOf(k) = b /\ peArraySize * Right!Row(k) + i <= edges' =>
             pe'[k][i] = cloudFirst'[b]
  BY <1>2, <1>4, <1>5, <1>6 DEF v
<1> QED
  BY <1>7, <1>8
  DEF StaleBranch, Window, Right!CloudPsumIn, Right!Out, Right!LastOf,
      Right!Group, Right!Stage, Right!BranchOf, Right!Row

(* After one pass through a branch every stage adds to what the stage      *)
(* before it holds.                                                        *)
LEMMA Joined ==
  ASSUME DataInv, Fits, TypeOK, Window <= edges,
         NEW k \in Right!Group, NEW i \in Right!Stage
  PROVE  /\ i # 1 => Before(k, i) = pe[k][i - 1]
         /\ i = 1 /\ k # 1 => Before(k, i) = pe[k - 1][peArraySize]
         /\ i = 1 /\ k = 1 => Before(k, i) = 0
<1> DEFINE b == Right!BranchOf(k)
<1>1. \A j \in Right!Group : ~StaleGroup(j)
  BY EdgesType, WindowType, Sizes DEF StaleGroup
<1>2. \A c \in Right!Branch : ~StaleBranch(c)
  BY EdgesType, WindowType DEF StaleBranch
<1>3. b \in Right!Branch
  BY GroupDivides
<1>4. CASE Right!Row(k) # 0
  <2>1. psumFirst[k] = pe[k - 1][peArraySize]
    BY <1>1, <1>4 DEF DataInv, ChainInv, GroupsJoined, Right!Out
  <2>2. k # 1
    <3>1. k - 1 \in Right!Group
      BY <1>4, RowBefore
    <3> QED
      BY <3>1, GroupRange
  <2> QED
    BY <2>1, <2>2 DEF Before
<1>5. CASE Right!Row(k) = 0
  <2>1. psumFirst[k] = cloudFirst[b] /\ cloudFirst[b] = Right!CloudPsumIn(pe, b)
    BY <1>2, <1>3, <1>5 DEF DataInv, ChainInv, GroupsJoined, BranchesJoined
  <2>2. CASE k = 1
    BY <1>5, <2>1, <2>2, BranchBefore DEF Before, Right!CloudPsumIn
  <2>3. CASE k # 1
    BY <1>5, <2>1, <2>3, BranchBefore
    DEF Before, Right!CloudPsumIn, Right!Out
  <2> QED
    BY <2>2, <2>3
<1> QED
  BY <1>4, <1>5

LEMMA SumsStep ==
  ASSUME TypeOK, DataInv, Fits, pc = "running", Right!Compute, image' = image
  PROVE  SumsMove'
<1>1. /\ edges \in Nat /\ MaxEdges \in Nat /\ edges <= MaxEdges
      /\ edges' = NextEdge(edges)
  BY EdgesType, ComputeType
<1>2. SUFFICES ASSUME edges' < MaxEdges,
                      NEW k \in Right!Group, NEW i \in Right!Stage,
                      Number(k, i) + Window <= edges'
      PROVE  pe'[k][i] =
               PartialSum(image, edges' - (BIG_RAM_SIZE + 1 + Number(k, i)))
                 [Number(k, i)]
  BY DEF SumsMove, Right!Group, Right!Stage, Number, Window, BIG_RAM_SIZE
<1> DEFINE s == Number(k, i)
           q == (edges + 1) - (BIG_RAM_SIZE + 1 + s)
           w == GroupWait(k)
           a == peArraySize * (k - 1)
<1>3. /\ edges' = edges + 1 /\ edges < MaxEdges
  BY <1>1, <1>2 DEF NextEdge
<1>4. /\ s \in 1 .. Right!Stages /\ GroupAt(s) = k /\ StageAt(s) = i
  BY Numbered
<1>5. s \in Nat /\ 1 <= s /\ s <= Right!Stages /\ s + Window <= edges + 1
  BY <1>2, <1>3, <1>4, Sizes
<1>6. Window <= edges
  <2> HIDE DEF s
  <2> QED
    BY <1>1, <1>5, WindowType
<1>7. image \in Images /\ q \in Int
  <2>1. image \in Images
    BY DEF TypeOK, Left!TypeOK
  <2> HIDE DEF s
  <2> QED
    BY <1>1, <1>5, <2>1, Sizes
<1>8. Before(k, i) = PartialSum(image, q)[s - 1]
  <2>1. ASSUME NEW j \in Right!Group, NEW h \in Right!Stage,
               Number(j, h) = s - 1
        PROVE  pe[j][h] = PartialSum(image, q)[s - 1]
    <3>1. Number(j, h) + Window <= edges
      <4> HIDE DEF s
      <4> QED
        BY <1>1, <1>5, <2>1, WindowType
    <3>2. pe[j][h] =
            PartialSum(image, edges - (BIG_RAM_SIZE + 1 + (s - 1)))[s - 1]
      BY <1>3, <2>1, <3>1 DEF DataInv, ChainInv, SumsMove
    <3>3. edges - (BIG_RAM_SIZE + 1 + (s - 1)) = q
      <4> HIDE DEF s
      <4> QED
        BY <1>1, <1>5, Sizes
    <3> QED
      BY <3>2, <3>3
  <2>2. CASE i # 1
    <3>1. i - 1 \in Right!Stage /\ Number(k, i - 1) = s - 1
      BY <2>2, NumberBefore
    <3> QED
      BY <1>6, <2>1, <2>2, <3>1, Joined
  <2>3. CASE i = 1 /\ k # 1
    <3>1. /\ k - 1 \in Right!Group /\ peArraySize \in Right!Stage
          /\ Number(k - 1, peArraySize) = s - 1
      BY <2>3, NumberBefore
    <3> QED
      BY <1>6, <2>1, <2>3, <3>1, Joined
  <2>4. CASE i = 1 /\ k = 1
    <3>1. s - 1 = 0
      BY <2>4, NumberBefore
    <3> QED
      BY <1>6, <1>7, <2>4, <3>1, Joined, PartialSumIs
  <2> QED
    BY <2>2, <2>3, <2>4
<1>9. pixelInBus[k] * weight[k][i] = Summand(image, q, s)
  <2>1. weight[k] = kernel[k]
    <3>1. k <= sent
      BY GroupRange DEF DataInv, WeightsSent, branchCount
    <3> QED
      BY <3>1 DEF DataInv, WeightsSent
  <2>2. pixelInBus[k] = Fed(image, k, (edges - 1) - w)
    BY DEF DataInv, BusFed
  <2>3. (edges - 1) - w = q + (i - 1)
    <3>1. s = a + i /\ w = BIG_RAM_SIZE + a
      BY DEF Number, GroupWait
    <3>2. a \in Nat /\ i \in Nat
      <4>1. k - 1 \in Nat /\ i \in Nat
        BY GroupRange, StageRange
      <4> QED
        BY <4>1, Sizes, Monotone
    <3> HIDE DEF s, w, a
    <3> QED
      BY <1>1, <3>1, <3>2, Sizes
  <2>4. Summand(image, q, s) = kernel[k][i] * Fed(image, k, q + (i - 1))
    BY <1>4 DEF Summand
  <2> DEFINE x == Fed(image, k, q + (i - 1))
             y == kernel[k][i]
  <2>5. pixelInBus[k] = x /\ weight[k][i] = y
    BY <2>1, <2>2, <2>3
  <2>6. x \in Int /\ y \in Int
    BY <2>5, Accumulates
  <2> HIDE DEF x, y
  <2>7. x * y = y * x
    BY <2>6, Z3
  <2> QED
    BY <2>4, <2>5, <2>7 DEF x, y
<1>10. pe'[k][i] = PartialSum(image, q)[s]
  <2>1. PartialSum(image, q)[s] =
          PartialSum(image, q)[s - 1] + Summand(image, q, s)
    BY <1>4, <1>7, PartialSumIs
  <2>2. pe'[k][i] = Summand(image, q, s) + Before(k, i)
    BY <1>9, Accumulates
  <2>3. Summand(image, q, s) \in Int /\ Before(k, i) \in Int
    BY <1>4, <1>7, SummandType, Accumulates
  <2> QED
    BY <1>8, <2>1, <2>2, <2>3
<1> QED
  BY <1>3, <1>10

(* The loopback writes the sums that leave the last stage.                 *)
LEMMA RecordStep ==
  ASSUME IInv, Running, DataInv, Fits, enable, pc = "running", UpdateRun,
         image' = image
  PROVE  CellsRecorded'
<1> DEFINE d == loopback
           m == edges - LoopbackWait
<1>1. /\ TypeOK /\ edges \in Nat /\ edges \in 0 .. MaxEdges /\ MaxEdges \in Nat
      /\ LoopbackWait \in Nat /\ LoopbackWait + IMAGE_SIZE < MaxEdges
      /\ IMAGE_SIZE \in Nat /\ RESULT \in Nat
  BY EdgesType, WaitsFit, Sizes DEF IInv
<1>2. edges' = NextEdge(edges)
  <2>1. Right!Compute
    BY DEF UpdateRun, Right!UpdateRun
  <2> QED
    BY <1>1, <2>1, ComputeType
<1>3. /\ Now(d).state = TRANSFER <=>
           LoopbackWait <= edges /\ edges < LoopbackWait + IMAGE_SIZE
      /\ Now(d).state = TRANSFER =>
           d.current_ram_index = RESULT + (edges - LoopbackWait)
  BY <1>1, WaitsFit, TickedAfter DEF Running
<1>4. Recording <=> LoopbackWait <= edges /\ edges < LoopbackWait + IMAGE_SIZE
  <2>1. Executing = Now(d) /\ SUSPENDED # TRANSFER
    BY DEF Executing, Now, SUSPENDED, TRANSFER
  <2> QED
    BY <1>3, <2>1 DEF Recording, Active
<1>5. output' = IF Recording
                  THEN [output EXCEPT ![RESULT + m] = Right!streamOut]
                  ELSE output
  BY <1>3, <1>4 DEF UpdateRun, LoopbackRun
<1>6. output \in [OutputCell -> Int]
  BY <1>1 DEF TypeOK
<1>7. ASSUME NEW n \in 0 .. IMAGE_SIZE - 1, LoopbackWait + n < edges'
      PROVE  output'[RESULT + n] = PartialSum(image, n - 1)[Right!Stages]
  <2>1. n \in Nat /\ n < IMAGE_SIZE /\ RESULT + n \in OutputCell
    BY <1>1 DEF OutputCell
  <2>2. CASE LoopbackWait + n < edges
    <3>1. output[RESULT + n] = PartialSum(image, n - 1)[Right!Stages]
      BY <2>2 DEF DataInv, ChainInv, CellsRecorded
    <3>2. RESULT + m # RESULT + n
      BY <1>1, <2>1, <2>2
    <3>3. output'[RESULT + n] = output[RESULT + n]
      <4> HIDE DEF m
      <4> QED
        BY <1>5, <1>6, <2>1, <3>2
    <3> QED
      BY <3>1, <3>3
  <2>3. CASE ~(LoopbackWait + n < edges)
    <3>1. edges = LoopbackWait + n /\ m = n /\ edges < MaxEdges
      BY <1>1, <1>2, <1>7, <2>1, <2>3 DEF NextEdge
    <3>2. Recording
      BY <1>1, <1>4, <2>1, <3>1
    <3>3. output'[RESULT + n] = Right!streamOut
      <4> HIDE DEF m
      <4> QED
        BY <1>5, <1>6, <2>1, <3>1, <3>2
    <3> DEFINE g == Right!LastOf(branchCount)
    <3>4. Right!streamOut = pe[g][peArraySize]
      BY DEF Right!streamOut, Right!Out
    <3>5. /\ g \in Right!Group /\ peArraySize \in Right!Stage
          /\ Number(g, peArraySize) = Right!Stages
      BY LastStage
    <3>6. Right!Stages + Window <= edges
      BY <1>1, <2>1, <3>1, Sizes, WindowType DEF LoopbackWait, Fits
    <3> HIDE DEF g
    <3>7. pe[g][peArraySize] =
            PartialSum(image, edges - (BIG_RAM_SIZE + 1 + Right!Stages))
              [Right!Stages]
      BY <3>1, <3>5, <3>6 DEF DataInv, ChainInv, SumsMove
    <3>8. edges - (BIG_RAM_SIZE + 1 + Right!Stages) = n - 1
      BY <1>1, <2>1, <3>1, Sizes DEF LoopbackWait
    <3> QED
      BY <3>3, <3>4, <3>7, <3>8
  <2> QED
    BY <2>2, <2>3
<1> QED
  BY <1>7
  DEF CellsRecorded, LoopbackWait, BIG_RAM_SIZE, Right!Stages,
      Right!BIG_RAM_SIZE

-----------------------------------------------------------------------------
(* The steps.                                                              *)

(* Nothing is due at the first edge.                                       *)
LEMMA NothingYet ==
  /\ \A k \in Right!Group, i \in Right!Stage : ~(Number(k, i) + Window <= 0)
  /\ \A n \in 0 .. IMAGE_SIZE - 1 : ~(LoopbackWait + n < 0)
<1>1. ASSUME NEW k \in Right!Group, NEW i \in Right!Stage
      PROVE  ~(Number(k, i) + Window <= 0)
  <2>1. Number(k, i) \in 1 .. Right!Stages
    BY Numbered
  <2> QED
    BY <2>1, WindowType, Sizes
<1>2. ASSUME NEW n \in 0 .. IMAGE_SIZE - 1 PROVE ~(LoopbackWait + n < 0)
  BY WaitsFit, Sizes
<1> QED
  BY <1>1, <1>2

LEMMA NoOutput ==
  ASSUME NEW p, \A k \in Right!Group, i \in Right!Stage : p[k][i] = 0
  PROVE  /\ \A k \in Right!Group : Right!Out(p, k) = 0
         /\ \A b \in Right!Branch : Right!CloudPsumIn(p, b) = 0
<1>1. \A k \in Right!Group : Right!Out(p, k) = 0
  BY Sizes, StageRange DEF Right!Out
<1>2. ASSUME NEW b \in Right!Branch, b # 1 PROVE Right!CloudPsumIn(p, b) = 0
  <2>1. b - 1 \in Right!Branch
    BY <1>2 DEF Right!Branch, branchCount
  <2> QED
    BY <1>1, <1>2, <2>1, LastGroup DEF Right!CloudPsumIn
<1> QED
  BY <1>1, <1>2 DEF Right!CloudPsumIn

(* While the array stands still; the image changes only before the first   *)
(* edge.                                                                   *)
LEMMA ChainStands ==
  ASSUME ChainInv, UNCHANGED <<pe, psumFirst, cloudFirst, edges, output>>,
         image' = image \/ edges = 0
  PROVE  ChainInv'
<1>1. StagesClear'
  BY DEF ChainInv, StagesClear, Right!Group, Right!Stage
<1>2. ASSUME Fits PROVE GroupsJoined' /\ BranchesJoined'
  <2>1. GroupsJoined'
    BY <1>2
    DEF ChainInv, GroupsJoined, StaleGroup, Right!Group, Right!Stage,
        Right!Row, Right!BranchOf, Right!Out
  <2>2. BranchesJoined'
    BY <1>2
    DEF ChainInv, BranchesJoined, StaleBranch, Right!Group, Right!Stage,
        Right!Branch, Right!Row, Right!BranchOf, Right!LastOf, Right!Out,
        Right!CloudPsumIn, Window
  <2> QED
    BY <2>1, <2>2
<1>3. ASSUME Fits PROVE SumsMove' /\ CellsRecorded'
  <2>1. CASE image' = image
    <3>1. SumsMove'
      BY <1>3, <2>1
      DEF ChainInv, SumsMove, Right!Group, Right!Stage, Number, Window,
          BIG_RAM_SIZE
    <3>2. CellsRecorded'
      BY <1>3, <2>1
      DEF ChainInv, CellsRecorded, LoopbackWait, BIG_RAM_SIZE, Right!Stages
    <3> QED
      BY <3>1, <3>2
  <2>2. CASE edges = 0
    <3>1. edges' = 0
      BY <2>2
    <3>2. SumsMove'
      BY <3>1, NothingYet DEF SumsMove, Right!Group, Right!Stage, Number, Window
    <3>3. CellsRecorded'
      BY <3>1, NothingYet
      DEF CellsRecorded, LoopbackWait, BIG_RAM_SIZE, Right!Stages
    <3> QED
      BY <3>2, <3>3
  <2> QED
    BY <2>1, <2>2
<1> QED
  BY <1>1, <1>2, <1>3 DEF ChainInv, Fits, Window, BIG_RAM_SIZE

(* After a reset whatever is left in the first signals is stale.           *)
LEMMA ChainCleared ==
  ASSUME ChainInv, edges' = 0, UNCHANGED <<psumFirst, cloudFirst>>,
         pe' = [k \in Right!Group |-> [i \in Right!Stage |-> 0]]
  PROVE  ChainInv'
<1>1. \A k \in Right!Group, i \in Right!Stage : pe'[k][i] = 0
  OBVIOUS
<1>2. StagesClear'
  BY <1>1 DEF StagesClear, Right!Group, Right!Stage
<1>3. /\ \A k \in Right!Group : Right!Out(pe', k) = 0
      /\ \A b \in Right!Branch : Right!CloudPsumIn(pe', b) = 0
  BY <1>1, NoOutput
<1>4. ASSUME Fits PROVE GroupsJoined'
  <2>1. SUFFICES ASSUME NEW k \in Right!Group
        PROVE  IF Right!Row(k) = 0
                 THEN psumFirst'[k] = cloudFirst'[Right!BranchOf(k)]
                 ELSE psumFirst'[k] = Right!Out(pe', k - 1) \/ StaleGroup(k)'
    BY DEF GroupsJoined, Right!Group, Right!Row, Right!BranchOf
  <2>2. CASE Right!Row(k) = 0
    BY <1>4, <2>2 DEF ChainInv, GroupsJoined
  <2>3. CASE Right!Row(k) # 0
    <3>1. Right!Out(pe', k - 1) = 0
      BY <1>3, <2>3, RowBefore
    <3>2. \A i \in Right!Stage : ~(i <= 0) /\ pe'[k][i] = 0
      BY <1>1, StageRange
    <3>3. 0 < peArraySize
      BY Sizes
    <3>4. StaleGroup(k)'
      BY <3>1, <3>2, <3>3 DEF StaleGroup, Right!Out, Right!Stage
    <3> QED
      BY <2>3, <3>4
  <2> QED
    BY <2>2, <2>3
<1>5. BranchesJoined'
  <2>1. SUFFICES ASSUME NEW b \in Right!Branch PROVE StaleBranch(b)'
    BY DEF BranchesJoined, Right!Branch
  <2>2. Right!Out(pe', Right!LastOf(b)) = 0 /\ Right!CloudPsumIn(pe', b) = 0
    BY <1>3, LastGroup
  <2>3. ASSUME NEW k \in Right!Group, NEW i \in Right!Stage
        PROVE  ~(peArraySize * Right!Row(k) + i <= 0)
    <3> DEFINE a == peArraySize * Right!Row(k)
    <3>1. a \in Nat
      <4>1. Right!Row(k) \in Nat
        BY GroupDivides, Sizes
      <4> QED
        BY <4>1, Sizes, Monotone
    <3> HIDE DEF a
    <3>2. ~(a + i <= 0)
      BY <3>1, StageRange
    <3> QED
      BY <3>2 DEF a
  <2>4. 0 < Window
    BY WindowType
  <2> QED
    BY <2>2, <2>3, <2>4
    DEF StaleBranch, Right!Group, Right!Stage, Right!Row, Right!BranchOf,
        Right!LastOf, Right!Out, Right!CloudPsumIn, Window
<1>6. SumsMove'
  BY NothingYet DEF SumsMove, Right!Group, Right!Stage, Number, Window
<1>7. CellsRecorded'
  BY NothingYet DEF CellsRecorded, LoopbackWait, BIG_RAM_SIZE, Right!Stages
<1> QED
  BY <1>2, <1>4, <1>5, <1>6, <1>7 DEF ChainInv, Fits, Window, BIG_RAM_SIZE

LEMMA InitData == Init => DataInv
<1> SUFFICES ASSUME Init PROVE DataInv
  OBVIOUS
<1>1. /\ pc = "idle" /\ sent = 0 /\ edges = 0 /\ lost = {}
      /\ pe = [k \in Right!Group |-> [i \in Right!Stage |-> 0]]
      /\ psumFirst = [k \in Right!Group |-> 0]
      /\ cloudFirst = [b \in Right!Branch |-> 0]
  BY DEF Init, Left!Init, Right!Init
<1>2. WeightsSent /\ BusFed /\ NoneLost /\ StagesClear
  BY <1>1, GroupRange DEF WeightsSent, BusFed, NoneLost, StagesClear
<1>3. /\ \A k \in Right!Group : Right!Out(pe, k) = 0
      /\ \A b \in Right!Branch : Right!CloudPsumIn(pe, b) = 0
  BY <1>1, NoOutput
<1>4. GroupsJoined
  BY <1>1, <1>3, GroupDivides, RowBefore DEF GroupsJoined
<1>5. BranchesJoined
  BY <1>1, <1>3 DEF BranchesJoined
<1>6. SumsMove /\ CellsRecorded
  BY <1>1, NothingYet DEF SumsMove, CellsRecorded
<1> QED
  BY <1>2, <1>4, <1>5, <1>6 DEF DataInv, ChainInv

(* Nothing is fed after the last edge that is counted.                     *)
LEMMA BusFedStep ==
  ASSUME IInv, Running, DataInv, enable, pc = "running", UpdateRun,
         image' = image, pc' = pc
  PROVE  BusFed'
<1>1. lost = {}
  BY DEF DataInv, NoneLost
<1>2. edges' = NextEdge(edges) /\ edges \in Nat /\ MaxEdges \in Nat
      /\ edges <= MaxEdges
  BY RunStep, EdgesType DEF IInv
<1>3. SUFFICES ASSUME NEW k \in Right!Group
      PROVE  pixelInBus'[k] = Fed(image, k, (edges' - 1) - GroupWait(k))
  BY DEF BusFed, Right!Group, GroupWait, BIG_RAM_SIZE
<1>4. pixelInBus'[k] = Fed(image, k, edges - GroupWait(k))
  BY <1>1, BusStep DEF UpdateRun, Right!UpdateRun
<1> DEFINE w == GroupWait(k)
<1>5. w \in Nat /\ w + IMAGE_SIZE < MaxEdges /\ IMAGE_SIZE \in Nat
  BY WaitsFit, Sizes
<1>6. CASE edges = MaxEdges
  <2> HIDE DEF w
  <2>1. /\ ~(edges - w \in 0 .. IMAGE_SIZE - 1)
        /\ ~((edges - 1) - w \in 0 .. IMAGE_SIZE - 1)
    BY <1>2, <1>5, <1>6
  <2>2. edges' = edges
    BY <1>2, <1>6 DEF NextEdge
  <2> QED
    BY <1>4, <2>1, <2>2 DEF Fed, w
<1>7. CASE edges # MaxEdges
  <2>1. edges' = edges + 1 /\ (edges + 1) - 1 = edges
    BY <1>2, <1>7 DEF NextEdge
  <2> QED
    BY <1>4, <2>1
<1> QED
  BY <1>6, <1>7

(* An edge of the running processor.                                       *)
LEMMA DataRunStep ==
  ASSUME IInv, DataInv, Clock, ~reset, enable
  PROVE  DataInv'
<1>1. /\ UpdateRun /\ Right!Compute /\ TypeOK
      /\ UNCHANGED <<weight, image, reset, enable, pc, sent, runs>>
  BY DEF Clock, UpdateRun, Right!UpdateRun, IInv
<1>2. pc = "running" /\ Running
  <2>1. Running
    BY DEF IInv, Fresh, Loading
  <2>2. pc \notin {"idle", "stopped"}
    BY DEF IInv, LeftProofs!IInv
  <2> QED
    BY <2>1, <2>2 DEF Running
<1>3. WeightsSent'
  BY <1>1 DEF DataInv, WeightsSent, Right!Group, branchCount
<1>4. BusFed'
  BY <1>1, <1>2, BusFedStep
<1>5. NoneLost'
  <2>1. lost = {}
    BY <1>2 DEF DataInv, NoneLost
  <2>2. lost' = lost
    BY <1>1 DEF UpdateRun, Left!UpdateRun
  <2> QED
    BY <2>1, <2>2 DEF NoneLost
<1>6. StagesClear'
  <2>1. /\ edges' = NextEdge(edges)
        /\ edges \in Nat /\ MaxEdges \in Nat /\ MaxEdges > 0
    BY <1>1, <1>2, RunStep, EdgesType, Sizes
  <2>2. edges' # 0
    BY <2>1 DEF NextEdge
  <2> QED
    BY <2>2 DEF StagesClear
<1>7. Fits => GroupsJoined' /\ BranchesJoined' /\ SumsMove' /\ CellsRecorded'
  BY <1>1, <1>2, GroupsStep, BranchesStep, SumsStep, RecordStep
<1> QED
  BY <1>3, <1>4, <1>5, <1>6, <1>7
  DEF DataInv, ChainInv, Fits, Window, BIG_RAM_SIZE

(* While the processor is not enabled nothing is on the buses, and no pixel *)
(* is lost before the first edge.                                          *)
LEMMA DataPausedStep ==
  ASSUME IInv, DataInv, UpdateRun, ~enable, enable' = enable,
         UNCHANGED <<weight, image>>,
         sent' = sent, pc' = pc \/ pc' = "loading"
  PROVE  DataInv'
<1>1. /\ TypeOK
      /\ UNCHANGED <<right, loopback, trans_finished, output, edges, pe,
                     cloudFirst, psumFirst>>
      /\ left' = left
  BY PausedStep DEF IInv
<1>2. pc' # "running"
  BY DEF DataInv, WeightsSent
<1>3. WeightsSent'
  BY <1>2 DEF DataInv, WeightsSent, Right!Group, branchCount
<1>4. BusFed'
  <2>1. \A k \in Right!Group : pixelInBus'[k] = 0
    BY DEF UpdateRun, Right!UpdateRun, Right!OnBus, Right!Active
  <2> QED
    BY <1>2, <2>1 DEF BusFed, Right!Group
<1>5. NoneLost'
  <2>1. SUFFICES ASSUME edges = 0 PROVE lost' = {}
    BY <1>1, <1>2 DEF NoneLost
  <2>2. lost = {}
    BY <2>1 DEF DataInv, NoneLost
  <2>3. LeftProofs!Elapsed = 0
    <3>1. LeftProofs!AllEdges > 0
      BY SizesOfLeft, Sizes
    <3> QED
      BY <2>1, <3>1 DEF IInv, Together
  <2>4. Left!InFlight = {}
    <3>1. ~(0 \in 1 .. Left!BIG_RAM_SIZE)
      OBVIOUS
    <3> QED
      BY <2>3, <3>1, CopiedOfLeft DEF Left!InFlight
  <2> QED
    BY <2>2, <2>4 DEF UpdateRun, Left!UpdateRun
<1>6. ChainInv'
  BY <1>1, ChainStands DEF DataInv
<1> QED
  BY <1>3, <1>4, <1>5, <1>6 DEF DataInv

(* A reset: all of it begins again.                                        *)
LEMMA DataClearedStep ==
  ASSUME IInv, DataInv, UpdateReset, weight' = weight,
         sent' = sent \/ sent' = 0,
         pc' \in {"idle", "resetting"}
  PROVE  DataInv'
<1>1. /\ edges' = 0 /\ UNCHANGED <<psumFirst, cloudFirst>>
      /\ pe' = [k \in Right!Group |-> [i \in Right!Stage |-> 0]]
  BY ClearedStep DEF IInv
<1>2. pc' # "running" /\ pc' # "loading"
  OBVIOUS
<1>3. WeightsSent'
  <2>1. \A k \in Right!Group : ~(k <= 0)
    BY GroupRange
  <2> QED
    BY <1>2, <2>1 DEF DataInv, WeightsSent, Right!Group, branchCount
<1>4. BusFed'
  BY <1>2 DEF BusFed
<1>5. NoneLost'
  BY DEF NoneLost, UpdateReset, Left!UpdateReset
<1>6. ChainInv'
  BY <1>1, ChainCleared DEF DataInv
<1> QED
  BY <1>3, <1>4, <1>5, <1>6 DEF DataInv

(* A step of the driver.                                                   *)
LEMMA DataDriverStep ==
  ASSUME DataInv, UNCHANGED <<pe, psumFirst, cloudFirst, edges, output>>,
         UNCHANGED <<pixelInBus, lost>>,
         image' = image \/ edges = 0,
         WeightsSent',
         pc' = "loading" => pc = "loading",
         pc' = "running" => /\ image' = image
                            /\ pc = "running" \/ (pc = "loading" /\ edges = 0)
  PROVE  DataInv'
<1>1. BusFed'
  <2>1. CASE pc' = "loading"
    BY <2>1 DEF DataInv, BusFed, Right!Group
  <2>2. CASE pc' = "running" /\ pc = "running"
    BY <2>2
    DEF DataInv, BusFed, Right!Group, GroupWait, BIG_RAM_SIZE
  <2>3. CASE pc' = "running" /\ pc = "loading"
    <3>1. SUFFICES ASSUME NEW k \in Right!Group
          PROVE  pixelInBus'[k] = Fed(image, k, (edges' - 1) - GroupWait(k))
      BY <2>3 DEF BusFed, Right!Group, GroupWait, BIG_RAM_SIZE
    <3>2. pixelInBus'[k] = 0
      BY <2>3 DEF DataInv, BusFed
    <3>3. GroupWait(k) \in Nat /\ edges' = 0
      BY <2>3, WaitsFit
    <3>4. ~((0 - 1) - GroupWait(k) \in 0 .. IMAGE_SIZE - 1)
      BY <3>3, Sizes
    <3> QED
      BY <3>2, <3>3, <3>4 DEF Fed
  <2> QED
    BY <2>1, <2>2, <2>3 DEF BusFed
<1>2. NoneLost'
  BY DEF DataInv, NoneLost
<1>3. ChainInv'
  BY ChainStands DEF DataInv
<1> QED
  BY <1>1, <1>2, <1>3 DEF DataInv

LEMMA DataStep == IInv /\ DataInv /\ [Next]_vars => DataInv'
<1> SUFFICES ASSUME IInv, DataInv, [Next]_vars PROVE DataInv'
  OBVIOUS
<1>1. CASE Clock
  <2>1. CASE reset
    <3>1. pc \in {"idle", "resetting"}
      BY <2>1 DEF IInv, Fresh, Running, Loading, LeftProofs!IInv
    <3> QED
      BY <1>1, <2>1, <3>1, DataClearedStep DEF Clock
  <2>2. CASE ~reset /\ enable
    BY <1>1, <2>2, DataRunStep
  <2>3. CASE ~reset /\ ~enable
    BY <1>1, <2>3, DataPausedStep DEF Clock
  <2> QED
    BY <2>1, <2>2, <2>3
<1>2. CASE AssertReset
  <2>1. CASE reset
    <3>1. edges = 0
      BY <2>1 DEF IInv, Fresh, Running, Loading
    <3>2. UNCHANGED <<pe, psumFirst, cloudFirst, edges, output, pixelInBus,
                      lost>>
      BY <1>2, <2>1
      DEF AssertReset, hardware, left_vars, right_vars, loopback_vars
    <3>3. WeightsSent'
      <4>1. \A k \in Right!Group : ~(k <= 0)
        BY GroupRange
      <4> QED
        BY <1>2, <4>1 DEF AssertReset, WeightsSent, Right!Group, branchCount
    <3> QED
      BY <1>2, <3>1, <3>2, <3>3, DataDriverStep DEF AssertReset
  <2>2. CASE ~reset
    BY <1>2, <2>2, DataClearedStep DEF AssertReset
  <2> QED
    BY <2>1, <2>2
<1>3. CASE ReleaseReset
  <2>1. ~enable
    BY <1>3 DEF ReleaseReset, IInv, Fresh, Loading, Running
  <2> QED
    BY <1>3, <2>1, DataPausedStep DEF ReleaseReset
<1>4. CASE LoadWeights
  <2>1. PICK k \in Right!Group : Right!LoadWeights(k)
    BY <1>4 DEF LoadWeights
  <2>2. /\ UNCHANGED <<pe, psumFirst, cloudFirst, edges, output, pixelInBus,
                       lost, image, pc>>
        /\ pc = "loading" /\ k = sent + 1 /\ sent' = k
        /\ weight' = [weight EXCEPT ![k] = kernel[k]]
    BY <1>4, <2>1
    DEF LoadWeights, Right!LoadWeights, left_vars, loopback_vars,
        Right!hardware, Right!signals
  <2>3. WeightsSent'
    <3>1. sent \in Int /\ \A j \in Right!Group : j \in Nat
      <4> DEFINE last == 3 * groupCount
      <4>1. last \in Nat
        BY GroupRange
      <4>2. sent \in 0 .. last
        BY DEF IInv, TypeOK, branchCount
      <4> HIDE DEF last
      <4>3. sent \in Int
        BY <4>1, <4>2
      <4> QED
        BY <4>3, GroupRange
    <3>2. \A j \in Right!Group : j <= sent' => j = k \/ j <= sent
      BY <2>2, <3>1
    <3>3. weight \in [Right!Group -> [Right!Stage -> Int]]
      BY DEF IInv, TypeOK
    <3>4. /\ weight'[k] = kernel[k]
          /\ \A j \in Right!Group : j # k => weight'[j] = weight[j]
      BY <2>2, <3>3
    <3>5. \A j \in Right!Group : j <= sent' => weight'[j] = kernel[j]
      BY <3>2, <3>4 DEF DataInv, WeightsSent
    <3> QED
      BY <2>2, <3>5 DEF WeightsSent, Right!Group, branchCount
  <2> QED
    BY <2>2, <2>3, DataDriverStep
<1>5. CASE StartProcessor
  <2>1. edges = 0 /\ pc = "loading"
    BY <1>5, StartReady DEF Loading, StartProcessor
  <2>2. /\ UNCHANGED <<pe, psumFirst, cloudFirst, edges, output, pixelInBus,
                       lost, image, weight, sent>>
        /\ enable' /\ sent = branchCount * groupCount
    BY <1>5
    DEF StartProcessor, hardware, left_vars, right_vars, loopback_vars
  <2>3. WeightsSent'
    BY <2>2 DEF DataInv, WeightsSent, Right!Group, branchCount
  <2> QED
    BY <2>1, <2>2, <2>3, DataDriverStep
<1>6. CASE LoadLeft \/ LoadRight \/ LoadLoopback \/ StopProcessor \/ Abort
           \/ UNCHANGED vars
  <2>1. UNCHANGED <<pe, psumFirst, cloudFirst, edges, output, pixelInBus, lost,
                    image, weight, sent>>
    BY <1>6
    DEF LoadLeft, Left!LoadDescriptor, LoadRight, Right!LoadDescriptor,
        LoadLoopback, StopProcessor, Abort, vars, hardware, left_vars,
        right_vars, loopback_vars, Right!signals, Right!driver
  <2>2. (pc' = pc /\ enable' = enable) \/ pc' \in {"stopped", "idle"}
    BY <1>6
    DEF LoadLeft, Left!LoadDescriptor, LoadRight, Right!LoadDescriptor,
        LoadLoopback, StopProcessor, Abort, vars, Right!driver
  <2>3. WeightsSent'
    BY <2>1, <2>2 DEF DataInv, WeightsSent, Right!Group, branchCount
  <2>4. pc' = pc \/ (pc' # "loading" /\ pc' # "running")
    BY <2>2
  <2> QED
    BY <2>1, <2>3, <2>4, DataDriverStep
<1> QED
  BY <1>1, <1>2, <1>3, <1>4, <1>5, <1>6 DEF Next

LEMMA DataInvariant == Spec => [](IInv /\ DataInv)
<1>1. Init => IInv /\ DataInv
  BY InitInv, InitData
<1>2. IInv /\ DataInv /\ [Next]_vars => (IInv /\ DataInv)'
  BY InvStep, DataStep
<1> QED
  BY <1>1, <1>2, PTL DEF Spec

-----------------------------------------------------------------------------
(* Sums over a finite set: what the fold of the community modules computes *)
(* does not depend on the order in which it takes the elements.            *)

Any(s) == CHOOSE x \in s : TRUE

LEMMA AnyIs ==
  ASSUME NEW D, IsFiniteSet(D), NEW s \in SUBSET D, s # {}
  PROVE  /\ Any(s) \in s /\ Any(s) \in D /\ s \ {Any(s)} \in SUBSET D
         /\ IsFiniteSet(s) /\ Cardinality(s) \in Nat
         /\ Cardinality(s \ {Any(s)}) = Cardinality(s) - 1
<1>1. Any(s) \in s
  BY DEF Any
<1>2. IsFiniteSet(s) /\ Cardinality(s) \in Nat
  BY FS_Subset, FS_CardinalityType
<1>3. Cardinality(s \ {Any(s)}) = Cardinality(s) - 1
  BY <1>1, <1>2, FS_RemoveElement
<1> QED
  BY <1>1, <1>2, <1>3

(* g sums f over every set in D, up to some size in the second.            *)
SumsUp(f, D, g) ==
  g = [s \in SUBSET D |->
         IF s = {} THEN 0 ELSE f[Any(s)] + g[s \ {Any(s)}]]

SumsSmall(f, D, g, n) ==
  /\ g = [s \in SUBSET D |-> g[s]]
  /\ \A s \in SUBSET D :
       Cardinality(s) < n =>
         g[s] = IF s = {} THEN 0 ELSE f[Any(s)] + g[s \ {Any(s)}]

LEMMA SumsSmallExist ==
  ASSUME NEW f, NEW D, IsFiniteSet(D)
  PROVE  \A n \in Nat : \E g : SumsSmall(f, D, g, n)
<1> DEFINE T == {n \in Nat : ~ \E g : SumsSmall(f, D, g, n)}
<1>1. SUFFICES ASSUME T # {} PROVE FALSE
  OBVIOUS
<1>2. PICK n \in T : \A l \in T : n <= l
  BY <1>1, Least
<1>3. \A s \in SUBSET D : Cardinality(s) \in Nat
  BY FS_Subset, FS_CardinalityType
<1>4. n # 0
  <2> DEFINE g == [s \in SUBSET D |-> 0]
  <2>1. g = [s \in SUBSET D |-> g[s]]
    OBVIOUS
  <2>2. \A s \in SUBSET D : ~(Cardinality(s) < 0)
    BY <1>3
  <2>3. SumsSmall(f, D, g, 0)
    BY <2>1, <2>2 DEF SumsSmall
  <2> QED
    BY <2>3
<1>5. n - 1 \in Nat /\ ~(n <= n - 1)
  BY <1>4
<1>6. n - 1 \notin T
  BY <1>2, <1>5
<1>7. PICK g : SumsSmall(f, D, g, n - 1)
  BY <1>5, <1>6
<1> DEFINE r == [s \in SUBSET D |->
                   IF s = {} THEN 0 ELSE f[Any(s)] + g[s \ {Any(s)}]]
<1>8. ASSUME NEW s \in SUBSET D, Cardinality(s) < n
      PROVE  r[s] = IF s = {} THEN 0 ELSE f[Any(s)] + r[s \ {Any(s)}]
  <2>1. CASE s = {}
    BY <2>1
  <2>2. CASE s # {}
    <3> DEFINE t == s \ {Any(s)}
    <3>1. /\ t \in SUBSET D /\ Cardinality(t) = Cardinality(s) - 1
          /\ Cardinality(s) \in Nat
      BY <2>2, AnyIs
    <3>2. Cardinality(t) < n - 1
      BY <1>5, <1>8, <3>1
    <3>3. g[t] = r[t]
      <4> HIDE DEF t
      <4> QED
        BY <1>7, <3>1, <3>2, Zenon DEF SumsSmall
    <3>4. r[s] = f[Any(s)] + g[t]
      BY <2>2
    <3> QED
      BY <2>2, <3>3, <3>4
  <2> QED
    BY <2>1, <2>2
<1>9. r = [s \in SUBSET D |-> r[s]]
  OBVIOUS
<1> HIDE DEF r
<1>10. SumsSmall(f, D, r, n)
  BY <1>8, <1>9 DEF SumsSmall
<1> QED
  BY <1>2, <1>10

LEMMA SumsUpExists ==
  ASSUME NEW f, NEW D, IsFiniteSet(D)
  PROVE  \E g : SumsUp(f, D, g)
<1>1. Cardinality(D) \in Nat /\ Cardinality(D) + 1 \in Nat
  BY FS_CardinalityType
<1>2. PICK g : SumsSmall(f, D, g, Cardinality(D) + 1)
  BY <1>1, SumsSmallExist
<1>3. ASSUME NEW s \in SUBSET D PROVE Cardinality(s) < Cardinality(D) + 1
  <2>1. Cardinality(s) \in Nat /\ Cardinality(s) <= Cardinality(D)
    BY FS_Subset, FS_CardinalityType
  <2> QED
    BY <1>1, <2>1
<1>4. \A s \in SUBSET D :
        g[s] = IF s = {} THEN 0 ELSE f[Any(s)] + g[s \ {Any(s)}]
  BY <1>2, <1>3, Zenon DEF SumsSmall
<1>5. g = [s \in SUBSET D |-> g[s]]
  BY <1>2 DEF SumsSmall
<1>6. SumsUp(f, D, g)
  BY <1>4, <1>5 DEF SumsUp
<1> QED
  BY <1>6

LEMMA SumOf ==
  ASSUME NEW f, NEW D, IsFiniteSet(D), NEW g, SumsUp(f, D, g)
  PROVE  /\ g[{}] = 0
         /\ \A s \in SUBSET D : s # {} => g[s] = f[Any(s)] + g[s \ {Any(s)}]
  BY DEF SumsUp

LEMMA SumType ==
  ASSUME NEW f, NEW D, IsFiniteSet(D), NEW g, SumsUp(f, D, g),
         \A x \in D : f[x] \in Int
  PROVE  \A s \in SUBSET D : g[s] \in Int
<1> DEFINE T == {n \in Nat : \E s \in SUBSET D :
                               Cardinality(s) = n /\ g[s] \notin Int}
<1>1. T = {}
  <2> SUFFICES ASSUME T # {} PROVE FALSE
    OBVIOUS
  <2>1. PICK n \in T : \A l \in T : n <= l
    BY Least
  <2>2. PICK s \in SUBSET D : Cardinality(s) = n /\ g[s] \notin Int
    OBVIOUS
  <2>3. s # {}
    <3>1. g[{}] = 0 /\ 0 \in Int
      BY SumOf
    <3> QED
      BY <2>2, <3>1
  <2> DEFINE t == s \ {Any(s)}
  <2>4. t \in SUBSET D /\ Cardinality(t) = n - 1 /\ Any(s) \in D /\ n \in Nat
    BY <2>2, <2>3, AnyIs
  <2>5. n - 1 \in Nat
    BY <2>4, FS_Subset, FS_CardinalityType
  <2> HIDE DEF t
  <2>6. g[t] \in Int
    <3>1. n - 1 \notin T
      BY <2>1, <2>4
    <3> QED
      BY <2>4, <2>5, <3>1
  <2>7. g[s] = f[Any(s)] + g[t]
    BY <2>3, SumOf DEF t
  <2> QED
    BY <2>2, <2>4, <2>6, <2>7
<1>2. \A s \in SUBSET D : Cardinality(s) \in Nat
  BY FS_Subset, FS_CardinalityType
<1> QED
  BY <1>1, <1>2

(* An element more adds its value, wherever it comes in the order.         *)
AddsValue(f, D, g, s) ==
  \A x \in D : x \notin s => g[s \cup {x}] = f[x] + g[s]

LEMMA SumAdds ==
  ASSUME NEW f, NEW D, IsFiniteSet(D), NEW g, SumsUp(f, D, g),
         \A x \in D : f[x] \in Int
  PROVE  \A s \in SUBSET D : AddsValue(f, D, g, s)
<1> DEFINE T == {n \in Nat : \E s \in SUBSET D :
                               Cardinality(s) = n /\ ~AddsValue(f, D, g, s)}
<1>1. T = {}
  <2> SUFFICES ASSUME T # {} PROVE FALSE
    OBVIOUS
  <2>1. PICK n \in T : \A l \in T : n <= l
    BY Least
  <2>2. PICK s \in SUBSET D : Cardinality(s) = n /\ ~AddsValue(f, D, g, s)
    OBVIOUS
  <2>3. PICK x \in D : x \notin s /\ g[s \cup {x}] # f[x] + g[s]
    BY <2>2 DEF AddsValue
  <2> DEFINE u == s \cup {x}
             a == Any(u)
             t == s \ {a}
  <2>4. u \in SUBSET D /\ u # {} /\ a \in u /\ a \in D
    <3>1. u \in SUBSET D /\ u # {}
      OBVIOUS
    <3> QED
      BY <3>1, AnyIs
  <2>5. g[u] = f[a] + g[u \ {a}]
    <3>1. \A v \in SUBSET D : v # {} => g[v] = f[Any(v)] + g[v \ {Any(v)}]
      BY DEF SumsUp
    <3> HIDE DEF u
    <3> QED
      BY <2>4, <3>1
  <2>6. a # x
    <3>1. ASSUME a = x PROVE u \ {a} = s
      BY <2>3, <3>1
    <3> HIDE DEF u, a
    <3> QED
      BY <2>3, <2>5, <3>1 DEF u
  <2>7. a \in s /\ u \ {a} = t \cup {x} /\ s = t \cup {a} /\ t \in SUBSET D
        /\ x \notin t /\ a \notin t
    <3> HIDE DEF a
    <3> QED
      BY <2>3, <2>4, <2>6
  <2>8. Cardinality(t) = n - 1 /\ n - 1 \in Nat /\ n \in Nat
    <3>1. IsFiniteSet(s) /\ IsFiniteSet(t) /\ Cardinality(s) \in Nat
          /\ Cardinality(t) \in Nat
      BY <2>7, FS_Subset, FS_CardinalityType
    <3> HIDE DEF a
    <3>2. Cardinality(t) = Cardinality(s) - 1
      BY <2>7, <3>1, FS_RemoveElement
    <3> QED
      BY <2>2, <3>1, <3>2
  <2> HIDE DEF u, a, t
  <2>9. AddsValue(f, D, g, t)
    <3>1. n - 1 \notin T
      BY <2>1, <2>8
    <3> QED
      BY <2>7, <2>8, <3>1
  <2>10. /\ g[t \cup {x}] = f[x] + g[t]
         /\ g[t \cup {a}] = f[a] + g[t]
    BY <2>4, <2>7, <2>9 DEF AddsValue
  <2>11. f[x] \in Int /\ f[a] \in Int /\ g[t] \in Int
    BY <2>4, <2>7, SumType
  <2>12. g[u] = f[a] + (f[x] + g[t]) /\ g[s] = f[a] + g[t]
    BY <2>5, <2>7, <2>10
  <2>13. g[u] = f[x] + g[s]
    BY <2>11, <2>12
  <2> QED
    BY <2>3, <2>13 DEF u
<1>2. \A s \in SUBSET D : Cardinality(s) \in Nat
  BY FS_Subset, FS_CardinalityType
<1> QED
  BY <1>1, <1>2

(* The first n elements of an enumeration.                                 *)
Enumerated(h, n) == {h[s] : s \in 1 .. n}

(* h enumerates elements of D without repetition, p adds up their values.  *)
Adds(f, D, N, h, p) ==
  /\ \A s \in 1 .. N : h[s] \in D
  /\ \A s, t \in 1 .. N : h[s] = h[t] => s = t
  /\ p[0] = 0
  /\ \A s \in 1 .. N : p[s] = p[s - 1] + f[h[s]]

(* So the sum over a set that is enumerated is that of its terms in the    *)
(* order of the enumeration.                                               *)
LEMMA SumInOrder ==
  ASSUME NEW f, NEW D, IsFiniteSet(D), NEW g, SumsUp(f, D, g),
         \A x \in D : f[x] \in Int,
         NEW N \in Nat, NEW h, NEW p, Adds(f, D, N, h, p)
  PROVE  \A n \in 0 .. N : g[Enumerated(h, n)] = p[n]
<1>0. /\ \A s \in 1 .. N : h[s] \in D
      /\ \A s, t \in 1 .. N : h[s] = h[t] => s = t
      /\ p[0] = 0
      /\ \A s \in 1 .. N : p[s] = p[s - 1] + f[h[s]]
  BY DEF Adds
<1> DEFINE E(n) == Enumerated(h, n)
           T == {n \in 0 .. N : g[E(n)] # p[n]}
<1>1. T = {}
  <2> SUFFICES ASSUME T # {} PROVE FALSE
    OBVIOUS
  <2>1. T \subseteq Nat
    OBVIOUS
  <2>2. PICK n \in T : \A l \in T : n <= l
    BY <2>1, Least
  <2>3. n # 0
    <3>1. E(0) = {}
      BY DEF Enumerated
    <3>2. g[{}] = 0
      BY SumOf
    <3> HIDE DEF E
    <3> QED
      BY <1>0, <2>2, <3>1, <3>2
  <2>4. n \in 1 .. N /\ n - 1 \in 0 .. N /\ ~(n <= n - 1)
    BY <2>3
  <2>5. g[E(n - 1)] = p[n - 1]
    <3> HIDE DEF E
    <3> QED
      BY <2>2, <2>4
  <2>6. \A s \in 1 .. n - 1 : s \in 1 .. N /\ s # n
    BY <2>4
  <2>7. E(n) = E(n - 1) \cup {h[n]}
    <3>1. \A s : s \in 1 .. n <=> s \in 1 .. n - 1 \/ s = n
      BY <2>4
    <3> QED
      BY <3>1 DEF Enumerated
  <2>8. h[n] \in D /\ h[n] \notin E(n - 1) /\ E(n - 1) \in SUBSET D
    BY <1>0, <2>4, <2>6 DEF Enumerated
  <2> HIDE DEF E
  <2>9. g[E(n)] = f[h[n]] + g[E(n - 1)]
    BY <2>7, <2>8, SumAdds DEF AddsValue
  <2>10. f[h[n]] \in Int /\ g[E(n - 1)] \in Int
    BY <2>8, SumType
  <2>11. p[n] = p[n - 1] + f[h[n]]
    BY <1>0, <2>4
  <2>12. g[E(n)] = p[n]
    BY <2>5, <2>9, <2>10, <2>11
  <2> QED
    BY <2>2, <2>12
<1> QED
  BY <1>1

-----------------------------------------------------------------------------
(* The stages of the array are the terms of the convolution.               *)

Terms == (1 .. branchCount) \X (0 .. groupCount - 1) \X (0 .. peArraySize - 1)

(* The term that is weighed in stage s.                                    *)
TermAt(s) ==
  <<Right!BranchOf(GroupAt(s)), Right!Row(GroupAt(s)), StageAt(s) - 1>>

(* The weighed pixel of a term, as Filtered has it.                        *)
Weighed(m, row, col, t) ==
  kernel[(t[1] - 1) * groupCount + t[2] + 1][t[3] + 1]
    * m[(t[1] - 1) * IMAGE_SIZE + (row + t[2]) * IMAGE_WIDTH + (col + t[3])]

WeighedTerms(m, row, col) == [t \in Terms |-> Weighed(m, row, col, t)]

LEMMA TermsNumbered ==
  /\ \A s \in 1 .. Right!Stages : TermAt(s) \in Terms
  /\ \A s, u \in 1 .. Right!Stages : TermAt(s) = TermAt(u) => s = u
  /\ \A t \in Terms : \E s \in 1 .. Right!Stages : TermAt(s) = t
<1>1. ASSUME NEW s \in 1 .. Right!Stages PROVE TermAt(s) \in Terms
  <2>1. GroupAt(s) \in Right!Group /\ StageAt(s) \in Right!Stage
    BY NumbersAll
  <2>2. StageAt(s) - 1 \in 0 .. peArraySize - 1
    BY <2>1, StageRange, Sizes
  <2>3. /\ Right!BranchOf(GroupAt(s)) \in 1 .. 3
        /\ Right!Row(GroupAt(s)) \in 0 .. groupCount - 1
    BY <2>1, GroupDivides
  <2> QED
    BY <2>2, <2>3 DEF TermAt, Terms, branchCount
<1>2. ASSUME NEW s \in 1 .. Right!Stages, NEW u \in 1 .. Right!Stages,
             TermAt(s) = TermAt(u)
      PROVE  s = u
  <2>1. /\ GroupAt(s) \in Right!Group /\ StageAt(s) \in Right!Stage
        /\ GroupAt(u) \in Right!Group /\ StageAt(u) \in Right!Stage
        /\ Number(GroupAt(s), StageAt(s)) = s
        /\ Number(GroupAt(u), StageAt(u)) = u
    BY NumbersAll
  <2>2. /\ Right!BranchOf(GroupAt(s)) = Right!BranchOf(GroupAt(u))
        /\ Right!Row(GroupAt(s)) = Right!Row(GroupAt(u))
        /\ StageAt(s) - 1 = StageAt(u) - 1
    BY <1>2 DEF TermAt
  <2>3. GroupAt(s) = GroupAt(u)
    BY <2>1, <2>2, GroupDivides
  <2>4. StageAt(s) = StageAt(u)
    BY <2>1, <2>2, StageRange
  <2> QED
    BY <2>1, <2>3, <2>4
<1>3. ASSUME NEW t \in Terms
      PROVE  \E s \in 1 .. Right!Stages : TermAt(s) = t
  <2>1. PICK b \in 1 .. 3, r \in 0 .. groupCount - 1,
             c \in 0 .. peArraySize - 1 :
          t = <<b, r, c>>
    BY DEF Terms, branchCount
  <2> DEFINE k == groupCount * (b - 1) + (r + 1)
             i == c + 1
             s == Number(k, i)
  <2>2. k \in Right!Group /\ Right!BranchOf(k) = b /\ Right!Row(k) = r
    BY GroupOf
  <2>3. i \in Right!Stage /\ i - 1 = c
    BY StageRange, Sizes
  <2> HIDE DEF k, i
  <2>4. s \in 1 .. Right!Stages /\ GroupAt(s) = k /\ StageAt(s) = i
    BY <2>2, <2>3, Numbered
  <2> HIDE DEF s
  <2>5. TermAt(s) = t
    BY <2>1, <2>2, <2>3, <2>4 DEF TermAt
  <2> QED
    BY <2>4, <2>5
<1> QED
  BY <1>1, <1>2, <1>3

LEMMA TermsFinite ==
  /\ IsFiniteSet(Terms)
  /\ {TermAt(s) : s \in 1 .. Right!Stages} = Terms
<1> DEFINE h == [s \in 1 .. Right!Stages |-> TermAt(s)]
<1>1. IsFiniteSet(1 .. Right!Stages)
  BY Sizes, FS_Interval
<1>2. h \in Surjection(1 .. Right!Stages, Terms)
  BY TermsNumbered DEF Surjection
<1>3. IsFiniteSet(Terms)
  <2> HIDE DEF h
  <2> QED
    BY <1>1, <1>2, FS_Surjection
<1>4. {TermAt(s) : s \in 1 .. Right!Stages} = Terms
  BY TermsNumbered
<1> QED
  BY <1>3, <1>4

(* Where all of the kernel lies on the image.                              *)
LEMMA OnTheImage ==
  ASSUME NEW row \in 0 .. IMAGE_HEIGHT - groupCount,
         NEW col \in 0 .. IMAGE_WIDTH - peArraySize
  PROVE  /\ row \in Nat /\ col \in Nat /\ row * IMAGE_WIDTH + col \in Nat
         /\ \A r \in 0 .. groupCount - 1, c \in 0 .. peArraySize - 1 :
              /\ (row * IMAGE_WIDTH + col) + c \in 0 .. IMAGE_SIZE - 1
              /\ IMAGE_WIDTH * r \in Nat
              /\ IMAGE_WIDTH * r + ((row * IMAGE_WIDTH + col) + c) =
                   (row + r) * IMAGE_WIDTH + (col + c)
              /\ IMAGE_WIDTH * r + ((row * IMAGE_WIDTH + col) + c) < IMAGE_SIZE
         /\ Fits
<1> DEFINE W == IMAGE_WIDTH
           H == IMAGE_HEIGHT
<1>1. /\ W \in Nat /\ W > 0 /\ groupCount \in Nat /\ groupCount > 0
      /\ peArraySize \in Nat /\ peArraySize > 0
      /\ IMAGE_SIZE \in Nat /\ BIG_RAM_SIZE = 3 * IMAGE_SIZE
  BY Sizes
<1>2. H \in Nat /\ IMAGE_SIZE = W * H
  <2>1. IMAGE_SIZE % IMAGE_WIDTH = 0
    BY ProcessorAssumption, Zenon
  <2>2. /\ IMAGE_SIZE \div W \in Nat /\ IMAGE_SIZE % W \in 0 .. W - 1
        /\ IMAGE_SIZE = W * (IMAGE_SIZE \div W) + (IMAGE_SIZE % W)
    <3>1. IMAGE_SIZE \in Nat /\ W \in Nat \ {0}
      BY <1>1
    <3> HIDE DEF W
    <3> QED
      BY <3>1, Division
  <2>3. W * (IMAGE_SIZE \div W) \in Nat
    BY <1>1, <2>2, Monotone
  <2> QED
    BY <2>1, <2>2, <2>3 DEF IMAGE_HEIGHT
<1> HIDE DEF H
<1>3. /\ row \in Nat /\ row + groupCount <= H
      /\ col \in Nat /\ col + peArraySize <= W
  BY <1>1, <1>2 DEF H
<1>4. W * row \in Nat /\ W * row = row * W
  BY <1>1, <1>3, Monotone, Z3
<1>5. row * W + col \in Nat
  BY <1>3, <1>4
<1>6. ASSUME NEW r \in 0 .. groupCount - 1, NEW c \in 0 .. peArraySize - 1
      PROVE  /\ (row * W + col) + c \in 0 .. IMAGE_SIZE - 1
             /\ W * r \in Nat
             /\ W * r + ((row * W + col) + c) = (row + r) * W + (col + c)
             /\ W * r + ((row * W + col) + c) < IMAGE_SIZE
  <2>1. /\ r \in Nat /\ c \in Nat /\ (row + r) + 1 \in Nat /\ H \in Nat
        /\ (row + r) + 1 <= H /\ col + c < W
    BY <1>1, <1>2, <1>3
  <2> DEFINE a == W * r
             z == row * W
             y == (row + r) * W
  <2>2. a \in Nat
    BY <1>1, <2>1, Monotone
  <2>3. y = a + z
    BY <1>1, <1>3, <2>1, Z3
  <2>4. y + W <= IMAGE_SIZE
    <3>1. W * ((row + r) + 1) <= W * H
      BY <1>1, <2>1, Monotone
    <3>2. W * ((row + r) + 1) = y + W
      BY <1>1, <1>3, <2>1, Z3
    <3> HIDE DEF y
    <3> QED
      BY <1>2, <3>1, <3>2
  <2>5. z \in Nat
    BY <1>4
  <2> HIDE DEF a, z, y
  <2>6. /\ (z + col) + c \in 0 .. IMAGE_SIZE - 1
        /\ a \in Nat
        /\ a + ((z + col) + c) = y + (col + c)
        /\ a + ((z + col) + c) < IMAGE_SIZE
    BY <1>1, <1>3, <2>1, <2>2, <2>3, <2>4, <2>5
  <2> QED
    BY <2>6 DEF a, z, y
<1>7. Fits
  <2>1. groupCount <= H /\ peArraySize <= W
    BY <1>1, <1>2, <1>3
  <2>2. groupCount * peArraySize <= groupCount * W
    BY <1>1, <2>1, Monotone
  <2>3. W * groupCount <= W * H
    BY <1>1, <1>2, <2>1, Monotone
  <2>4. groupCount * W = W * groupCount
    BY <1>1, Z3
  <2> DEFINE x == groupCount * peArraySize
             y == groupCount * W
  <2>5. x \in Nat /\ y \in Nat
    BY <1>1, Monotone
  <2>6. y <= IMAGE_SIZE
    BY <1>2, <2>3, <2>4
  <2>7. x <= y
    BY <2>2
  <2> HIDE DEF x, y
  <2>8. x <= BIG_RAM_SIZE
    BY <1>1, <2>5, <2>6, <2>7
  <2> QED
    BY <2>8 DEF x, Fits, Window
<1> QED
  BY <1>3, <1>5, <1>6, <1>7

(* A term is what its stage adds.                                          *)
LEMMA TermIsSummand ==
  ASSUME NEW m,
         NEW row \in 0 .. IMAGE_HEIGHT - groupCount,
         NEW col \in 0 .. IMAGE_WIDTH - peArraySize,
         NEW s \in 1 .. Right!Stages
  PROVE  Weighed(m, row, col, TermAt(s)) =
           Summand(m, row * IMAGE_WIDTH + col, s)
<1> DEFINE k == GroupAt(s)
           i == StageAt(s)
           b == Right!BranchOf(k)
           r == Right!Row(k)
           c == i - 1
           q == row * IMAGE_WIDTH + col
<1>1. k \in Right!Group /\ i \in Right!Stage
  BY NumbersAll
<1>2. /\ b \in 1 .. 3 /\ r \in 0 .. groupCount - 1
      /\ k = groupCount * (b - 1) + (r + 1)
  BY <1>1, GroupDivides
<1>3. c \in 0 .. peArraySize - 1 /\ c + 1 = i
  BY <1>1, StageRange, Sizes
<1>4. /\ TermAt(s)[1] = b /\ TermAt(s)[2] = r /\ TermAt(s)[3] = c
  BY DEF TermAt
<1>5. (b - 1) * groupCount + r + 1 = k
  <2>1. (b - 1) * groupCount = groupCount * (b - 1)
    BY <1>2, Sizes, Z3
  <2> DEFINE a == groupCount * (b - 1)
  <2>2. a \in Nat
    <3>1. b - 1 \in Nat
      BY <1>2
    <3> HIDE DEF b
    <3> QED
      BY <3>1, Sizes, Monotone
  <2>3. r \in Nat
    BY <1>2, Sizes
  <2> HIDE DEF a, b, r, k
  <2>4. a + r + 1 = a + (r + 1)
    BY <2>2, <2>3
  <2> QED
    BY <1>2, <2>1, <2>4 DEF a
<1>6. Fed(m, k, q + c) =
        m[(b - 1) * IMAGE_SIZE + (row + r) * IMAGE_WIDTH + (col + c)]
  <2>1. /\ q + c \in 0 .. IMAGE_SIZE - 1 /\ IMAGE_WIDTH * r \in Nat
        /\ IMAGE_WIDTH * r + (q + c) = (row + r) * IMAGE_WIDTH + (col + c)
        /\ IMAGE_WIDTH * r + (q + c) < IMAGE_SIZE
    BY <1>2, <1>3, OnTheImage
  <2>2. GroupStart(k) = IMAGE_WIDTH * r
    BY DEF GroupStart
  <2>3. Fed(m, k, q + c) = m[Offset(b) + ((row + r) * IMAGE_WIDTH + (col + c))]
    BY <2>1, <2>2 DEF Fed
  <2> DEFINE x == (b - 1) * IMAGE_SIZE
             y == (row + r) * IMAGE_WIDTH
  <2>4. Offset(b) = x
    BY <1>2, OffsetIs, Sizes
  <2>5. x \in Nat /\ y \in Nat /\ col + c \in Nat
    <3>1. x \in Nat
      BY <1>2, <2>4, OffsetIs
    <3>2. row \in Nat /\ col \in Nat /\ r \in Nat /\ c \in Nat
      BY <1>2, <1>3, OnTheImage, Sizes
    <3>3. row + r \in Nat /\ IMAGE_WIDTH * (row + r) \in Nat
      BY <3>2, Sizes, Monotone
    <3>4. IMAGE_WIDTH * (row + r) = (row + r) * IMAGE_WIDTH
      BY <3>2, Sizes, Z3
    <3> QED
      BY <3>1, <3>2, <3>3, <3>4
  <2> HIDE DEF b, r, c, q, x, y
  <2>6. x + (y + (col + c)) = x + y + (col + c)
    BY <2>5
  <2> QED
    BY <2>3, <2>4, <2>6 DEF x, y
<1> HIDE DEF b, r, c, q, k, i
<1>7. Weighed(m, row, col, TermAt(s)) = kernel[k][i] * Fed(m, k, q + c)
  BY <1>3, <1>4, <1>5, <1>6 DEF Weighed
<1> QED
  BY <1>7 DEF Summand, q, k, i, c

(* Filtered is one of the functions that sum the terms.                    *)
LEMMA FilteredSums ==
  ASSUME NEW row, NEW col
  PROVE  \E g : /\ SumsUp(WeighedTerms(image, row, col), Terms, g)
                /\ Filtered(row, col) = g[Terms]
<1> DEFINE Eq(g) ==
             g = [s \in SUBSET Terms |->
                    IF s = {} THEN 0
                    ELSE Weighed(image, row, col, Any(s)) + g[s \ {Any(s)}]]
<1>1. Filtered(row, col) = (CHOOSE g : Eq(g))[Terms]
  BY DEF Filtered, At, MapThenSumSet, MapThenFoldSet, Any, Weighed, Terms
<1>2. \A s \in SUBSET Terms : s # {} =>
        WeighedTerms(image, row, col)[Any(s)] = Weighed(image, row, col, Any(s))
  BY TermsFinite, AnyIs DEF WeighedTerms
<1>3. ASSUME NEW g
      PROVE  SumsUp(WeighedTerms(image, row, col), Terms, g) <=> Eq(g)
  <2>1. [s \in SUBSET Terms |->
           IF s = {} THEN 0
           ELSE WeighedTerms(image, row, col)[Any(s)] + g[s \ {Any(s)}]]
        = [s \in SUBSET Terms |->
             IF s = {} THEN 0
             ELSE Weighed(image, row, col, Any(s)) + g[s \ {Any(s)}]]
    BY <1>2
  <2> QED
    BY <2>1 DEF SumsUp
<1> HIDE DEF Eq
<1>4. \E g : Eq(g)
  BY <1>3, TermsFinite, SumsUpExists
<1>5. Eq(CHOOSE g : Eq(g))
  BY <1>4
<1> QED
  BY <1>1, <1>3, <1>5

LEMMA FilteredIsLastSum ==
  ASSUME image \in Images,
         NEW row \in 0 .. IMAGE_HEIGHT - groupCount,
         NEW col \in 0 .. IMAGE_WIDTH - peArraySize
  PROVE  Filtered(row, col) =
           PartialSum(image, row * IMAGE_WIDTH + col)[Right!Stages]
<1> DEFINE f == WeighedTerms(image, row, col)
           q == row * IMAGE_WIDTH + col
           h == [s \in 1 .. Right!Stages |-> TermAt(s)]
           p == PartialSum(image, q)
<1>1. PICK g : SumsUp(f, Terms, g) /\ Filtered(row, col) = g[Terms]
  BY FilteredSums
<1>2. q \in Int
  BY OnTheImage
<1>3. ASSUME NEW s \in 1 .. Right!Stages
      PROVE  /\ h[s] \in Terms /\ h[s] = TermAt(s)
             /\ f[h[s]] = Summand(image, q, s) /\ f[h[s]] \in Int
  <2>1. h[s] = TermAt(s) /\ TermAt(s) \in Terms
    BY TermsNumbered
  <2>2. f[TermAt(s)] = Weighed(image, row, col, TermAt(s))
    BY <2>1 DEF WeighedTerms
  <2>3. f[TermAt(s)] = Summand(image, q, s)
    BY <2>2, TermIsSummand
  <2>4. Summand(image, q, s) \in Int
    BY <1>2, SummandType
  <2> HIDE DEF h, f, q
  <2> QED
    BY <2>1, <2>3, <2>4
<1> HIDE DEF f
<1>4. \A s, t \in 1 .. Right!Stages : h[s] = h[t] => s = t
  BY <1>3, TermsNumbered
<1>5. \A t \in Terms : f[t] \in Int
  <2> SUFFICES ASSUME NEW t \in Terms PROVE f[t] \in Int
    OBVIOUS
  <2>1. PICK s \in 1 .. Right!Stages : TermAt(s) = t
    BY TermsNumbered
  <2> QED
    BY <1>3, <2>1
<1>6. Enumerated(h, Right!Stages) = Terms
  <2>1. Enumerated(h, Right!Stages) = {TermAt(s) : s \in 1 .. Right!Stages}
    BY DEF Enumerated
  <2> QED
    BY <2>1, TermsFinite
<1> HIDE DEF q
<1>7. /\ p[0] = 0
      /\ \A s \in 1 .. Right!Stages : p[s] = p[s - 1] + Summand(image, q, s)
  BY <1>2, PartialSumIs
<1> HIDE DEF h, p
<1>8. \A s \in 1 .. Right!Stages : p[s] = p[s - 1] + f[h[s]]
  BY <1>3, <1>7
<1>9. Right!Stages \in Nat /\ Right!Stages \in 0 .. Right!Stages
  BY Sizes
<1>10. \A s \in 1 .. Right!Stages : h[s] \in Terms
  BY <1>3
<1>11. p[0] = 0
  BY <1>7
<1>12. g[Enumerated(h, Right!Stages)] = p[Right!Stages]
  <2>1. \A n \in 0 .. Right!Stages : g[Enumerated(h, n)] = p[n]
    <3> DEFINE N == Right!Stages
    <3>1. SumsUp(f, Terms, g) /\ IsFiniteSet(Terms) /\ N \in Nat
      BY <1>1, <1>9, TermsFinite
    <3>2. Adds(f, Terms, N, h, p)
      BY <1>4, <1>8, <1>10, <1>11 DEF Adds
    <3> HIDE DEF N
    <3>3. \A n \in 0 .. N : g[Enumerated(h, n)] = p[n]
      BY <1>5, <3>1, <3>2, SumInOrder
    <3> QED
      BY <3>3 DEF N
  <2> QED
    BY <1>9, <2>1
<1> QED
  BY <1>1, <1>6, <1>12 DEF p, q

-----------------------------------------------------------------------------
(* The result.                                                             *)

(* The loopback has recorded nothing before the first edge.                *)
NotBegun == edges = 0 => loopback.execute_index = 0

LEMMA NotBegunStep == IInv /\ NotBegun /\ [Next]_vars => NotBegun'
<1> SUFFICES ASSUME IInv, NotBegun, [Next]_vars PROVE NotBegun'
  OBVIOUS
<1>1. \A n \in 0 .. 3 : Partly(LoopbackWait, RESULT, n).execute_index = 0
  <2>1. Cleared.execute_index = 0
    BY DmaFields DEF Cleared, Enter
  <2> QED
    BY <2>1, DmaFields DEF Partly
<1>2. CASE loopback' = loopback /\ edges' = edges
  BY <1>2 DEF NotBegun
<1>3. CASE loopback' = Partly(LoopbackWait, RESULT, 0)
  BY <1>1, <1>3 DEF NotBegun
<1>4. CASE Clock
  <2>1. CASE reset
    BY <1>3, <1>4, <2>1, ClearedStep DEF Clock, IInv
  <2>2. CASE ~reset /\ ~enable
    BY <1>2, <1>4, <2>2, PausedStep DEF Clock, IInv
  <2>3. CASE ~reset /\ enable
    <3>1. Running /\ UpdateRun
      BY <1>4, <2>3 DEF Clock, IInv, Fresh, Loading
    <3>2. /\ edges' = NextEdge(edges)
          /\ edges \in Nat /\ MaxEdges \in Nat /\ MaxEdges > 0
      BY <2>3, <3>1, RunStep, EdgesType, Sizes DEF IInv
    <3> QED
      BY <3>2 DEF NotBegun, NextEdge
  <2> QED
    BY <2>1, <2>2, <2>3
<1>5. CASE AssertReset
  <2>1. CASE reset
    BY <1>2, <1>5, <2>1 DEF AssertReset, hardware, right_vars, loopback_vars
  <2>2. CASE ~reset
    BY <1>3, <1>5, <2>2, ClearedStep DEF AssertReset, IInv
  <2> QED
    BY <2>1, <2>2
<1>6. CASE ReleaseReset
  <2>1. ~enable
    BY <1>6 DEF ReleaseReset, IInv, Fresh, Loading, Running
  <2> QED
    BY <1>2, <1>6, <2>1, PausedStep DEF ReleaseReset, IInv
<1>7. CASE LoadLoopback
  <2>1. pc' = "loading"
    BY <1>7 DEF LoadLoopback
  <2>2. Loading'
    BY <1>7, <2>1, LoadLoopbackStep DEF IInv, Fresh, Running
  <2>3. PICK n \in 0 .. 3 : loopback' = Partly(LoopbackWait, RESULT, n)
    BY <2>2 DEF Loading
  <2> QED
    BY <1>1, <2>3 DEF NotBegun
<1>8. CASE LoadLeft \/ LoadRight \/ LoadWeights \/ StartProcessor
           \/ StopProcessor \/ Abort \/ UNCHANGED vars
  BY <1>2, <1>8
  DEF LoadLeft, Left!LoadDescriptor, LoadRight, Right!LoadDescriptor,
      LoadWeights, Right!LoadWeights, StartProcessor, StopProcessor, Abort,
      vars, hardware, right_vars, loopback_vars, Right!hardware
<1> QED
  BY <1>4, <1>5, <1>6, <1>7, <1>8 DEF Next

(* What has been recorded was recorded at an edge of this run.             *)
LEMMA RecordedWhen ==
  ASSUME IInv, NotBegun, NEW n \in Nat, n < Recorded
  PROVE  LoopbackWait + n < edges /\ n < IMAGE_SIZE
<1>1. /\ edges \in Nat /\ LoopbackWait \in Nat /\ LoopbackWait >= 1
      /\ IMAGE_SIZE \in Nat
  BY EdgesType, WaitsFit, Sizes DEF IInv
<1>2. loopback.execute_index # 0
  BY DEF Recorded
<1>3. edges # 0
  BY <1>2 DEF NotBegun
<1>4. loopback = After(LoopbackWait, RESULT, edges)
  BY <1>3 DEF IInv, Fresh, Loading, Running
<1>5. CASE edges < LoopbackWait
  BY <1>2, <1>4, <1>5, DmaFields DEF After
<1>6. CASE ~(edges < LoopbackWait) /\ edges < LoopbackWait + IMAGE_SIZE
  <2>1. /\ loopback.execute_index = 1
        /\ loopback.x_count_remaining = IMAGE_SIZE - (edges - LoopbackWait)
    BY <1>4, <1>6, DmaFields DEF After
  <2>2. n < IMAGE_SIZE - (IMAGE_SIZE - (edges - LoopbackWait))
    BY <2>1 DEF Recorded
  <2> QED
    BY <1>1, <1>6, <2>2
<1>7. CASE ~(edges < LoopbackWait + IMAGE_SIZE)
  <2>1. loopback.execute_index = 2
    BY <1>1, <1>4, <1>7, DmaFields DEF After
  <2>2. n < IMAGE_SIZE
    BY <2>1 DEF Recorded
  <2> QED
    BY <1>1, <1>7, <2>2
<1> QED
  BY <1>5, <1>6, <1>7

LEMMA DataFiltered == IInv /\ NotBegun /\ DataInv => ResultIsFiltered
<1> SUFFICES ASSUME IInv, NotBegun, DataInv,
                    NEW row \in 0 .. IMAGE_HEIGHT - groupCount,
                    NEW col \in 0 .. IMAGE_WIDTH - peArraySize,
                    row * IMAGE_WIDTH + col + 1 < Recorded
             PROVE  output[RESULT + (row * IMAGE_WIDTH + col + 1)] =
                      Filtered(row, col)
  BY DEF ResultIsFiltered
<1> DEFINE q == row * IMAGE_WIDTH + col
           n == q + 1
<1>1. q \in Nat /\ Fits
  BY OnTheImage
<1>2. n \in Nat /\ n - 1 = q /\ n < Recorded
  <2> HIDE DEF q
  <2>1. n \in Nat /\ n - 1 = q
    BY <1>1
  <2> USE DEF q
  <2> QED
    BY <2>1
<1> HIDE DEF n
<1>3. LoopbackWait + n < edges /\ n \in 0 .. IMAGE_SIZE - 1
  <2>1. LoopbackWait + n < edges /\ n < IMAGE_SIZE
    BY <1>2, RecordedWhen
  <2> QED
    BY <1>2, <2>1, Sizes
<1>4. output[RESULT + n] = PartialSum(image, n - 1)[Right!Stages]
  BY <1>1, <1>3 DEF DataInv, ChainInv, CellsRecorded
<1>5. image \in Images
  BY DEF IInv, TypeOK, Left!TypeOK
<1>6. Filtered(row, col) = PartialSum(image, q)[Right!Stages]
  BY <1>5, FilteredIsLastSum
<1> QED
  BY <1>2, <1>4, <1>6 DEF n, q

(***************************************************************************)
(* Every pixel of the convolution that the loopback has recorded is in its *)
(* cell, for every size of image and kernel and every content of both,     *)
(* whatever was stopped half way before: the programs of the driver and    *)
(* the chain of adders compute the filter, and the sums an earlier run has *)
(* left in the chain are flushed before the first pixel reaches it.        *)
(***************************************************************************)
THEOREM ResultIsFilteredAlways == Spec => []ResultIsFiltered
<1>1. Init => NotBegun
  BY DmaFields DEF Init, NotBegun
<1>2. Spec => []NotBegun
  BY <1>1, Invariant, NotBegunStep, PTL DEF Spec
<1> QED
  BY <1>2, DataInvariant, DataFiltered, PTL

(***************************************************************************)
(* What an earlier run has left in the signals that join groups and        *)
(* branches is gone after the edges of one pass through a branch: a method *)
(* that is only woken by a change has by then seen one, for every size of  *)
(* the array whose branches are done before the first pixel arrives.       *)
(***************************************************************************)
THEOREM JointsAreFlushed ==
  ASSUME Fits
  PROVE  Spec => []Right!StaleSumsFlushed
<1>1. IInv /\ DataInv => Right!StaleSumsFlushed
  <2> SUFFICES ASSUME DataInv, edges >= Window, IInv
               PROVE  /\ \A b \in Right!Branch :
                           cloudFirst[b] = Right!CloudPsumIn(pe, b)
                      /\ \A k \in Right!Group :
                           psumFirst[k] = Right!PsumIn(pe, cloudFirst, k)
    BY DEF Right!StaleSumsFlushed, Window
  <2>1. ~(edges < Window) /\ ~(edges < peArraySize)
    BY WindowType, EdgesType, Sizes DEF IInv
  <2>2. GroupsJoined /\ BranchesJoined
    BY DEF DataInv, ChainInv
  <2> QED
    BY <2>1, <2>2 DEF GroupsJoined, BranchesJoined, StaleGroup, StaleBranch,
       Right!PsumIn
<1> QED
  BY <1>1, DataInvariant, PTL
=============================================================================
