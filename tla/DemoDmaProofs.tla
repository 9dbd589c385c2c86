----------------------------- MODULE DemoDmaProofs -----------------------------
(***************************************************************************)
(* Proofs about DemoDma, for every buffer size, set of copies, number of   *)
(* programmings and number of edges of transfer_ready.                     *)
(***************************************************************************)
EXTENDS DemoDma, Integers, TLAPS

(***************************************************************************)
(* Types.                                                                  *)
(***************************************************************************)
LEMMA Sizes ==
  /\ Word \in Nat /\ Burst \in Nat /\ 0 < Burst /\ Burst < Word
  /\ MaxPrograms \in Nat /\ MaxChanges \in Nat
BY DemoDmaAssumption

LEMMA InRange ==
  ASSUME NEW n \in Nat
  PROVE  /\ 0 \in 0 .. n
         /\ \A i \in 0 .. n : i \in Nat /\ (i < n => i + 1 \in 0 .. n)
OBVIOUS

LEMMA ZeroType == 0 \in UInt
BY Sizes DEF UInt

LEMMA Wraps == \A x \in Nat : x % Word \in UInt
BY DemoDmaAssumption DEF UInt

LEMMA MovedType ==
  ASSUME NEW r \in Job, NEW n \in 0 .. Burst
  PROVE  Moved(r, n) \in Job
<1>1. r.src_addr + n \in Nat /\ r.dst_addr + n \in Nat
         /\ r.len + Word - n \in Nat
  BY DemoDmaAssumption DEF Job, UInt
<1> QED
  BY <1>1, Wraps DEF Moved, Job

LEMMA BytesType ==
  ASSUME NEW to \in UInt, NEW from \in UInt, NEW n \in Nat
  PROVE  Bytes(to, from, n) \subseteq UInt \X UInt
<1>1. \A i \in 0 .. n - 1 : to + i \in Nat /\ from + i \in Nat
  BY DEF UInt
<1> QED
  BY <1>1, Wraps DEF Bytes

LEMMA BodyType ==
  ASSUME TypeOK, Body
  PROVE  /\ thread' \in {"reading", "waiting", "delay"}
         /\ burst' \in [from: UInt, to: UInt, tlen: 0 .. Burst]
         /\ run' \in BOOLEAN /\ done' \in BOOLEAN /\ job' \in Job
<1>1. CASE run /\ regs.len > 0 /\ thread' = "reading"
  <2>1. regs.src_addr \in UInt /\ regs.len \in Nat /\ 0 \in UInt
    <3>1. regs.src_addr \in UInt /\ regs.len \in UInt
      BY DEF TypeOK, Job
    <3> QED
      BY <3>1, ZeroType DEF UInt
  <2>2. (IF regs.len > Burst THEN Burst ELSE regs.len) \in 0 .. Burst
    BY <2>1, Sizes
  <2>3. burst' \in [from: UInt, to: UInt, tlen: 0 .. Burst]
    BY <1>1, <2>1, <2>2 DEF Body
  <2> QED
    BY <1>1, <2>3 DEF Body, control, TypeOK
<1>2. CASE ~(run /\ regs.len > 0 /\ thread' = "reading")
  BY <1>2 DEF Body, control, TypeOK
<1> QED
  BY <1>1, <1>2

LEMMA NextType == TypeOK /\ [Next]_vars => TypeOK'
<1> SUFFICES ASSUME TypeOK, [Next]_vars PROVE TypeOK'
  OBVIOUS
<1> USE DEF TypeOK, copying, control, environment
<1>1. CASE EventOccurs
  <2>1. /\ thread' \in {"reading", "writing", "waiting", "delay"}
        /\ burst' \in [from: UInt, to: UInt, tlen: 0 .. Burst]
        /\ run' \in BOOLEAN /\ done' \in BOOLEAN /\ job' \in Job
    BY <1>1, BodyType DEF EventOccurs
  <2>2. irq' \in BOOLEAN
    BY <1>1, <2>1 DEF EventOccurs, UpdateIrqs
  <2> QED
    BY <1>1, <2>1, <2>2 DEF EventOccurs
<1>2. CASE ReadReturns
  <2>1. burst' \in [from: UInt, to: UInt, tlen: 0 .. Burst]
    BY <1>2 DEF ReadReturns, Job
  <2> QED
    BY <1>2, <2>1 DEF ReadReturns
<1>3. CASE WriteReturns
  <2>1. regs' \in Job
    BY <1>3, MovedType DEF WriteReturns
  <2>2. Bytes(burst.to, burst.from, burst.tlen) \subseteq UInt \X UInt
    <3>1. burst.to \in UInt /\ burst.from \in UInt /\ burst.tlen \in Nat
      BY Sizes, InRange
    <3> QED
      BY <3>1, BytesType
  <2>3. written' \subseteq UInt \X UInt
    BY <1>3, <2>2 DEF WriteReturns
  <2> QED
    BY <1>3, <2>1, <2>3 DEF WriteReturns, UpdateIrqs
<1>4. CASE DelayEnds
  <2>1. /\ thread' \in {"reading", "waiting", "delay"}
        /\ burst' \in [from: UInt, to: UInt, tlen: 0 .. Burst]
        /\ run' \in BOOLEAN /\ done' \in BOOLEAN /\ job' \in Job
    BY <1>4, BodyType DEF DelayEnds
  <2>2. irq' \in BOOLEAN
    BY <1>4 DEF DelayEnds
  <2> QED
    BY <1>4, <2>1, <2>2 DEF DelayEnds
<1>5. CASE ReadyRises
  <2>1. changes' \in 0 .. MaxChanges
    <3>1. changes \in 0 .. MaxChanges /\ changes < MaxChanges
             /\ changes' = changes + 1
      BY <1>5 DEF ReadyRises
    <3> QED
      BY <3>1, Sizes, InRange
  <2> QED
    BY <1>5, <2>1 DEF ReadyRises, Begin
<1>6. CASE ReadyFalls
  <2>1. changes' \in 0 .. MaxChanges
    <3>1. changes \in 0 .. MaxChanges /\ changes < MaxChanges
             /\ changes' = changes + 1
      BY <1>6 DEF ReadyFalls
    <3> QED
      BY <3>1, Sizes, InRange
  <2> QED
    BY <1>6, <2>1 DEF ReadyFalls
<1>7. CASE Program
  <2>1. programs' \in 0 .. MaxPrograms
    <3>1. programs \in 0 .. MaxPrograms /\ programs < MaxPrograms
             /\ programs' = programs + 1
      BY <1>7 DEF Program
    <3> QED
      BY <3>1, Sizes, InRange
  <2> QED
    BY <1>7, <2>1 DEF Program
<1>8. CASE WriteDst \/ WriteSrc \/ WriteLen
  <2>1. planned \in Job
    BY DemoDmaAssumption
  <2>2. regs' \in Job
    BY <1>8, <2>1 DEF WriteDst, WriteSrc, WriteLen, WriteRegister, Job
  <2>3. clobbered' \in BOOLEAN
    BY <1>8 DEF WriteDst, WriteSrc, WriteLen, WriteRegister, Busy
  <2> QED
    BY <1>8, <2>2, <2>3 DEF WriteDst, WriteSrc, WriteLen, WriteRegister
<1>9. CASE WriteCtrl
  BY <1>9 DEF WriteCtrl, Begin
<1>10. CASE SpeculativeReadReturns
  BY <1>10 DEF SpeculativeReadReturns
<1>11. CASE UNCHANGED vars
  BY <1>11, ZenonT(90) DEF vars
<1> QED
  BY <1>1, <1>2, <1>3, <1>4, <1>5, <1>6, <1>7, <1>8, <1>9, <1>10, <1>11
     DEF Next

(***************************************************************************)
(* The registers stay 32-bit words and a burst never exceeds the buffer    *)
(* of do_dma_copy, whatever the software writes between two bursts.        *)
(***************************************************************************)
THEOREM DemoDmaTypeCorrect == Spec => []TypeOK
<1>1. Init => TypeOK
  <2> SUFFICES ASSUME Init PROVE TypeOK
    OBVIOUS
  <2>1. regs \in Job
    BY ZeroType DEF Init, Job
  <2>2. burst \in [from: UInt, to: UInt, tlen: 0 .. Burst]
    <3>1. burst = [from |-> 0, to |-> 0, tlen |-> 0]
      BY DEF Init
    <3> QED
      BY <3>1, ZeroType, Sizes, InRange
  <2>3. programs \in 0 .. MaxPrograms /\ changes \in 0 .. MaxChanges
    <3>1. programs = 0 /\ changes = 0
      BY DEF Init
    <3> QED
      BY <3>1, Sizes, InRange
  <2> QED
    BY <2>1, <2>2, <2>3 DEF Init, TypeOK
<1> QED
  BY <1>1, NextType, PTL DEF Spec

(***************************************************************************)
(* NoLostWakeup is inductive as it stands: a thread comes to wait only     *)
(* with RUN clear, RUN is set only together with the event or on the way   *)
(* to notifying it, and an event that occurs wakes a waiting thread.       *)
(***************************************************************************)
LEMMA NextKeepsWakeup ==
  NoLostWakeup /\ [Next]_vars => NoLostWakeup'
<1> SUFFICES ASSUME NoLostWakeup, [Next]_vars PROVE NoLostWakeup'
  OBVIOUS
<1> USE DEF NoLostWakeup
<1>1. CASE EventOccurs
  <2>1. CASE Body /\ (thread' = "waiting" => ~run')
    BY <1>1, <2>1 DEF EventOccurs, Body
  <2>2. Body => (thread' = "waiting" => ~run')
    BY DEF Body, control
  <2>3. CASE thread = "not started" /\ ~run /\ run' = run
    BY <2>3
  <2>4. CASE thread' = thread /\ thread \in {"reading", "writing", "delay"}
    BY <2>4
  <2> QED
    BY <1>1, <2>1, <2>2, <2>3, <2>4 DEF EventOccurs, control
<1>2. CASE ReadReturns
  BY <1>2 DEF ReadReturns
<1>3. CASE WriteReturns
  BY <1>3 DEF WriteReturns
<1>4. CASE DelayEnds
  BY <1>4 DEF DelayEnds, Body, control
<1>5. CASE ReadyRises
  BY <1>5 DEF ReadyRises
<1>6. CASE ReadyFalls
  BY <1>6 DEF ReadyFalls
<1>7. CASE Program
  BY <1>7 DEF Program, control
<1>8. CASE WriteDst \/ WriteSrc \/ WriteLen
  BY <1>8 DEF WriteDst, WriteSrc, WriteLen, WriteRegister, control
<1>9. CASE WriteCtrl
  BY <1>9 DEF WriteCtrl
<1>10. CASE SpeculativeReadReturns
  BY <1>10 DEF SpeculativeReadReturns
<1>11. CASE UNCHANGED vars
  BY <1>11 DEF vars, control, environment
<1> QED
  BY <1>1, <1>2, <1>3, <1>4, <1>5, <1>6, <1>7, <1>8, <1>9, <1>10, <1>11
     DEF Next

(***************************************************************************)
(* No interleaving of the thread, the bus access of the software and the   *)
(* edges of transfer_ready loses the notification of a copy.               *)
(***************************************************************************)
THEOREM WakeupIsNeverLost == Spec => []NoLostWakeup
<1>1. Init => NoLostWakeup
  BY DEF Init, NoLostWakeup
<1> QED
  BY <1>1, NextKeepsWakeup, PTL DEF Spec

(***************************************************************************)
(* Arithmetic of addresses.                                                *)
(***************************************************************************)
LEMMA WrapsOnce ==
  ASSUME NEW w \in Nat \ {0}, NEW a \in Nat, a < 2 * w, NEW b \in Nat, b < w
  PROVE  ((a % w) + b) % w = (a + b) % w
<1>1. CASE a < w
  <2>1. a % w = a
    BY <1>1
  <2> QED
    BY <2>1
<1>2. CASE w <= a
  <2> DEFINE c == a - w
  <2>1. a % w = c
    BY <1>2
  <2>2. /\ c \in Nat /\ c + b \in Nat /\ a + b \in Nat
        /\ a + b = c + b + w /\ c + b < 2 * w
    BY <1>2
  <2> HIDE DEF c
  <2>3. CASE c + b < w
    <3>1. (c + b) % w = c + b
      BY <2>2, <2>3
    <3>2. (a + b) % w = a + b - w
      BY <2>2, <2>3
    <3> QED
      BY <2>1, <2>2, <3>1, <3>2
  <2>4. CASE c + b >= w
    <3>1. (c + b) % w = c + b - w
      BY <2>2, <2>4
    <3>2. (a + b) % w = a + b - 2 * w
      BY <2>2, <2>4
    <3> QED
      BY <2>1, <2>2, <3>1, <3>2
  <2> QED
    BY <2>2, <2>3, <2>4
<1> QED
  BY <1>1, <1>2

LEMMA Remainder ==
  ASSUME NEW w \in Nat \ {0}, NEW a \in Nat, a < w, NEW b \in Nat, b <= a
  PROVE  (a + w - b) % w = a - b
<1>1. a + w - b \in Nat /\ a + w - b >= w /\ a + w - b < 2 * w
  OBVIOUS
<1>2. \A x \in Nat : x >= w /\ x < 2 * w => x % w = x - w
  OBVIOUS
<1>3. (a + w - b) % w = a + w - b - w
  BY <1>1, <1>2
<1> QED
  BY <1>3

LEMMA UIntMeans ==
  /\ Word \in Nat \ {0}
  /\ \A x \in UInt : x \in Nat /\ x < Word /\ x % Word = x
BY Sizes DEF UInt

LEMMA Remains ==
  ASSUME NEW a \in UInt, NEW b \in UInt, b <= a
  PROVE  (a + Word - b) % Word = a - b
BY UIntMeans, Remainder

LEMMA WrapsAgain ==
  ASSUME NEW x \in UInt, NEW m \in UInt, NEW n \in UInt
  PROVE  (((x + m) % Word) + n) % Word = (x + (m + n)) % Word
<1> DEFINE a == x + m
<1>1. /\ Word \in Nat \ {0} /\ a \in Nat /\ a < 2 * Word
      /\ n \in Nat /\ n < Word /\ a + n = x + (m + n)
  BY UIntMeans
<1> HIDE DEF a
<1>2. ((a % Word) + n) % Word = (a + n) % Word
  BY <1>1, WrapsOnce
<1>3. ((a % Word) + n) % Word = (x + (m + n)) % Word
  BY <1>1, <1>2
<1> QED
  BY <1>3 DEF a

LEMMA Fields ==
  ASSUME TypeOK
  PROVE  /\ regs.src_addr \in UInt /\ regs.dst_addr \in UInt
         /\ regs.len \in UInt
         /\ job.src_addr \in UInt /\ job.dst_addr \in UInt
         /\ job.len \in UInt
         /\ burst.tlen \in UInt
<1>1. regs \in Job /\ job \in Job /\ burst.tlen \in 0 .. Burst
  BY DEF TypeOK
<1>2. burst.tlen \in UInt
  BY <1>1, Sizes DEF UInt
<1> QED
  BY <1>1, <1>2 DEF Job

(* What two bursts copy, the second where the first one ended.             *)
LEMMA BytesJoin ==
  ASSUME NEW d \in UInt, NEW s \in UInt, NEW m \in UInt, NEW n \in UInt
  PROVE  Bytes(d, s, m) \cup Bytes((d + m) % Word, (s + m) % Word, n)
           = Bytes(d, s, m + n)
<1>1. m \in Nat /\ n \in Nat /\ n < Word
  BY UIntMeans
<1>2. \A x \in UInt, i \in 0 .. n - 1 :
        (((x + m) % Word) + i) % Word = (x + (m + i)) % Word
  <2>1. \A i \in 0 .. n - 1 : i \in UInt
    BY <1>1, Sizes DEF UInt
  <2> QED
    BY <2>1, WrapsAgain
<1>3. Bytes((d + m) % Word, (s + m) % Word, n)
        = {<<(d + (m + i)) % Word, (s + (m + i)) % Word>> : i \in 0 .. n - 1}
  BY <1>2 DEF Bytes
<1>4. ASSUME NEW b
      PROVE  b \in Bytes(d, s, m + n) <=>
               \/ b \in Bytes(d, s, m)
               \/ \E i \in 0 .. n - 1 :
                    b = <<(d + (m + i)) % Word, (s + (m + i)) % Word>>
  <2>1. ASSUME NEW k \in 0 .. (m + n) - 1
        PROVE  k \in 0 .. m - 1 \/ \E i \in 0 .. n - 1 : k = m + i
    <3>1. CASE k < m
      BY <1>1, <3>1
    <3>2. CASE k >= m
      <4>1. k - m \in 0 .. n - 1 /\ k = m + (k - m)
        BY <1>1, <3>2
      <4> QED
        BY <4>1
    <3> QED
      BY <1>1, <3>1, <3>2
  <2>2. /\ \A k \in 0 .. m - 1 : k \in 0 .. (m + n) - 1
        /\ \A i \in 0 .. n - 1 : m + i \in 0 .. (m + n) - 1
    BY <1>1
  <2> DEFINE At(k) == <<(d + k) % Word, (s + k) % Word>>
  <2>3. \A l : b \in Bytes(d, s, l) <=> \E k \in 0 .. l - 1 : b = At(k)
    BY Zenon DEF Bytes
  <2> HIDE DEF At
  <2>4. (\E k \in 0 .. (m + n) - 1 : b = At(k))
          <=> \/ \E k \in 0 .. m - 1 : b = At(k)
              \/ \E i \in 0 .. n - 1 : b = At(m + i)
    BY <2>1, <2>2
  <2>5. b \in Bytes(d, s, m + n) <=>
          b \in Bytes(d, s, m) \/ \E i \in 0 .. n - 1 : b = At(m + i)
    BY <2>3, <2>4, Zenon
  <2> QED
    BY <2>5, Zenon DEF At
<1> QED
  BY <1>3, <1>4

(***************************************************************************)
(* CopiesExactly without the modulus, and what a burst that is under way   *)
(* has to do with the registers: nobody touches them during one.           *)
(***************************************************************************)
Exact ==
  LET moved == job.len - regs.len
  IN  /\ regs.len <= job.len
      /\ written = Bytes(job.dst_addr, job.src_addr, moved)
      /\ regs.src_addr = (job.src_addr + moved) % Word
      /\ regs.dst_addr = (job.dst_addr + moved) % Word

InFlight ==
  /\ burst.from = regs.src_addr /\ burst.tlen <= regs.len
  /\ thread = "writing" => burst.to = regs.dst_addr

CopyInv ==
  ~clobbered => /\ Busy => Exact
                /\ thread \in {"reading", "writing"} => InFlight

LEMMA ExactMeans ==
  ASSUME TypeOK PROVE (~clobbered /\ Busy => Exact) <=> CopiesExactly
<1>2. regs.len <= job.len =>
        (job.len + Word - regs.len) % Word = job.len - regs.len
  BY Fields, Remains
<1> QED
  BY <1>2 DEF Exact, CopiesExactly

(* A copy that begins has copied nothing.                                  *)
LEMMA BeginsExact ==
  ASSUME TypeOK, Begin, regs' = regs PROVE Exact'
<1>1. /\ regs.len \in Nat /\ regs.src_addr \in Nat /\ regs.dst_addr \in Nat
      /\ regs.src_addr < Word /\ regs.dst_addr < Word /\ Word \in Nat \ {0}
  BY Fields, UIntMeans
<1>2. regs.len - regs.len = 0 /\ regs.len <= regs.len
  BY <1>1
<1>3. /\ (regs.src_addr + 0) % Word = regs.src_addr
      /\ (regs.dst_addr + 0) % Word = regs.dst_addr
  BY <1>1
<1>4. Bytes(regs.dst_addr, regs.src_addr, 0) = {}
  BY DEF Bytes
<1>5. job' = regs /\ written' = {}
  BY DEF Begin
<1> QED
  BY <1>2, <1>3, <1>4, <1>5 DEF Exact

(* The body of the loop starts a burst at the registers.                   *)
LEMMA BodyKeepsCopy ==
  ASSUME TypeOK, CopyInv, Body, run \/ thread = "waiting",
         regs' = regs, written' = written, clobbered' = clobbered
  PROVE  CopyInv'
<1>1. CASE ~run
  BY <1>1 DEF CopyInv, Body, Busy, control
<1>2. CASE run /\ regs.len > 0
  <2>1. /\ thread' \in {"reading", "delay"} /\ job' = job
        /\ thread' = "reading" =>
             /\ burst'.from = regs.src_addr
             /\ burst'.tlen = IF regs.len > Burst THEN Burst ELSE regs.len
    <3>1. ~(regs.len = 0)
      BY <1>2, Fields, UIntMeans
    <3>2. /\ thread' = "reading" /\ UNCHANGED <<run, done, job>>
          /\ burst' = [from |-> regs.src_addr, to |-> 0,
                       tlen |-> IF regs.len > Burst THEN Burst ELSE regs.len]
      BY <1>2, <3>1, Zenon DEF Body, control
    <3> QED
      BY <3>2
  <2>2. (IF regs.len > Burst THEN Burst ELSE regs.len) <= regs.len
    BY Fields, UIntMeans, Sizes
  <2>3. ~clobbered => Exact
    BY <1>2 DEF CopyInv, Busy
  <2>4. thread' = "reading" => InFlight'
    BY <2>1, <2>2 DEF InFlight
  <2> QED
    BY <2>1, <2>3, <2>4 DEF CopyInv, Exact
<1>3. CASE run /\ ~(regs.len > 0)
  BY <1>3 DEF CopyInv, Body, Busy, control
<1> QED
  BY <1>1, <1>2, <1>3

(* A burst that is written is the next part of the copy.                   *)
LEMMA WriteKeepsCopy ==
  ASSUME TypeOK, CopyInv, WriteReturns PROVE CopyInv'
<1> SUFFICES ASSUME ~clobbered PROVE Exact'
  BY DEF CopyInv, WriteReturns
<1> DEFINE n == burst.tlen
           m == job.len - regs.len
<1>1. /\ Exact /\ burst.from = regs.src_addr /\ burst.to = regs.dst_addr
      /\ n <= regs.len
  BY DEF CopyInv, InFlight, Busy, WriteReturns
<1>2. /\ regs.len \in UInt /\ job.len \in UInt /\ n \in UInt
      /\ job.src_addr \in UInt /\ job.dst_addr \in UInt
  BY Fields
<1>3. /\ m \in UInt /\ regs.len - n \in Nat /\ m + n = job.len - (regs.len - n)
      /\ regs.len - n <= job.len
  BY <1>1, <1>2, Sizes DEF Exact, UInt
<1>4. regs'.len = regs.len - n
  BY <1>1, <1>2, Remains DEF WriteReturns, Moved
<1>5. \A x \in UInt : (((x + m) % Word) + n) % Word = (x + (m + n)) % Word
  <2> HIDE DEF n, m
  <2> QED
    BY <1>2, <1>3, WrapsAgain
<1>6. /\ regs'.src_addr = (job.src_addr + (m + n)) % Word
      /\ regs'.dst_addr = (job.dst_addr + (m + n)) % Word
  BY <1>1, <1>2, <1>5 DEF Exact, WriteReturns, Moved
<1>7. written' = Bytes(job.dst_addr, job.src_addr, m + n)
  BY <1>1, <1>2, <1>3, BytesJoin DEF Exact, WriteReturns
<1>8. job' = job
  BY DEF WriteReturns
<1> QED
  BY <1>3, <1>4, <1>6, <1>7, <1>8 DEF Exact

LEMMA NextKeepsCopy ==
  TypeOK /\ CopyInv /\ [Next]_vars => CopyInv'
<1> SUFFICES ASSUME TypeOK, CopyInv, [Next]_vars PROVE CopyInv'
  OBVIOUS
<1>1. CASE EventOccurs
  <2>1. CASE Body /\ (thread = "waiting" \/ run)
    BY <1>1, <2>1, BodyKeepsCopy DEF EventOccurs
  <2>2. CASE thread = "not started" /\ ~run /\ thread' = "waiting"
    BY <1>1, <2>2 DEF EventOccurs, CopyInv, Busy, control
  <2>3. CASE thread \in {"reading", "writing", "delay"}
             /\ UNCHANGED <<irq, thread, burst, control>>
    BY <1>1, <2>3 DEF EventOccurs, CopyInv, Busy, Exact, InFlight, control
  <2> QED
    BY <1>1, <2>1, <2>2, <2>3 DEF EventOccurs
<1>2. CASE ReadReturns
  <2>1. /\ burst'.from = burst.from /\ burst'.tlen = burst.tlen
        /\ burst'.to = regs.dst_addr
    BY <1>2 DEF ReadReturns, TypeOK
  <2> QED
    BY <1>2, <2>1 DEF ReadReturns, CopyInv, Busy, Exact, InFlight, control
<1>3. CASE WriteReturns
  BY <1>3, WriteKeepsCopy
<1>4. CASE DelayEnds
  <2>1. CASE run /\ Body
    BY <1>4, <2>1, BodyKeepsCopy DEF DelayEnds
  <2>2. CASE ~run /\ thread' = "waiting" /\ UNCHANGED <<burst, control>>
    BY <1>4, <2>2 DEF DelayEnds, CopyInv, Busy, control
  <2> QED
    BY <1>4, <2>1, <2>2 DEF DelayEnds
<1>5. CASE ReadyRises
  BY <1>5, BeginsExact DEF ReadyRises, CopyInv, InFlight
<1>6. CASE ReadyFalls
  BY <1>6 DEF ReadyFalls, CopyInv, Busy, Exact, InFlight, copying
<1>7. CASE Program
  BY <1>7 DEF Program, CopyInv, Busy, Exact, InFlight, control, copying
<1>8. CASE WriteDst \/ WriteSrc \/ WriteLen
  BY <1>8 DEF WriteDst, WriteSrc, WriteLen, WriteRegister, CopyInv, Busy,
              control, copying
<1>9. CASE WriteCtrl
  BY <1>9, BeginsExact DEF WriteCtrl, CopyInv, InFlight
<1>10. CASE SpeculativeReadReturns
  BY <1>10 DEF SpeculativeReadReturns, CopyInv, Busy, Exact, InFlight,
               control, copying
<1>11. CASE UNCHANGED vars
  BY <1>11 DEF vars, CopyInv, Busy, Exact, InFlight, control, copying
<1> QED
  BY <1>1, <1>2, <1>3, <1>4, <1>5, <1>6, <1>7, <1>8, <1>9, <1>10, <1>11
     DEF Next

(***************************************************************************)
(* A copy that the software leaves alone moves every byte once, to its     *)
(* place, for every length, address and buffer, wherever it is stopped and *)
(* started again.                                                          *)
(***************************************************************************)
THEOREM CopiesAreExact == Spec => []CopiesExactly
<1>1. Init => CopyInv
  BY DEF Init, CopyInv, Busy
<1>2. TypeOK /\ CopyInv => CopiesExactly
  BY ExactMeans DEF CopyInv
<1> QED
  BY <1>1, <1>2, NextKeepsCopy, DemoDmaTypeCorrect, PTL DEF Spec
=============================================================================
