---------------------------- MODULE PlatformProofs ----------------------------
(***************************************************************************)
(* Proofs about the parts of the platform around the accelerator:          *)
(* SocketWrappers, for every program, every set of weights, every way to   *)
(* split a descriptor into stores and every number of runs; and, as the    *)
(* instance Bus, PlatformBus, for every map whose narrower windows come    *)
(* first and every set of transactions that write inside them.             *)
(***************************************************************************)
EXTENDS SocketWrappers, Integers, SequenceTheorems, WellFoundedInduction, TLAPS

CONSTANTS
  Windows, N_TARGETS, Garbage, Initiators, target_offset, Transactions, Ranges,
  MemSize     (* The constants of the bus.                                 *)

VARIABLES
  map, mapped, mmr, enable, reset, mem, irq, trans, grant,
  flat            (* Its variables.                                        *)

Bus == INSTANCE PlatformBus WITH Accesses <- Transactions

(***************************************************************************)
(* Sequences.                                                              *)
(***************************************************************************)
LEMMA AppendKeeps ==
  ASSUME NEW S, NEW s \in Seq(S), NEW x \in S
  PROVE  /\ Append(s, x) \in Seq(S) /\ Len(Append(s, x)) = Len(s) + 1
         /\ \A i \in 1 .. Len(s) : Append(s, x)[i] = s[i]
         /\ Append(s, x)[Len(s) + 1] = x
BY AppendProperties

(* The head of a vector that is long enough is not changed at its end.     *)
LEMMA LoadWeightsStays ==
  ASSUME NEW S, NEW s \in Seq(S), NEW x \in S, Len(s) >= MAX_WEIGHTS
  PROVE  LoadWeights(Append(s, x)) = LoadWeights(s)
<1>1. /\ Append(s, x) \in Seq(S) /\ Len(Append(s, x)) = Len(s) + 1
      /\ \A i \in 1 .. Len(s) : Append(s, x)[i] = s[i]
  BY AppendKeeps
<1>2. Len(s) \in Nat
  BY LenProperties
<1>3. \A i \in 1 .. MAX_WEIGHTS : s[i] \in S /\ Append(s, x)[i] = s[i]
  BY <1>1, <1>2, ElementOfSeq DEF MAX_WEIGHTS
<1>4. /\ LoadWeights(s) \in Seq(S) /\ Len(LoadWeights(s)) = MAX_WEIGHTS
      /\ \A i \in 1 .. MAX_WEIGHTS : LoadWeights(s)[i] = s[i]
  BY <1>3, SubSeqProperties DEF LoadWeights, MAX_WEIGHTS
<1>5. /\ LoadWeights(Append(s, x)) \in Seq(S)
      /\ Len(LoadWeights(Append(s, x))) = MAX_WEIGHTS
      /\ \A i \in 1 .. MAX_WEIGHTS : LoadWeights(Append(s, x))[i] = s[i]
  BY <1>3, SubSeqProperties DEF LoadWeights, MAX_WEIGHTS
<1> QED
  BY <1>4, <1>5, SeqEqual

LEMMA LoadWeightsType ==
  ASSUME NEW S, NEW s \in Seq(S), Len(s) >= MAX_WEIGHTS
  PROVE  LoadWeights(s) \in [1 .. MAX_WEIGHTS -> S]
<1>1. \A i \in 1 .. MAX_WEIGHTS : s[i] \in S
  BY ElementOfSeq, LenProperties DEF MAX_WEIGHTS
<1>2. LoadWeights(s) \in Seq(S) /\ Len(LoadWeights(s)) = MAX_WEIGHTS
  BY <1>1, SubSeqProperties DEF LoadWeights, MAX_WEIGHTS
<1> QED
  BY <1>2, LenProperties

-----------------------------------------------------------------------------
(* Types, how far the driver has come, and what the weight socket has      *)
(* counted: the first three weights and, after them, only that there were  *)
(* three.                                                                  *)

InOrder ==
  /\ driver = "reset" => sent = 0 /\ done = 0
  /\ driver = "descriptors" => sent < Len(program) /\ done < Len(accesses)
  /\ driver = "weights" => sent = Len(program) /\ done < MAX_WEIGHTS
  /\ driver = "ready" => sent = Len(program)

Weight == Sets \X (1 .. MAX_WEIGHTS)
FirstSet ==
  /\ Len(weights) < MAX_WEIGHTS =>
       message_count = Len(weights) /\ group = Unset
  /\ Len(weights) >= MAX_WEIGHTS => group = LoadWeights(weights)

Ordered == TypeOK /\ InOrder /\ FirstSet

LEMMA PlanType ==
  ASSUME SocketConstants, program \in Programs, accesses \in Accesses
  PROVE  /\ program \in Seq(Descriptor) /\ Len(program) \in Nat \ {0}
         /\ accesses \in Seq(Access) /\ Len(accesses) \in Nat \ {0}
<1>1. /\ program \in Seq(Descriptor) /\ program # <<>>
      /\ accesses \in Seq(Access) /\ accesses # <<>>
  BY DEF SocketConstants
<1> QED
  BY <1>1, EmptySeq

LEMMA InitType ==
  ASSUME SocketConstants, Init
  PROVE  Ordered
<1>1. data_buf \in Buffer
  BY DEF Init, Buffer
<1>2. loaded \in Seq(Buffer) /\ weights \in Seq(Sets \X (1 .. MAX_WEIGHTS))
  BY EmptySeq DEF Init
<1>3. Len(program) \in Nat
  BY PlanType DEF Init
<1> QED
  BY <1>1, <1>2, <1>3, EmptySeq
     DEF Init, TypeOK, InOrder, MAX_WEIGHTS, SocketConstants, Ordered, FirstSet

LEMMA LoadIfEndType ==
  ASSUME TypeOK, NEW a, NEW buf \in Buffer, LoadIfEnd(a, buf)
  PROVE  loaded' \in Seq(Buffer)
BY AppendKeeps DEF LoadIfEnd, TypeOK

LEMMA SendDescriptorType ==
  ASSUME SocketConstants, TypeOK, InOrder, SendDescriptor
  PROVE  TypeOK' /\ InOrder'
<1>1. /\ driver = "descriptors" /\ sent \in Nat /\ sent < Len(program)
      /\ done \in Nat /\ done < Len(accesses)
  BY PlanType DEF SendDescriptor, TypeOK, InOrder
<1>2. Len(program) \in Nat /\ Len(accesses) \in Nat \ {0}
  BY PlanType DEF TypeOK
<1>3. program[sent + 1] \in Descriptor
  BY <1>1, <1>2, PlanType, ElementOfSeq DEF TypeOK
<1>4. data_buf' \in Buffer
  <2>1. \A w \in 0 .. DescriptorWords - 1 :
          <<program[sent + 1], w>> \in Word
    BY <1>3 DEF Word
  <2> QED
    BY <2>1 DEF SendDescriptor, WriteDescriptorSocket, Buffer, TypeOK
<1>5. loaded' \in Seq(Buffer)
  BY <1>4, LoadIfEndType DEF SendDescriptor, WriteDescriptorSocket
<1>6. UNCHANGED <<weights, message_count, group, program, set, accesses, runs>>
  BY DEF SendDescriptor, plan
<1>7. CASE done + 1 < Len(accesses)
  <2>1. done' = done + 1 /\ UNCHANGED <<sent, driver>>
    BY <1>7 DEF SendDescriptor
  <2> QED
    BY <1>1, <1>2, <1>4, <1>5, <1>6, <1>7, <2>1 DEF TypeOK, InOrder
<1>8. CASE ~(done + 1 < Len(accesses))
  <2>1. /\ done' = 0 /\ sent' = sent + 1
        /\ driver' = IF sent' = Len(program) THEN "weights" ELSE driver
    BY <1>8 DEF SendDescriptor
  <2>2. sent' \in 0 .. Len(program)
    BY <1>1, <1>2, <2>1
  <2>3. CASE sent' = Len(program)
    BY <1>4, <1>5, <1>6, <2>1, <2>2, <2>3 DEF TypeOK, InOrder, MAX_WEIGHTS
  <2>4. CASE sent' # Len(program)
    BY <1>1, <1>2, <1>4, <1>5, <1>6, <2>1, <2>2, <2>4 DEF TypeOK, InOrder
  <2> QED
    BY <2>3, <2>4
<1> QED
  BY <1>7, <1>8

LEMMA WriteWeightSocketType ==
  ASSUME TypeOK, FirstSet, NEW w \in Weight, WriteWeightSocket(w)
  PROVE  /\ weights' \in Seq(Weight) /\ message_count' \in 0 .. MAX_WEIGHTS - 1
         /\ group' \in {Unset} \cup [1 .. MAX_WEIGHTS -> Weight]
         /\ FirstSet'
         /\ group # Unset => group' = group
<1>1. /\ weights \in Seq(Weight) /\ Len(weights) \in Nat
      /\ message_count \in 0 .. MAX_WEIGHTS - 1
  BY LenProperties DEF TypeOK, Weight
<1>2. /\ weights' = Append(weights, w) /\ weights' \in Seq(Weight)
      /\ Len(weights') = Len(weights) + 1
  BY <1>1, AppendKeeps DEF WriteWeightSocket
<1>3. CASE Len(weights) < MAX_WEIGHTS - 1
  <2>1. message_count = Len(weights) /\ group = Unset
    BY <1>1, <1>3 DEF FirstSet, MAX_WEIGHTS
  <2>2. message_count' = Len(weights') /\ group' = group
    BY <1>1, <1>2, <1>3, <2>1 DEF WriteWeightSocket, MAX_WEIGHTS
  <2> QED
    BY <1>1, <1>2, <1>3, <2>1, <2>2 DEF FirstSet, MAX_WEIGHTS
<1>4. CASE Len(weights) = MAX_WEIGHTS - 1
  <2>1. message_count + 1 = MAX_WEIGHTS /\ group = Unset
    BY <1>1, <1>4 DEF FirstSet, MAX_WEIGHTS
  <2>2. message_count' = 0 /\ group' = LoadWeights(weights')
    BY <2>1 DEF WriteWeightSocket
  <2>3. Len(weights') >= MAX_WEIGHTS
    BY <1>2, <1>4 DEF MAX_WEIGHTS
  <2>4. group' \in [1 .. MAX_WEIGHTS -> Weight]
    BY <1>2, <2>2, <2>3, LoadWeightsType
  <2>5. FirstSet'
    BY <1>2, <1>4, <2>2 DEF FirstSet, MAX_WEIGHTS
  <2> QED
    BY <1>2, <2>1, <2>2, <2>4, <2>5 DEF MAX_WEIGHTS
<1>5. CASE Len(weights) >= MAX_WEIGHTS
  <2>1. group = LoadWeights(weights)
    BY <1>5 DEF FirstSet
  <2>2. LoadWeights(weights') = LoadWeights(weights)
    BY <1>1, <1>2, <1>5, LoadWeightsStays
  <2>3. group' = group
    BY <2>1, <2>2 DEF WriteWeightSocket
  <2>4. message_count' \in 0 .. MAX_WEIGHTS - 1
    BY <1>1 DEF WriteWeightSocket, MAX_WEIGHTS
  <2>5. FirstSet'
    BY <1>1, <1>2, <1>5, <2>1, <2>2, <2>3 DEF FirstSet, MAX_WEIGHTS
  <2> QED
    BY <1>2, <2>3, <2>4, <2>5 DEF TypeOK, Weight
<1>6. \/ Len(weights) < MAX_WEIGHTS - 1 \/ Len(weights) = MAX_WEIGHTS - 1
      \/ Len(weights) >= MAX_WEIGHTS
  <2>1. \A n \in Nat : \/ n < MAX_WEIGHTS - 1 \/ n = MAX_WEIGHTS - 1
                       \/ n >= MAX_WEIGHTS
    BY DEF MAX_WEIGHTS
  <2> QED
    BY <1>1, <2>1, Zenon
<1> QED
  BY <1>3, <1>4, <1>5, <1>6

LEMMA SendWeightType ==
  ASSUME SocketConstants, Ordered, SendWeight
  PROVE  Ordered' /\ (group # Unset => group' = group)
<1>1. /\ driver = "weights" /\ done \in Nat /\ done < MAX_WEIGHTS
      /\ sent = Len(program) /\ Len(program) \in Nat
      /\ done' = done + 1
      /\ driver' = IF done' = MAX_WEIGHTS THEN "ready" ELSE driver
      /\ UNCHANGED <<data_buf, loaded, program, set, accesses, sent, runs>>
  BY PlanType DEF SendWeight, Ordered, TypeOK, InOrder, plan
<1>2. <<set, done + 1>> \in Weight
  BY <1>1 DEF Ordered, TypeOK, Weight, MAX_WEIGHTS
<1>3. WriteWeightSocket(<<set, done + 1>>)
  BY DEF SendWeight
<1>4. /\ weights' \in Seq(Weight) /\ message_count' \in 0 .. MAX_WEIGHTS - 1
      /\ group' \in {Unset} \cup [1 .. MAX_WEIGHTS -> Weight]
      /\ FirstSet'
      /\ group # Unset => group' = group
  BY <1>2, <1>3, WriteWeightSocketType DEF Ordered
<1>5. TypeOK'
  BY <1>1, <1>4 DEF Ordered, TypeOK, Weight
<1>6. InOrder'
  BY <1>1 DEF InOrder, MAX_WEIGHTS
<1> QED
  BY <1>4, <1>5, <1>6 DEF Ordered

LEMMA NextType ==
  ASSUME SocketConstants, Ordered, [Next]_vars
  PROVE  Ordered' /\ (group # Unset => group' = group)
<1> USE DEF Ordered
<1>1. CASE Start
  <2>1. /\ program' \in Programs /\ set' \in Sets /\ accesses' \in Accesses
        /\ driver' = "reset" /\ sent' = 0 /\ done' = 0 /\ runs' = runs + 1
        /\ runs < MaxRuns /\ UNCHANGED sockets
    BY <1>1 DEF Start
  <2>2. Len(program') \in Nat
    BY <2>1, EmptySeq DEF SocketConstants
  <2>3. runs' \in 0 .. MaxRuns
    BY <2>1 DEF TypeOK, SocketConstants
  <2> QED
    BY <2>1, <2>2, <2>3 DEF sockets, TypeOK, InOrder, FirstSet
<1>2. CASE Reset
  <2>1. /\ driver = "reset" /\ driver' = "descriptors" /\ loaded' = <<>>
        /\ UNCHANGED <<data_buf, weights, message_count, group, program, set,
                       accesses, sent, done, runs>>
    BY <1>2 DEF Reset, plan
  <2>2. loaded' \in Seq(Buffer)
    BY <2>1, EmptySeq
  <2>3. InOrder'
    BY <2>1, PlanType DEF InOrder, TypeOK
  <2> QED
    BY <2>1, <2>2, <2>3 DEF TypeOK, FirstSet
<1>3. CASE SendDescriptor
  <2>1. UNCHANGED <<weights, message_count, group>>
    BY <1>3 DEF SendDescriptor
  <2> QED
    BY <1>3, <2>1, SendDescriptorType DEF FirstSet
<1>4. CASE SendWeight
  BY <1>4, SendWeightType
<1>5. CASE Kill
  BY <1>5 DEF Kill, sockets, plan, TypeOK, InOrder, FirstSet
<1>6. CASE \E a \in Access : ReadDescriptorSocket(a)
  <2>1. PICK a \in Access : ReadDescriptorSocket(a)
    BY <1>6
  <2>2. loaded' \in Seq(Buffer)
    BY <2>1, LoadIfEndType DEF ReadDescriptorSocket, TypeOK
  <2> QED
    BY <2>1, <2>2 DEF ReadDescriptorSocket, plan, TypeOK, InOrder, FirstSet
<1>7. CASE UNCHANGED vars
  BY <1>7 DEF vars, sockets, plan, TypeOK, InOrder, FirstSet
<1> QED
  BY <1>1, <1>2, <1>3, <1>4, <1>5, <1>6, <1>7 DEF Next

LEMMA AlwaysOrdered ==
  ASSUME SocketConstants
  PROVE  Spec => []Ordered
<1>1. Init => Ordered
  BY InitType
<1>2. Ordered /\ [Next]_vars => Ordered'
  BY NextType
<1> QED
  BY <1>1, <1>2, PTL DEF Spec

(***************************************************************************)
(* Every variable keeps its type: no index leaves its sequence, and a      *)
(* group has no weights or three.                                          *)
(***************************************************************************)
THEOREM SocketsTypeCorrect ==
  ASSUME SocketConstants
  PROVE  Spec => []TypeOK
<1>1. Ordered => TypeOK
  BY DEF Ordered
<1> QED
  BY <1>1, AlwaysOrdered, PTL

(***************************************************************************)
(* No set of weights but the first ever takes effect, however the driver   *)
(* was killed between two words of it: the vector is never emptied and its *)
(* head is what loadWeights reads (pe_socket_wrapper.cc 49-55).            *)
(***************************************************************************)
THEOREM FirstWeightsStayAlways ==
  ASSUME SocketConstants
  PROVE  Spec => FirstWeightsStay
<1>1. Ordered /\ [Next]_vars => [group # Unset => group' = group]_vars
  BY NextType
<1> QED
  BY <1>1, AlwaysOrdered, PTL DEF Spec, FirstWeightsStay

-----------------------------------------------------------------------------
(* Descriptors.                                                            *)

(* The words of the next descriptor that are in the buffer.                *)
BufferFilled ==
  driver = "descriptors" =>
    \A i \in 1 .. done : \A w \in 0 .. DescriptorWords - 1 :
      Covers(accesses[i], w) => data_buf[w] = <<program[sent + 1], w>>

(* What has been sent, when it is sent whole, is a sequence that grows by  *)
(* one descriptor at a time.                                               *)
Sent(p, n) == [i \in 1 .. n |-> Whole(p[i])]

LEMMA SentType ==
  ASSUME NEW p \in Seq(Descriptor), NEW n \in Nat, n <= Len(p)
  PROVE  /\ Sent(p, n) \in Seq(Buffer) /\ Len(Sent(p, n)) = n
         /\ \A i \in 1 .. n : Sent(p, n)[i] = Whole(p[i])
<1>1. ASSUME NEW i \in 1 .. n PROVE Whole(p[i]) \in Buffer
  <2>1. p[i] \in Descriptor
    BY LenProperties, ElementOfSeq
  <2> QED
    BY <2>1 DEF Whole, Buffer, Word
<1>2. Sent(p, n) \in [1 .. n -> Buffer]
  BY <1>1 DEF Sent
<1>3. Sent(p, n) \in Seq(Buffer)
  BY <1>2, SeqDef
<1>4. Len(Sent(p, n)) \in Nat /\ 1 .. n = 1 .. Len(Sent(p, n))
  BY <1>2, <1>3, LenProperties
<1>5. Len(Sent(p, n)) = n
  BY <1>4
<1> QED
  BY <1>3, <1>5 DEF Sent

LEMMA SentGrows ==
  ASSUME NEW p \in Seq(Descriptor), NEW n \in Nat, n < Len(p)
  PROVE  Append(Sent(p, n), Whole(p[n + 1])) = Sent(p, n + 1)
<1>1. n + 1 \in Nat /\ n + 1 <= Len(p) /\ n <= Len(p)
  BY LenProperties
<1>2. /\ Sent(p, n) \in Seq(Buffer) /\ Len(Sent(p, n)) = n
      /\ \A i \in 1 .. n : Sent(p, n)[i] = Whole(p[i])
  BY <1>1, SentType
<1>3. /\ Sent(p, n + 1) \in Seq(Buffer) /\ Len(Sent(p, n + 1)) = n + 1
      /\ \A i \in 1 .. n + 1 : Sent(p, n + 1)[i] = Whole(p[i])
  BY <1>1, SentType
<1>4. Whole(p[n + 1]) \in Buffer
  BY <1>3, ElementOfSeq
<1>5. /\ Append(Sent(p, n), Whole(p[n + 1])) \in Seq(Buffer)
      /\ Len(Append(Sent(p, n), Whole(p[n + 1]))) = n + 1
      /\ \A i \in 1 .. n : Append(Sent(p, n), Whole(p[n + 1]))[i] = Whole(p[i])
      /\ Append(Sent(p, n), Whole(p[n + 1]))[n + 1] = Whole(p[n + 1])
  BY <1>2, <1>4, AppendKeeps
<1>6. \A i \in 1 .. n + 1 :
        Append(Sent(p, n), Whole(p[n + 1]))[i] = Sent(p, n + 1)[i]
  BY <1>3, <1>5
<1> QED
  BY <1>3, <1>5, <1>6, SeqEqual

LEMMA SendDescriptorArrives ==
  ASSUME SocketConstants, Ordered, DescriptorsArriveWhole, BufferFilled,
         SendDescriptor
  PROVE  DescriptorsArriveWhole' /\ BufferFilled'
<1> DEFINE d == program[sent + 1]
           a == accesses[done + 1]
<1>1. /\ driver = "descriptors" /\ sent \in Nat /\ sent < Len(program)
      /\ done \in Nat /\ done < Len(accesses)
      /\ program \in Seq(Descriptor) /\ Len(program) \in Nat
      /\ accesses \in Seq(Access) /\ Len(accesses) \in Nat
      /\ UNCHANGED <<program, accesses>>
  BY PlanType DEF SendDescriptor, Ordered, TypeOK, InOrder, plan
<1>2. a.addr + a.len = DescriptorWords <=> done + 1 = Len(accesses)
  <2>1. accesses \in Accesses /\ done + 1 \in 1 .. Len(accesses)
    BY <1>1 DEF Ordered, TypeOK
  <2> QED
    BY <2>1, Zenon DEF SocketConstants
<1>3. loaded = Sent(program, sent)
  BY <1>1 DEF DescriptorsArriveWhole, Sent
<1>4. /\ data_buf' = [w \in 0 .. DescriptorWords - 1 |->
                        IF Covers(a, w) THEN <<d, w>> ELSE data_buf[w]]
      /\ loaded' = IF a.addr + a.len = DescriptorWords
                     THEN Append(loaded, data_buf') ELSE loaded
  BY DEF SendDescriptor, WriteDescriptorSocket, LoadIfEnd
<1>5. \A i \in 1 .. done + 1 : \A w \in 0 .. DescriptorWords - 1 :
        Covers(accesses[i], w) => data_buf'[w] = <<d, w>>
  <2> TAKE i \in 1 .. done + 1
  <2> TAKE w \in 0 .. DescriptorWords - 1
  <2>2. CASE i = done + 1
    BY <1>4, <2>2
  <2>3. CASE i # done + 1
    <3>1. i \in 1 .. done
      BY <1>1, <2>3
    <3> QED
      BY <1>1, <1>4, <3>1 DEF BufferFilled
  <2> QED
    BY <2>2, <2>3
<1>6. CASE done + 1 < Len(accesses)
  <2>1. done' = done + 1 /\ sent' = sent /\ driver' = driver
    BY <1>6 DEF SendDescriptor
  <2>2. loaded' = loaded
    BY <1>1, <1>2, <1>4, <1>6
  <2>3. BufferFilled'
    BY <1>1, <1>5, <2>1 DEF BufferFilled
  <2> QED
    BY <1>1, <2>1, <2>2, <2>3 DEF DescriptorsArriveWhole, Whole
<1>7. CASE ~(done + 1 < Len(accesses))
  <2>1. done' = 0 /\ sent' = sent + 1
    BY <1>7 DEF SendDescriptor
  <2>2. done + 1 = Len(accesses)
    BY <1>1, <1>7
  <2>3. data_buf' = Whole(d)
    <3>1. \A w \in 0 .. DescriptorWords - 1 : data_buf'[w] = <<d, w>>
      <4> TAKE w \in 0 .. DescriptorWords - 1
      <4>2. PICK i \in 1 .. Len(accesses) : Covers(accesses[i], w)
        BY DEF SocketConstants, Ordered, TypeOK
      <4> QED
        BY <1>5, <2>2, <4>2
    <3> QED
      BY <1>4, <3>1 DEF Whole
  <2>4. loaded' = Append(Sent(program, sent), Whole(program[sent + 1]))
    BY <1>2, <1>3, <1>4, <2>2, <2>3
  <2>5. loaded' = Sent(program, sent + 1)
    BY <1>1, <2>4, SentGrows
  <2>6. BufferFilled'
    BY <2>1 DEF BufferFilled
  <2> QED
    BY <1>1, <2>1, <2>5, <2>6 DEF DescriptorsArriveWhole, Sent, Whole
<1> QED
  BY <1>6, <1>7

LEMMA NextArrives ==
  ASSUME SocketConstants, PeeksEndBefore, Ordered, DescriptorsArriveWhole,
         BufferFilled, [Next]_vars
  PROVE  DescriptorsArriveWhole' /\ BufferFilled'
<1> USE DEF DescriptorsArriveWhole, BufferFilled
<1>1. CASE Start
  BY <1>1 DEF Start
<1>2. CASE Reset
  <2>1. /\ driver' = "descriptors" /\ loaded' = <<>> /\ sent' = 0 /\ done' = 0
    BY <1>2 DEF Reset, Ordered, InOrder
  <2> QED
    BY <2>1
<1>3. CASE SendDescriptor
  BY <1>3, SendDescriptorArrives
<1>4. CASE SendWeight
  <2>1. /\ driver = "weights" /\ driver' \in {"weights", "ready"}
        /\ UNCHANGED <<loaded, program, sent>>
    BY <1>4 DEF SendWeight, plan
  <2> QED
    BY <2>1 DEF Whole
<1>5. CASE Kill
  BY <1>5 DEF Kill
<1>6. CASE \E a \in Access : ReadDescriptorSocket(a)
  <2>1. PICK a \in Access : ReadDescriptorSocket(a)
    BY <1>6
  <2>2. loaded' = loaded
    BY <2>1 DEF ReadDescriptorSocket, LoadIfEnd, PeeksEndBefore
  <2> QED
    BY <2>1, <2>2 DEF ReadDescriptorSocket, plan, Whole
<1>7. CASE UNCHANGED vars
  BY <1>7 DEF vars, sockets, plan, Whole
<1> QED
  BY <1>1, <1>2, <1>3, <1>4, <1>5, <1>6, <1>7 DEF Next

(***************************************************************************)
(* A DMA receives the descriptors of the program in order and whole, for   *)
(* every way memcpy may split them and whatever a driver that was killed   *)
(* has left in the buffer, as long as nobody reads the last word of it     *)
(* (dma_socket_wrapper.cc 80-91): each word is stored before the last      *)
(* store, and only that one ends at the end of the buffer.                 *)
(***************************************************************************)
THEOREM DescriptorsArriveWholeAlways ==
  ASSUME SocketConstants, PeeksEndBefore
  PROVE  Spec => []DescriptorsArriveWhole
<1>1. Init => DescriptorsArriveWhole /\ BufferFilled
  BY DEF Init, DescriptorsArriveWhole, BufferFilled
<1>2. Ordered /\ DescriptorsArriveWhole /\ BufferFilled /\ [Next]_vars
        => DescriptorsArriveWhole' /\ BufferFilled'
  BY NextArrives
<1> QED
  BY <1>1, <1>2, AlwaysOrdered, PTL DEF Spec

-----------------------------------------------------------------------------
(* The bus.                                                                *)

(* Every set of natural numbers has a least one.                           *)
LEMMA Least ==
  ASSUME NEW T, T \subseteq Nat, T # {}
  PROVE  \E x \in T : \A y \in T : x <= y
<1> DEFINE R == OpToRel(<, Nat)
<1>1. IsWellFoundedOn(R, Nat)
  BY NatLessThanWellFounded
<1>2. \A x, y \in Nat : <<x, y>> \in R <=> x < y
  BY DEF OpToRel
<1> HIDE DEF R
<1>3. PICK x \in T : \A y \in T : ~(<<y, x>> \in R)
  BY <1>1, WFMin
<1>4. \A y \in T : x \in Nat /\ y \in Nat /\ ~(y < x)
  BY <1>2, <1>3
<1>5. \A y \in T : x <= y
  BY <1>4
<1> QED
  BY <1>5

LEMMA FirstIsLeast ==
  ASSUME NEW S, S \subseteq Nat, S # {}
  PROVE  Bus!First(S) \in S /\ \A j \in S : Bus!First(S) <= j
<1>1. \E i \in S : \A j \in S : i <= j
  BY Least
<1> QED
  BY <1>1 DEF Bus!First

LEMMA FirstIs ==
  ASSUME NEW S, S \subseteq Nat, NEW i \in S, \A j \in S : i <= j
  PROVE  Bus!First(S) = i
<1>1. Bus!First(S) \in S /\ Bus!First(S) <= i
  BY FirstIsLeast
<1>2. i <= Bus!First(S) /\ Bus!First(S) \in Nat /\ i \in Nat
  BY <1>1
<1> QED
  BY <1>1, <1>2

LEMMA WindowTypes ==
  ASSUME Bus!BusConstants
  PROVE  /\ Len(Windows) \in Nat /\ N_TARGETS \in Nat \ {0}
         /\ Len(Windows) <= N_TARGETS /\ MemSize \in Nat \ {0}
         /\ \A i \in 1 .. Len(Windows) :
              /\ Windows[i] \in Bus!Entry /\ Windows[i].addr \in Nat
              /\ Windows[i].size \in Nat \ {0}
         /\ Bus!RamWindow \in 1 .. Len(Windows) /\ Bus!RamBase \in Nat
         /\ \A i \in 1 .. Len(Windows) :
              Windows[i].device = "memory" => i = Bus!RamWindow
         /\ 0 \in Bus!Index /\ Bus!Index \subseteq Nat
         /\ \A i \in 0 .. Len(Windows) - 1 : i \in Bus!Index /\ i < N_TARGETS
<1>1. /\ Len(Windows) \in Nat /\ N_TARGETS \in Nat \ {0}
      /\ Len(Windows) <= N_TARGETS /\ MemSize \in Nat \ {0}
  BY LenProperties DEF Bus!BusConstants
<1>2. ASSUME NEW i \in 1 .. Len(Windows)
      PROVE  /\ Windows[i] \in Bus!Entry /\ Windows[i].addr \in Nat
             /\ Windows[i].size \in Nat \ {0}
  <2>1. Windows[i] \in Bus!Entry
    BY ElementOfSeq DEF Bus!BusConstants
  <2>2. Windows[i].size > 0
    BY DEF Bus!BusConstants
  <2> QED
    BY <2>1, <2>2 DEF Bus!Entry
<1>3. PICK i \in 1 .. Len(Windows) :
        \A j \in 1 .. Len(Windows) : Windows[j].device = "memory" <=> j = i
  BY DEF Bus!BusConstants
<1>4. Bus!RamWindow = i
  BY <1>3 DEF Bus!RamWindow
<1>5. Bus!RamBase \in Nat
  BY <1>2, <1>4 DEF Bus!RamBase
<1>6. /\ 0 \in Bus!Index /\ Bus!Index \subseteq Nat
      /\ \A k \in 0 .. Len(Windows) - 1 : k \in Bus!Index /\ k < N_TARGETS
  BY <1>1 DEF Bus!Index
<1> QED
  BY <1>1, <1>2, <1>3, <1>4, <1>5, <1>6

(* The map after n calls of memmap.                                        *)
MapOf(n, g) ==
  [i \in Bus!Index |->
     IF i < n THEN Windows[i + 1]
     ELSE IF i < N_TARGETS THEN [addr |-> 0, size |-> 0, device |-> "zynq"]
     ELSE g]

Mapped == \E g \in Garbage : map = MapOf(mapped, g)

LEMMA MemmapMaps ==
  ASSUME Bus!BusConstants, Bus!TypeOK, Mapped, Bus!memmap
  PROVE  Mapped'
<1>1. PICK g \in Garbage : map = MapOf(mapped, g)
  BY DEF Mapped
<1>2. /\ mapped < Len(Windows) /\ mapped' = mapped + 1
      /\ map' = [map EXCEPT ![Bus!First({i \in Bus!Index : map[i].size = 0})]
                   = Windows[mapped + 1]]
  BY DEF Bus!memmap
<1>3. mapped \in Nat /\ mapped \in 0 .. Len(Windows) - 1
  BY <1>2, WindowTypes DEF Bus!TypeOK
<1>4. mapped \in Bus!Index /\ mapped < N_TARGETS
  BY <1>3, WindowTypes
<1> DEFINE free == {i \in Bus!Index : map[i].size = 0}
<1>5. Bus!First(free) = mapped
  <2>1. free \subseteq Nat
    BY WindowTypes
  <2>2. mapped \in free
    BY <1>1, <1>3, <1>4 DEF MapOf
  <2>3. ASSUME NEW j \in free PROVE mapped <= j
    <3>1. j \in Bus!Index /\ j \in Nat /\ map[j].size = 0
      BY WindowTypes
    <3>2. CASE j < mapped
      <4>1. map[j] = Windows[j + 1]
        BY <1>1, <3>1, <3>2 DEF MapOf
      <4>2. j + 1 \in 1 .. Len(Windows)
        BY <1>3, <3>1, <3>2, WindowTypes
      <4> QED
        BY <3>1, <4>1, <4>2, WindowTypes
    <3> QED
      BY <1>3, <3>1, <3>2
  <2> HIDE DEF free
  <2> QED
    BY <2>1, <2>2, <2>3, FirstIs
<1>6. map' = MapOf(mapped + 1, g)
  <2>1. map' = [i \in Bus!Index |-> IF i = mapped THEN Windows[mapped + 1]
                                              ELSE map[i]]
    BY <1>1, <1>2, <1>4, <1>5 DEF MapOf
  <2>2. \A i \in Bus!Index : i \in Nat
    BY WindowTypes
  <2>3. \A i \in Bus!Index : map'[i] = MapOf(mapped + 1, g)[i]
    BY <1>1, <1>3, <1>4, <2>1, <2>2 DEF MapOf
  <2> QED
    BY <2>1, <2>3 DEF MapOf
<1> QED
  BY <1>2, <1>6 DEF Mapped

(* Where an address leads to that lies in a window.                        *)
LEMMA LeadsToFirst ==
  ASSUME Bus!BusConstants, Mapped, mapped = Len(Windows), NEW addr \in Int,
         Bus!Containing(addr) # {}, NEW d \in Bus!map_address(addr)
  PROVE  LET w == Bus!First(Bus!Containing(addr))
         IN  /\ w \in 1 .. Len(Windows) /\ w \in Bus!Containing(addr)
             /\ \A j \in Bus!Containing(addr) : w <= j
             /\ map[d.target] = Windows[w] /\ d.target \in Bus!Index
             /\ d.offset = addr - Windows[w].addr
<1> DEFINE w == Bus!First(Bus!Containing(addr))
           n == Len(Windows)
<1>1. PICK g \in Garbage : map = MapOf(n, g)
  BY DEF Mapped
<1>2. Bus!Containing(addr) \subseteq 1 .. n /\ 1 .. n \subseteq Nat
  BY WindowTypes DEF Bus!Containing
<1>3. w \in Bus!Containing(addr) /\ \A j \in Bus!Containing(addr) : w <= j
  BY <1>2, FirstIsLeast
<1>4. w \in 1 .. n /\ n \in Nat /\ w \in Nat \ {0} /\ w <= n
  BY <1>2, <1>3, WindowTypes
<1> HIDE DEF w, n
<1>5. w - 1 \in Bus!Index /\ w - 1 < N_TARGETS /\ w - 1 < n /\ w - 1 \in Nat
  BY <1>4, WindowTypes DEF n
<1>6. map[w - 1] = Windows[w]
  <2>1. (w - 1) + 1 = w
    BY <1>4
  <2> QED
    BY <1>1, <1>5, <2>1 DEF MapOf
<1>7. Bus!Matches(addr) \subseteq Nat
  BY WindowTypes DEF Bus!Matches
<1>8. w - 1 \in Bus!Matches(addr)
  <2>1. /\ Windows[w].addr \in Nat /\ Windows[w].size \in Nat \ {0}
        /\ addr \in Windows[w].addr .. Windows[w].addr + Windows[w].size
    BY <1>3, <1>4, WindowTypes DEF Bus!Containing, n
  <2> QED
    BY <1>5, <1>6, <2>1 DEF Bus!Matches
<1>9. ASSUME NEW j \in Bus!Matches(addr) PROVE w - 1 <= j
  <2>1. /\ j \in Bus!Index /\ j \in Nat /\ map[j].size # 0
        /\ addr >= map[j].addr /\ addr <= map[j].addr + map[j].size
    BY WindowTypes DEF Bus!Matches
  <2>2. CASE j < n
    <3>1. map[j] = Windows[j + 1]
      BY <1>1, <2>1, <2>2 DEF MapOf
    <3>2. j + 1 \in 1 .. n
      BY <1>4, <2>1, <2>2
    <3>3. Windows[j + 1].addr \in Nat /\ Windows[j + 1].size \in Nat
      BY <3>2, WindowTypes DEF n
    <3>4. j + 1 \in Bus!Containing(addr)
      BY <2>1, <3>1, <3>2, <3>3 DEF Bus!Containing, n
    <3> QED
      BY <1>3, <1>4, <2>1, <3>4
  <2> QED
    BY <1>4, <2>1, <2>2
<1>10. Bus!First(Bus!Matches(addr)) = w - 1
  BY <1>7, <1>8, <1>9, FirstIs
<1>11. d = [target |-> w - 1, offset |-> addr - map[w - 1].addr]
  BY <1>8, <1>10 DEF Bus!map_address
<1> QED
  BY <1>3, <1>4, <1>5, <1>6, <1>11 DEF w, n

LEMMA TargetTypes ==
  ASSUME Bus!BusConstants, Bus!TypeOK,
         NEW addr \in Int, NEW d \in Bus!map_address(addr)
  PROVE  /\ d.target \in Bus!Index /\ map[d.target] \in Bus!Entry
         /\ d.offset \in Int
<1>1. CASE Bus!Matches(addr) # {}
  <2>1. d = [target |-> Bus!First(Bus!Matches(addr)),
             offset |-> addr - map[Bus!First(Bus!Matches(addr))].addr]
    BY <1>1 DEF Bus!map_address
  <2>2. Bus!Matches(addr) \subseteq Nat
    BY WindowTypes DEF Bus!Matches
  <2>3. Bus!First(Bus!Matches(addr)) \in Bus!Index
    BY <1>1, <2>2, FirstIsLeast DEF Bus!Matches
  <2>4. map[Bus!First(Bus!Matches(addr))] \in Bus!Entry
    BY <2>3 DEF Bus!TypeOK
  <2> QED
    BY <2>1, <2>3, <2>4 DEF Bus!Entry
<1>2. CASE Bus!Matches(addr) = {}
  <2>1. d.target = 0 /\ d.offset \in {0, addr}
    BY <1>2 DEF Bus!map_address
  <2> QED
    BY <2>1, WindowTypes DEF Bus!TypeOK
<1> QED
  BY <1>1, <1>2

(* What the bus keeps: the devices know nothing of the windows.            *)
BusInv ==
  /\ Bus!TypeOK /\ Mapped
  /\ DOMAIN flat = Bus!RamBase .. Bus!RamBase + MemSize - 1
  /\ Bus!BusDelivers

LEMMA BusInitKeeps ==
  ASSUME Bus!BusConstants, Bus!Init
  PROVE  BusInv
<1> DEFINE zero == [addr |-> 0, size |-> 0, device |-> "zynq"]
<1>1. PICK g \in Garbage :
        map = [i \in Bus!Index |-> IF i < N_TARGETS THEN zero ELSE g]
  BY DEF Bus!Init
<1>2. g \in Bus!Entry /\ zero \in Bus!Entry
  BY DEF Bus!BusConstants, Bus!Entry, Bus!Device
<1> HIDE DEF zero
<1>3. map \in [Bus!Index -> Bus!Entry]
  BY <1>1, <1>2
<1>4. Mapped
  <2>1. mapped = 0 /\ \A i \in Bus!Index : i \in Nat
    BY WindowTypes DEF Bus!Init
  <2>2. MapOf(0, g) = [i \in Bus!Index |-> IF i < N_TARGETS THEN zero ELSE g]
    BY <2>1 DEF MapOf, zero
  <2> QED
    BY <1>1, <2>1, <2>2 DEF Mapped
<1>5. Bus!TypeOK
  BY <1>3, WindowTypes DEF Bus!Init, Bus!TypeOK
<1>6. /\ DOMAIN flat = Bus!RamBase .. Bus!RamBase + MemSize - 1
      /\ \A b \in Bus!RamBase .. Bus!RamBase + MemSize - 1 : flat[b] = 0
  BY DEF Bus!Init
<1>7. Bus!FlatMemory
  <2>1. /\ \A i \in 0 .. MemSize + 3 : mem[i] = 0
        /\ \A i \in 0 .. 7 : mmr[i] = 0
    BY DEF Bus!Init
  <2>2. ASSUME NEW i \in 0 .. MemSize - 1
        PROVE  i \in 0 .. MemSize + 3
               /\ Bus!RamBase + i \in Bus!RamBase .. Bus!RamBase + MemSize - 1
    BY WindowTypes
  <2>3. \A i \in MemSize .. MemSize + 3 : i \in 0 .. MemSize + 3
    BY WindowTypes
  <2> QED
    BY <1>6, <2>1, <2>2, <2>3 DEF Bus!FlatMemory
<1>8. Bus!ReachesOwner /\ Bus!SignalsFollowRegisters
  BY DEF Bus!Init, Bus!ReachesOwner, Bus!SignalsFollowRegisters
<1> QED
  BY <1>4, <1>5, <1>6, <1>7, <1>8 DEF BusInv, Bus!BusDelivers

(* The steps that leave the devices alone.                                 *)
LEMMA DevicesRest ==
  ASSUME UNCHANGED Bus!devices, Bus!FlatMemory, Bus!SignalsFollowRegisters,
         DOMAIN flat = Bus!RamBase .. Bus!RamBase + MemSize - 1
  PROVE  /\ Bus!FlatMemory' /\ Bus!SignalsFollowRegisters'
         /\ DOMAIN flat' = Bus!RamBase .. Bus!RamBase + MemSize - 1
  BY DEF Bus!devices, Bus!FlatMemory, Bus!SignalsFollowRegisters

LEMMA MemmapKeeps ==
  ASSUME Bus!BusConstants, BusInv, Bus!memmap
  PROVE  BusInv'
<1>1. Mapped'
  BY MemmapMaps DEF BusInv
<1>2. mapped < Len(Windows) /\ mapped' = mapped + 1
      /\ UNCHANGED <<Bus!devices, trans, grant>>
  BY DEF Bus!memmap
<1>3. mapped' \in 0 .. Len(Windows)
  BY <1>2, WindowTypes DEF BusInv, Bus!TypeOK
<1>4. map' \in [Bus!Index -> Bus!Entry]
  <2>1. mapped + 1 \in 1 .. Len(Windows)
    BY <1>2, WindowTypes DEF BusInv, Bus!TypeOK
  <2>2. Windows[mapped + 1] \in Bus!Entry
    BY <2>1, WindowTypes
  <2> QED
    BY <2>2 DEF Bus!memmap, BusInv, Bus!TypeOK
<1>5. Bus!TypeOK'
  BY <1>2, <1>3, <1>4 DEF BusInv, Bus!TypeOK, Bus!devices
<1>6. Bus!ReachesOwner'
  BY <1>2 DEF BusInv, Bus!BusDelivers, Bus!ReachesOwner, Bus!Containing
<1> QED
  BY <1>1, <1>2, <1>5, <1>6, DevicesRest DEF BusInv, Bus!BusDelivers

LEMMA DirectKeeps ==
  ASSUME Bus!BusConstants, BusInv, NEW a \in Transactions, NEW r \in Ranges,
         Bus!get_direct_mem_ptr(a, r)
  PROVE  BusInv'
<1>1. /\ trans' = Bus!None /\ UNCHANGED <<map, mapped, Bus!devices>>
  BY DEF Bus!get_direct_mem_ptr
<1>2. Bus!TypeOK'
  <2>1. a.addr + target_offset[a.id] \in Int /\ r.start \in Int /\ r.end \in Int
    BY DEF Bus!BusConstants, Bus!Access
  <2>2. PICK d \in Bus!map_address(a.addr + target_offset[a.id]) :
          grant' = IF /\ Bus!InRange(d.target, r.start)
                      /\ Bus!InRange(d.target, r.end)
                      THEN [device |-> "memory", invalid |-> FALSE,
                            first |-> Bus!unmap_offset(d.target, r.start),
                            last |-> Bus!unmap_offset(d.target, r.end)]
                      ELSE [device |-> "memory", invalid |-> TRUE,
                            first |-> 0, last |-> 0]
    BY DEF Bus!get_direct_mem_ptr
  <2>3. map[d.target] \in Bus!Entry
    BY <2>1, TargetTypes DEF BusInv
  <2>4. Bus!unmap_offset(d.target, r.start) \in Int
        /\ Bus!unmap_offset(d.target, r.end) \in Int
    BY <2>1, <2>3 DEF Bus!unmap_offset, Bus!Entry
  <2>5. grant'.first \in Int /\ grant'.last \in Int
    BY <2>2, <2>4
  <2> QED
    BY <1>1, <2>5 DEF BusInv, Bus!TypeOK, Bus!devices
<1>3. Mapped' /\ Bus!ReachesOwner'
  BY <1>1 DEF BusInv, Mapped, Bus!ReachesOwner
<1> QED
  BY <1>1, <1>2, <1>3, DevicesRest DEF BusInv, Bus!BusDelivers

(* The registers.                                                          *)
LEMMA RegistersKeep ==
  ASSUME Bus!BusConstants, BusInv, NEW a \in Bus!Access, NEW o \in Int,
         Bus!RegsTransport(a, o), a.write => Bus!Register(o) < 4
  PROVE  /\ mmr' \in [0 .. 7 -> {0, 1}]
         /\ enable' \in {0, 1} /\ reset' \in {0, 1}
         /\ Bus!SignalsFollowRegisters' /\ Bus!FlatMemory'
<1> DEFINE r == Bus!Register(o)
<1>1. r \in 0 .. 7
  BY DEF Bus!Register
<1>2. /\ mmr \in [0 .. 7 -> {0, 1}] /\ enable = mmr[0] /\ reset = mmr[1]
      /\ \A i \in 4 .. 7 : mmr[i] = 0
      /\ a.value \in {0, 1} /\ a.write \in BOOLEAN
  BY DEF BusInv, Bus!TypeOK, Bus!BusDelivers, Bus!SignalsFollowRegisters,
         Bus!FlatMemory, Bus!Access
<1>3. /\ mmr' = IF a.write THEN [mmr EXCEPT ![r] = a.value] ELSE mmr
      /\ enable' = IF a.write /\ r = 0 THEN mmr'[0] ELSE enable
      /\ reset' = IF a.write /\ r = 1 THEN mmr'[1] ELSE reset
      /\ UNCHANGED <<mem, flat>>
  BY DEF Bus!RegsTransport
<1>4. a.write => r < 4
  OBVIOUS
<1> HIDE DEF r
<1>5. CASE ~a.write
  BY <1>2, <1>3, <1>5
  DEF Bus!SignalsFollowRegisters, Bus!FlatMemory, BusInv, Bus!BusDelivers
<1>6. CASE a.write
  <2>1. \A i \in 0 .. 7 : mmr'[i] = IF i = r THEN a.value ELSE mmr[i]
    BY <1>1, <1>2, <1>3, <1>6
  <2>2. mmr' \in [0 .. 7 -> {0, 1}]
    BY <1>1, <1>2, <1>3, <1>6
  <2>3. enable' = mmr'[0] /\ reset' = mmr'[1]
    BY <1>1, <1>2, <1>3, <1>6, <2>1
  <2>4. \A i \in 4 .. 7 : mmr'[i] = 0
    BY <1>1, <1>2, <1>4, <1>6, <2>1
  <2>5. Bus!FlatMemory'
    BY <1>3, <2>4 DEF Bus!FlatMemory, BusInv, Bus!BusDelivers
  <2> QED
    BY <2>2, <2>3, <2>5 DEF Bus!SignalsFollowRegisters
<1> QED
  BY <1>2, <1>5, <1>6

(* The RAM, for a write that stays in it.                                  *)
LEMMA RamKeeps ==
  ASSUME Bus!BusConstants, BusInv, NEW a \in Bus!Access, NEW o \in Int,
         Bus!MemoryTransport(a, o),
         a.write => /\ o = (a.addr + target_offset[a.id]) - Bus!RamBase
                    /\ o >= 0 /\ o + a.len <= MemSize
  PROVE  /\ mem' \in [0 .. MemSize + 3 -> {0, 1}]
         /\ DOMAIN flat' = Bus!RamBase .. Bus!RamBase + MemSize - 1
         /\ Bus!FlatMemory' /\ Bus!SignalsFollowRegisters'
<1>1. /\ mem \in [0 .. MemSize + 3 -> {0, 1}]
      /\ DOMAIN flat = Bus!RamBase .. Bus!RamBase + MemSize - 1
      /\ \A i \in 0 .. MemSize - 1 : mem[i] = flat[Bus!RamBase + i]
      /\ \A i \in MemSize .. MemSize + 3 : mem[i] = 0
      /\ a.value \in {0, 1} /\ a.write \in BOOLEAN /\ a.len \in Nat
  BY DEF BusInv, Bus!TypeOK, Bus!BusDelivers, Bus!FlatMemory, Bus!Access
<1>2. UNCHANGED <<mmr, enable, reset>>
  BY DEF Bus!MemoryTransport
<1>3. Bus!SignalsFollowRegisters' /\ \A i \in 4 .. 7 : mmr'[i] = 0
  BY <1>2
  DEF BusInv, Bus!BusDelivers, Bus!SignalsFollowRegisters, Bus!FlatMemory
<1>4. CASE ~a.write
  <2>1. mem' = mem /\ flat' = flat
    BY <1>4 DEF Bus!MemoryTransport
  <2> QED
    BY <1>1, <1>3, <2>1 DEF Bus!FlatMemory
<1>5. CASE a.write
  <2> DEFINE at == a.addr + target_offset[a.id]
  <2>1. /\ mem' = [i \in 0 .. MemSize + 3 |->
                     IF o <= i /\ i < o + a.len THEN a.value ELSE mem[i]]
        /\ flat' = [b \in Bus!RamBase .. Bus!RamBase + MemSize - 1 |->
                      IF at <= b /\ b < at + a.len THEN a.value ELSE flat[b]]
    BY <1>1, <1>5 DEF Bus!MemoryTransport
  <2>2. o = at - Bus!RamBase /\ o >= 0 /\ o + a.len <= MemSize
    BY <1>5 DEF at
  <2>3. at \in Int
    BY DEF Bus!BusConstants, Bus!Access
  <2> HIDE DEF at
  <2>4. /\ Bus!RamBase \in Nat /\ MemSize \in Nat \ {0}
    BY WindowTypes
  <2>5. mem' \in [0 .. MemSize + 3 -> {0, 1}]
    BY <1>1, <2>1
  <2>6. ASSUME NEW i \in 0 .. MemSize - 1 PROVE mem'[i] = flat'[Bus!RamBase + i]
    <3>1. i \in 0 .. MemSize + 3
          /\ Bus!RamBase + i \in Bus!RamBase .. Bus!RamBase + MemSize - 1
      BY <2>4
    <3>2. /\ mem'[i] = IF o <= i /\ i < o + a.len THEN a.value ELSE mem[i]
          /\ flat'[Bus!RamBase + i] =
               IF at <= Bus!RamBase + i /\ Bus!RamBase + i < at + a.len
                  THEN a.value
                                                  ELSE flat[Bus!RamBase + i]
      BY <2>1, <3>1
    <3>3. /\ o <= i <=> at <= Bus!RamBase + i
          /\ i < o + a.len <=> Bus!RamBase + i < at + a.len
      BY <1>1, <2>2, <2>3, <2>4
    <3> QED
      BY <1>1, <3>2, <3>3
  <2>7. ASSUME NEW i \in MemSize .. MemSize + 3 PROVE mem'[i] = 0
    <3>1. i \in 0 .. MemSize + 3 /\ ~(i < o + a.len)
      BY <1>1, <2>2, <2>4
    <3> QED
      BY <1>1, <2>1, <3>1
  <2>8. DOMAIN flat' = Bus!RamBase .. Bus!RamBase + MemSize - 1
    BY <2>1
  <2> QED
    BY <1>3, <2>5, <2>6, <2>7, <2>8 DEF Bus!FlatMemory
<1> QED
  BY <1>1, <1>4, <1>5

(* A transaction that lies in a window, and that of the RAM is the only    *)
(* one of a memory.                                                        *)
LEMMA WritesReach ==
  ASSUME Bus!BusConstants, Bus!WritesFit, BusInv, mapped = Len(Windows),
         NEW a \in Transactions, a.write,
         NEW d \in Bus!map_address(a.addr + target_offset[a.id])
  PROVE  /\ map[d.target].device = "memory" =>
              /\ d.offset = (a.addr + target_offset[a.id]) - Bus!RamBase
              /\ d.offset >= 0 /\ d.offset + a.len <= MemSize
         /\ map[d.target].device = "regs" => Bus!Register(d.offset) < 4
<1> DEFINE at == a.addr + target_offset[a.id]
           w == Bus!First(Bus!Containing(at))
<1>1. at \in Int /\ a.len \in Nat
  BY DEF Bus!BusConstants, Bus!Access
<1>2. /\ Bus!Containing(at) # {}
      /\ Windows[w].device = "memory" => at + a.len <= Bus!RamBase + MemSize
      /\ Windows[w].device = "regs" => Bus!Register(at - Windows[w].addr) < 4
  BY DEF Bus!WritesFit
<1>3. /\ w \in 1 .. Len(Windows) /\ w \in Bus!Containing(at)
      /\ map[d.target] = Windows[w] /\ d.offset = at - Windows[w].addr
  BY <1>1, <1>2, LeadsToFirst DEF BusInv
<1>4. at >= Windows[w].addr
  <2>1. at \in Windows[w].addr .. Windows[w].addr + Windows[w].size
    BY <1>3 DEF Bus!Containing
  <2> QED
    BY <1>1, <1>3, <2>1, WindowTypes
<1>5. Windows[w].device = "memory" => Windows[w].addr = Bus!RamBase
  BY <1>3, WindowTypes DEF Bus!RamBase
<1> HIDE DEF at, w
<1>6. Bus!RamBase \in Nat /\ MemSize \in Nat /\ Windows[w].addr \in Nat
  BY <1>3, WindowTypes
<1>7. ASSUME map[d.target].device = "memory"
      PROVE  d.offset = at - Bus!RamBase /\ d.offset >= 0
             /\ d.offset + a.len <= MemSize
  <2>1. at + a.len <= Bus!RamBase + MemSize /\ d.offset = at - Bus!RamBase
        /\ at >= Bus!RamBase
    BY <1>2, <1>3, <1>4, <1>5, <1>7
  <2> QED
    BY <1>1, <1>6, <2>1
<1>8. map[d.target].device = "regs" => Bus!Register(d.offset) < 4
  BY <1>2, <1>3
<1> QED
  BY <1>7, <1>8 DEF at

(* Of two windows an address lies in the narrower one is mapped first.     *)
LEMMA OwnerReached ==
  ASSUME Bus!BusConstants, Bus!NarrowFirst, BusInv, mapped = Len(Windows),
         NEW a \in Transactions, Bus!b_transport(a)
  PROVE  Bus!ReachesOwner'
<1> DEFINE at == a.addr + target_offset[a.id]
           w == Bus!First(Bus!Containing(at))
<1>1. PICK d \in Bus!map_address(at) :
        trans' = [device |-> map[d.target].device, offset |-> d.offset,
                  requested |-> a, address |-> at]
  BY DEF Bus!b_transport
<1>2. at \in Int
  BY DEF Bus!BusConstants, Bus!Access
<1>3. trans'.address = at
  BY <1>1
<1> SUFFICES ASSUME Bus!Containing(at) # {}
             PROVE  \E i \in Bus!Containing(at) :
                      /\ \A j \in Bus!Containing(at) :
                           Windows[i].size <= Windows[j].size
                      /\ trans'.device = Windows[i].device
                      /\ trans'.offset = at - Windows[i].addr
  BY <1>3 DEF Bus!ReachesOwner, Bus!Containing
<1>4. /\ w \in 1 .. Len(Windows) /\ w \in Bus!Containing(at)
      /\ \A j \in Bus!Containing(at) : w <= j
      /\ map[d.target] = Windows[w] /\ d.offset = at - Windows[w].addr
  BY <1>2, LeadsToFirst DEF BusInv
<1>5. trans'.device = Windows[w].device /\ trans'.offset = at - Windows[w].addr
  BY <1>1, <1>4
<1> HIDE DEF at, w
<1>6. ASSUME NEW j \in Bus!Containing(at)
      PROVE  Windows[w].size <= Windows[j].size
  <2>1. /\ j \in 1 .. Len(Windows) /\ w <= j
        /\ at \in Windows[j].addr .. Windows[j].addr + Windows[j].size
        /\ at \in Windows[w].addr .. Windows[w].addr + Windows[w].size
    BY <1>4 DEF Bus!Containing
  <2>2. /\ Windows[j].addr \in Nat /\ Windows[j].size \in Nat
        /\ Windows[w].addr \in Nat /\ Windows[w].size \in Nat
    BY <1>4, <2>1, WindowTypes
  <2>3. CASE w = j
    BY <2>2, <2>3
  <2>4. CASE w < j
    <3>1. \/ Windows[w].size <= Windows[j].size
          \/ Windows[j].addr + Windows[j].size < Windows[w].addr
          \/ Windows[w].addr + Windows[w].size < Windows[j].addr
      BY <1>4, <2>1, <2>4 DEF Bus!NarrowFirst
    <3> QED
      BY <2>1, <2>2, <3>1
  <2>5. w = j \/ w < j
    BY <1>4, <2>1, WindowTypes
  <2> QED
    BY <2>3, <2>4, <2>5
<1> QED
  BY <1>4, <1>5, <1>6

(* A transaction keeps the invariant, whichever device it reaches.         *)
LEMMA TransportKeeps ==
  ASSUME Bus!BusConstants, Bus!NarrowFirst, Bus!WritesFit, BusInv,
         mapped = Len(Windows),
         NEW a \in Transactions, Bus!b_transport(a)
  PROVE  BusInv'
<1> DEFINE at == a.addr + target_offset[a.id]
<1>1. PICK d \in Bus!map_address(at) :
        /\ Bus!DeviceTransport(a, d.target, d.offset)
        /\ grant' = Bus!None /\ UNCHANGED <<map, mapped>>
  BY DEF Bus!b_transport
<1>2. a \in Bus!Access /\ at \in Int /\ a.value \in {0, 1}
  BY DEF Bus!BusConstants, Bus!Access
<1>3. d.offset \in Int /\ d.target \in Bus!Index
  BY <1>2, TargetTypes DEF BusInv
<1>4. a.write =>
        /\ map[d.target].device = "memory" =>
             /\ d.offset = at - Bus!RamBase
             /\ d.offset >= 0 /\ d.offset + a.len <= MemSize
        /\ map[d.target].device = "regs" => Bus!Register(d.offset) < 4
  <2> SUFFICES ASSUME a.write
               PROVE  /\ map[d.target].device = "memory" =>
                           /\ d.offset = at - Bus!RamBase
                           /\ d.offset >= 0 /\ d.offset + a.len <= MemSize
                      /\ map[d.target].device = "regs" =>
                           Bus!Register(d.offset) < 4
    OBVIOUS
  <2> QED
    BY WritesReach DEF at
<1>5. /\ Mapped' /\ map' \in [Bus!Index -> Bus!Entry]
      /\ mapped' \in 0 .. Len(Windows)
      /\ (grant' # Bus!None => grant'.first \in Int /\ grant'.last \in Int)
  BY <1>1 DEF BusInv, Mapped, Bus!TypeOK
<1>6. Bus!ReachesOwner'
  BY OwnerReached
<1> DEFINE Kept ==
      /\ mmr' \in [0 .. 7 -> {0, 1}]
      /\ enable' \in {0, 1} /\ reset' \in {0, 1} /\ irq' \in {0, 1}
      /\ mem' \in [0 .. MemSize + 3 -> {0, 1}]
      /\ DOMAIN flat' = Bus!RamBase .. Bus!RamBase + MemSize - 1
      /\ Bus!FlatMemory' /\ Bus!SignalsFollowRegisters'
<1>7. ASSUME map[d.target].device = "regs"
      PROVE  Kept
  <2>1. Bus!RegsTransport(a, d.offset)
    BY <1>1, <1>7 DEF Bus!DeviceTransport
  <2>2. UNCHANGED <<mem, irq, flat>>
    BY <2>1 DEF Bus!RegsTransport
  <2> QED
    BY <1>2, <1>3, <1>4, <1>7, <2>1, <2>2, RegistersKeep DEF BusInv, Bus!TypeOK
<1>8. ASSUME map[d.target].device = "memory"
      PROVE  Kept
  <2>1. Bus!MemoryTransport(a, d.offset)
    BY <1>1, <1>8 DEF Bus!DeviceTransport
  <2>2. UNCHANGED <<mmr, enable, reset, irq>>
    BY <2>1 DEF Bus!MemoryTransport
  <2>3. a.write => /\ d.offset = at - Bus!RamBase
                   /\ d.offset >= 0 /\ d.offset + a.len <= MemSize
    BY <1>4, <1>8, Zenon
  <2>4. /\ mem' \in [0 .. MemSize + 3 -> {0, 1}]
        /\ DOMAIN flat' = Bus!RamBase .. Bus!RamBase + MemSize - 1
        /\ Bus!FlatMemory' /\ Bus!SignalsFollowRegisters'
    BY <1>2, <1>3, <2>1, <2>3, RamKeeps, Zenon
  <2> QED
    BY <2>2, <2>4 DEF BusInv, Bus!TypeOK
<1>9. ASSUME map[d.target].device = "debug"
      PROVE  Kept
  <2>1. Bus!DebugTransport(a, d.offset)
    BY <1>1, <1>9 DEF Bus!DeviceTransport
  <2>2. UNCHANGED <<mmr, enable, reset, mem, flat>> /\ irq' \in {irq, a.value}
    BY <2>1 DEF Bus!DebugTransport
  <2> QED
    BY <1>2, <2>2
    DEF BusInv, Bus!TypeOK, Bus!BusDelivers, Bus!FlatMemory,
        Bus!SignalsFollowRegisters
<1>10. ASSUME map[d.target].device \notin {"regs", "memory", "debug"}
      PROVE  Kept
  <2>1. UNCHANGED Bus!devices
    BY <1>1, <1>10 DEF Bus!DeviceTransport
  <2> QED
    BY <2>1, DevicesRest DEF BusInv, Bus!TypeOK, Bus!BusDelivers, Bus!devices
<1>11. Kept
  BY <1>7, <1>8, <1>9, <1>10
<1> QED
  BY <1>5, <1>6, <1>11 DEF BusInv, Bus!TypeOK, Bus!BusDelivers

(***************************************************************************)
(* The bus delivers every transaction to the narrowest window its address  *)
(* lies in, the RAM behind it is a flat memory that no write leaves, and   *)
(* the signals of the processor follow its registers, for every map, every *)
(* garbage the entries of the map start with, every offset of an initiator *)
(* and every grant of direct access (iconnect.h 158-169, memory.cc 49-84,  *)
(* regs.cc 39-51).                                                         *)
(***************************************************************************)
THEOREM BusDeliversAlways ==
  ASSUME Bus!BusConstants, Bus!NarrowFirst, Bus!WritesFit
  PROVE  Bus!Spec => [](Bus!TypeOK /\ Bus!BusDelivers)
<1>1. Bus!Init => BusInv
  BY BusInitKeeps
<1>2. BusInv /\ [Bus!Next]_(Bus!vars) => BusInv'
  <2> SUFFICES ASSUME BusInv, [Bus!Next]_(Bus!vars) PROVE BusInv'
    OBVIOUS
  <2>1. CASE UNCHANGED Bus!vars
    BY <2>1 DEF Bus!vars, Bus!devices, BusInv, Bus!TypeOK, Mapped,
                Bus!BusDelivers, Bus!ReachesOwner, Bus!FlatMemory,
                Bus!SignalsFollowRegisters, Bus!Containing
  <2>2. CASE Bus!memmap
    BY <2>2, MemmapKeeps
  <2>3. ASSUME mapped = Len(Windows), NEW a \in Transactions, Bus!b_transport(a)
        PROVE  BusInv'
    BY <2>3, TransportKeeps
  <2>4. ASSUME NEW a \in Transactions, NEW r \in Ranges,
               Bus!get_direct_mem_ptr(a, r)
        PROVE  BusInv'
    BY <2>4, DirectKeeps
  <2> QED
    BY <2>1, <2>2, <2>3, <2>4 DEF Bus!Next
<1>3. BusInv => Bus!TypeOK /\ Bus!BusDelivers
  BY DEF BusInv
<1> QED
  BY <1>1, <1>2, <1>3, PTL DEF Bus!Spec
=============================================================================
