---------------------------- MODULE SocketWrappers ----------------------------
(***************************************************************************)
(* The two sockets through which the driver programs the accelerator word  *)
(* by word: dma_socket_wrapper collects a descriptor in a buffer and gives *)
(* it to its DMA when the access that ends the buffer arrives;             *)
(* pe_socket_wrapper counts the weights and gives them to its PE group     *)
(* when the third one arrives.  The driver may be killed between any two   *)
(* accesses, and the next one finds the sockets as they were left.         *)
(*                                                                         *)
(* Addresses and lengths are in words of four bytes.  A word is a pair: the *)
(* descriptor or the set of weights it belongs to, and its place in it.    *)
(***************************************************************************)
EXTENDS Naturals, Sequences

CONSTANTS
  Programs,   (* What send_descriptors may be asked to send: sequences.    *)
  Sets,       (* The sets of weights.                                      *)
  Unset,      (* A word nobody has written, weights nobody has loaded.     *)
  Accesses,   (* The accesses memcpy splits a descriptor into: sequences of
                 [addr, len].                                              *)
  Peeks,      (* The accesses with which other software reads the socket.  *)
  MaxRuns     (* A bound: how often the driver is started.                 *)

DescriptorWords == 5
MAX_WEIGHTS == 3

Access == [addr: 0 .. DescriptorWords - 1, len: 1 .. DescriptorWords]

Descriptor == UNION {{p[i] : i \in DOMAIN p} : p \in Programs}
Word == Descriptor \X (0 .. DescriptorWords - 1)

(* memcpy stores every word, the last one with its last store only.        *)
Covers(a, w) == a.addr <= w /\ w < a.addr + a.len

(* What the constants must be: send_descriptors is asked to send something,*)
(* and memcpy copies all of it.                                            *)
SocketConstants ==
  /\ MaxRuns \in Nat
  /\ \A p \in Programs : p \in Seq(Descriptor) /\ p # <<>>
  /\ Peeks \subseteq Access
  /\ \A s \in Accesses :
       /\ s \in Seq(Access) /\ s # <<>>
       /\ \A w \in 0 .. DescriptorWords - 1 :
            \E i \in 1 .. Len(s) : Covers(s[i], w)
       /\ \A i \in 1 .. Len(s) :
            s[i].addr + s[i].len = DescriptorWords <=> i = Len(s)

(* No read of other software ends where a descriptor does: the socket      *)
(* would take it for the end of one.                                       *)
PeeksEndBefore == \A a \in Peeks : a.addr + a.len # DescriptorWords

VARIABLES
  data_buf,       (* The buffer of the descriptor socket.                  *)
  loaded,         (* What its DMA has been given since the last reset.     *)
  weights,        (* The vector of the weight socket, and its counter.     *)
  message_count,
  group,          (* The weights of its PE group.                          *)
  driver,         (* What the driver does next.                            *)
  program, set,   (* What it sends.                                        *)
  accesses,       (* How it sends a descriptor.                            *)
  sent, done,     (* The descriptors it has sent, the accesses or weights
                     of the next.                                          *)
  runs            (* The counter of the bound.                             *)

sockets == <<data_buf, loaded, weights, message_count, group>>
plan == <<program, set, accesses>>
vars == <<sockets, driver, plan, sent, done, runs>>

Buffer == [0 .. DescriptorWords - 1 -> {Unset} \cup Word]

TypeOK ==
  /\ data_buf \in Buffer
  /\ loaded \in Seq(Buffer)
  /\ weights \in Seq(Sets \X (1 .. MAX_WEIGHTS))
  /\ message_count \in 0 .. MAX_WEIGHTS - 1
  /\ group \in {Unset} \cup [1 .. MAX_WEIGHTS -> Sets \X (1 .. MAX_WEIGHTS)]
  /\ driver \in {"down", "reset", "descriptors", "weights", "ready"}
  /\ program \in Programs /\ set \in Sets /\ accesses \in Accesses
  /\ sent \in 0 .. Len(program)
  /\ done \in Nat
  /\ runs \in 0 .. MaxRuns

Init ==
  /\ data_buf = [w \in 0 .. DescriptorWords - 1 |-> Unset]
  /\ loaded = <<>>
  /\ weights = <<>> /\ message_count = 0
  /\ group = Unset
  /\ driver = "down"
  /\ program \in Programs /\ set \in Sets /\ accesses \in Accesses
  /\ sent = 0 /\ done = 0
  /\ runs = 0

-----------------------------------------------------------------------------
(* The sockets.                                                            *)

(* The mutant takes the access that starts the last word for the end.      *)
MutantLoadIfEndEarly(a, buf) ==
  loaded' = IF a.addr + a.len = DescriptorWords - 1 THEN Append(loaded, buf)
                                                    ELSE loaded

(* b_transport: the end of the buffer is the end of a descriptor, whatever *)
(* the command.                                                            *)
LoadIfEnd(a, buf) ==
  loaded' = IF a.addr + a.len = DescriptorWords THEN Append(loaded, buf)
                                                ELSE loaded

WriteDescriptorSocket(a, d) ==
  /\ data_buf' = [w \in 0 .. DescriptorWords - 1 |->
                    IF Covers(a, w) THEN <<d, w>> ELSE data_buf[w]]
  /\ LoadIfEnd(a, data_buf')

ReadDescriptorSocket(a) ==
  /\ a \in Peeks
  /\ LoadIfEnd(a, data_buf)
  /\ UNCHANGED <<data_buf, weights, message_count, group, driver, plan, sent,
                 done, runs>>

(* The mutant reads the last elements.                                     *)
MutantLoadLastWeights(vector) ==
  SubSeq(vector, Len(vector) - MAX_WEIGHTS + 1, Len(vector))

(* loadWeights reads the first elements of the vector it is given.         *)
LoadWeights(vector) == SubSeq(vector, 1, MAX_WEIGHTS)

(* The mutant tests for the third weight before it counts it.              *)
MutantWriteWeightSocketLate(w) ==
  /\ weights' = Append(weights, w)
  /\ IF message_count = MAX_WEIGHTS
       THEN message_count' = 0 /\ group' = LoadWeights(weights')
       ELSE message_count' = message_count + 1 /\ UNCHANGED group

WriteWeightSocket(w) ==
  /\ weights' = Append(weights, w)
  /\ IF message_count + 1 = MAX_WEIGHTS
       THEN message_count' = 0 /\ group' = LoadWeights(weights')
       ELSE message_count' = message_count + 1 /\ UNCHANGED group

-----------------------------------------------------------------------------
(* The driver: reset, send_all_descriptors, send_all_weights.              *)

Start ==
  /\ driver \in {"down", "ready"} /\ runs < MaxRuns
  /\ driver' = "reset"
  /\ program' \in Programs /\ set' \in Sets /\ accesses' \in Accesses
  /\ sent' = 0 /\ done' = 0
  /\ runs' = runs + 1
  /\ UNCHANGED sockets

(* Reset reaches the DMA, but neither socket and no weight.                *)
Reset ==
  /\ driver = "reset"
  /\ driver' = "descriptors"
  /\ loaded' = <<>>
  /\ UNCHANGED <<data_buf, weights, message_count, group, plan, sent, done,
                 runs>>

(* One store of the memcpy of a descriptor.                                *)
SendDescriptor ==
  /\ driver = "descriptors"
  /\ WriteDescriptorSocket(accesses[done + 1], program[sent + 1])
  /\ IF done + 1 < Len(accesses)
       THEN done' = done + 1 /\ UNCHANGED <<sent, driver>>
       ELSE /\ done' = 0 /\ sent' = sent + 1
            /\ driver' = IF sent' = Len(program) THEN "weights" ELSE driver
  /\ UNCHANGED <<weights, message_count, group, plan, runs>>

SendWeight ==
  /\ driver = "weights"
  /\ WriteWeightSocket(<<set, done + 1>>)
  /\ done' = done + 1
  /\ driver' = IF done' = MAX_WEIGHTS THEN "ready" ELSE driver
  /\ UNCHANGED <<data_buf, loaded, plan, sent, runs>>

(* The driver is killed.                                                   *)
Kill ==
  /\ driver \notin {"down", "ready"}
  /\ driver' = "down"
  /\ UNCHANGED <<sockets, plan, sent, done, runs>>

Next ==
  \/ Start \/ Reset \/ SendDescriptor \/ SendWeight \/ Kill
  \/ \E a \in Access : ReadDescriptorSocket(a)

Spec == Init /\ [][Next]_vars

-----------------------------------------------------------------------------
(* Correctness.                                                            *)

Whole(d) == [w \in 0 .. DescriptorWords - 1 |-> <<d, w>>]

(***************************************************************************)
(* A DMA only ever receives the descriptors of the current program, in     *)
(* order and whole: never a mix of two, whatever a driver that was killed  *)
(* has left in the buffer (dma_socket_wrapper.cc 80-91).                   *)
(***************************************************************************)
DescriptorsArriveWhole ==
  driver \in {"descriptors", "weights", "ready"} =>
    loaded = [i \in 1 .. sent |-> Whole(program[i])]

(***************************************************************************)
(* The weights of a group are for ever the first ones it was given: the    *)
(* vector is never emptied and loadWeights reads its head, so no later set *)
(* takes effect (pe_socket_wrapper.cc 49-55, Right.cc 36-42).              *)
(***************************************************************************)
FirstWeightsStay == [][group # Unset => group' = group]_vars
=============================================================================
