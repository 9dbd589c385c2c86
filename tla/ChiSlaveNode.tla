---------------------------- MODULE ChiSlaveNode ----------------------------
(***************************************************************************)
(* The slave node of CHI in front of the memory: its four threads and the  *)
(* lists between them, the retries of every second request, the write data *)
(* that come in flits of any order, and the atomics it does for the nodes. *)
(* The node that asks sends a request once those before it on the same     *)
(* line can no longer be overtaken, and what is on another line whenever   *)
(* it likes.                                                               *)
(***************************************************************************)
EXTENDS Integers, Sequences, FiniteSets, Bitwise

CONSTANTS
  Programs,      (* Sequences of requests [op, sub, addr, len, data, be,
                    flits, big, order].                                    *)
  Memories,      (* What the memory may hold at first.                     *)
  Byte,          (* 256, the values of a byte.                             *)
  CACHELINE_SZ,
  Ids            (* The identifiers of TxnIDs.                             *)

VARIABLES
  program, first,    (* What is asked, and of what memory.                 *)
  mem,
  m_toggle,
  m_reqList,         (* RequestOrderer.                                    *)
  m_txn, m_ids,      (* The requests that wait for data, the free ids.     *)
  m_txList, atomic,  (* TxnProcessor, and what its thread read for the
                        atomic it is doing.                                *)
  slave,             (* ReqTxn: its write data, byte enables and
                        m_dataReceived.                                    *)
  rsp, dat,          (* The two TxChannels.                                *)
  sent, flits,       (* How often each request was sent, its data flits.   *)
  got                (* What came back for each request.                   *)

node == <<m_toggle, m_reqList, m_txn, m_ids, m_txList, atomic, slave>>
vars == <<program, first, mem, node, rsp, dat, sent, flits, got>>

Nothing == [id |-> -1]
Numbers == 1 .. Len(program)
Line(a) == a \div CACHELINE_SZ
Offset(a) == a % CACHELINE_SZ
Offsets == 0 .. CACHELINE_SZ - 1

(* Opcodes.                                                                *)
IsRead(r) == r.op \in {"ReadNoSnp", "ReadNoSnpSep"}
IsWrite(r) == r.op \in {"WriteNoSnpPtl", "WriteNoSnpFull"}
IsAtomic(r) ==
  r.op \in {"AtomicStore", "AtomicLoad", "AtomicSwap", "AtomicCompare"}
IsCacheMaintenance(r) ==
  r.op \in {"CleanShared", "CleanSharedPersist", "CleanInvalid", "MakeInvalid"}

Init ==
  /\ program \in Programs /\ first \in Memories /\ mem = first
  /\ m_toggle = FALSE /\ m_reqList = <<>> /\ m_txList = <<>>
  /\ m_txn = [d \in Ids |-> 0] /\ m_ids = Ids /\ atomic = Nothing
  /\ slave = [i \in Numbers |->
                [data |-> [o \in Offsets |-> 0], be |-> {}, received |-> 0]]
  /\ rsp = <<>> /\ dat = <<>>
  /\ sent = [i \in Numbers |-> 0] /\ flits = [i \in Numbers |-> {}]
  /\ got = [i \in Numbers |-> <<>>]

Got(i, op) == \E k \in 1 .. Len(got[i]) : got[i][k].op = op
-----------------------------------------------------------------------------
(* The node that asks.                                                     *)

HasData(r) == IsWrite(r) \/ IsAtomic(r)

(* Nothing overtakes request i any more.                                   *)
Ordered(i) ==
  LET r == program[i]
  IN IF HasData(r) THEN flits[i] = 0 .. r.flits - 1
     ELSE \E op \in {"ReadReceipt", "CompData", "DataSepResp", "Comp"} : Got(i, op)

(* b_transport_rxreq, ReplyRetry and GetToggle: every second request that  *)
(* may be told to retry is.                                                *)
(* The mutant does not look at AllowRetry.                                 *)
MutantTellsRetry(again) == ~m_toggle

TellsRetry(again) == ~again /\ ~m_toggle

b_transport_rxreq(i) ==
  LET again == sent[i] = 1
      answer(op) == [id |-> i, op |-> op, dbid |-> -1]
  IN /\ \/ sent[i] = 0 /\ \A j \in 1 .. i - 1 :
             Line(program[j].addr) = Line(program[i].addr) => Ordered(j)
        \/ sent[i] = 1 /\ Got(i, "RetryAck") /\ Got(i, "PCrdGrant")
     /\ sent' = [sent EXCEPT ![i] = @ + 1]
     /\ m_toggle' = IF again THEN m_toggle ELSE ~m_toggle
     /\ IF TellsRetry(again)
          THEN /\ rsp' = rsp \o <<answer("RetryAck"), answer("PCrdGrant")>>
               /\ UNCHANGED m_reqList
          ELSE m_reqList' = Append(m_reqList, i) /\ UNCHANGED rsp
     /\ UNCHANGED <<program, first, mem, m_txn, m_ids, m_txList, atomic,
                    slave, dat, flits, got>>

(* One of the flits of data, that all have a part of the line.             *)
(* CopyData: what is not enabled keeps what was there.                     *)
CopyData(s, r, k) ==
  LET len == CACHELINE_SZ \div r.flits
      part == k * len .. k * len + len - 1
  IN [data |-> [o \in Offsets |-> IF o \in part \cap r.be THEN r.data[o]
                                  ELSE s.data[o]],
      be |-> (s.be \ part) \cup (part \cap r.be), received |-> s.received + len]

(* b_transport_rxdat.                                                      *)
(* The mutant runs the data phase with the first flit.                     *)
MutantAllWriteDataReceived(s) == s.received > 0

AllWriteDataReceived(s) == s.received = CACHELINE_SZ

b_transport_rxdat(i, k) ==
  /\ k \notin flits[i]
  /\ flits' = [flits EXCEPT ![i] = @ \cup {k}]
  /\ \E n \in 1 .. Len(got[i]) :
       LET d == got[i][n].dbid
           j == m_txn[d]
           new == CopyData(slave[j], program[i], k)
       IN /\ d # -1
          /\ slave' = IF j = 0 THEN slave ELSE [slave EXCEPT ![j] = new]
          /\ IF j # 0 /\ AllWriteDataReceived(new)
               THEN /\ m_txn' = [m_txn EXCEPT ![d] = 0]
                    /\ m_ids' = m_ids \cup {d}
                    /\ m_txList' = Append(m_txList, j)
               ELSE UNCHANGED <<m_txn, m_ids, m_txList>>
  /\ UNCHANGED <<program, first, mem, m_toggle, m_reqList, atomic, rsp, dat,
                 sent, got>>

(* The channels deliver what they have, in order.                          *)
tx_rsp ==
  /\ rsp # <<>>
  /\ got' = [got EXCEPT ![Head(rsp).id] = Append(@, Head(rsp))]
  /\ rsp' = Tail(rsp)
  /\ UNCHANGED <<program, first, mem, node, dat, sent, flits>>

tx_dat ==
  /\ dat # <<>>
  /\ got' = [got EXCEPT ![Head(dat).id] = Append(@, Head(dat))]
  /\ dat' = Tail(dat)
  /\ UNCHANGED <<program, first, mem, node, rsp, sent, flits>>
-----------------------------------------------------------------------------
(* req_ordering_thread and RunResponsePhase. It waits for an identifier    *)
(* when there is none.                                                     *)

RequiresReadReceipt(r) == r.order = 1 \/ r.op = "ReadNoSnpSep"

Response(i) ==
  LET r == program[i]
      with(op, d) == rsp' = Append(rsp, [id |-> i, op |-> op, dbid |-> d])
  IN CASE IsRead(r) ->
            /\ IF RequiresReadReceipt(r) THEN with("ReadReceipt", -1)
               ELSE UNCHANGED rsp
            /\ m_txList' = Append(m_txList, i)
            /\ UNCHANGED <<m_txn, m_ids>>
       [] IsCacheMaintenance(r) ->
            with("Comp", -1) /\ UNCHANGED <<m_txn, m_ids, m_txList>>
       [] OTHER ->
            \E d \in m_ids :
              /\ with(IF IsAtomic(r) /\ r.op # "AtomicStore" THEN "DBIDResp"
                      ELSE "CompDBIDResp", d)
              /\ m_ids' = m_ids \ {d} /\ m_txn' = [m_txn EXCEPT ![d] = i]
              /\ UNCHANGED m_txList

req_ordering ==
  /\ m_reqList # <<>>
  /\ Response(Head(m_reqList)) /\ m_reqList' = Tail(m_reqList)
  /\ UNCHANGED <<program, first, mem, m_toggle, atomic, slave, dat, sent,
                 flits, got>>
-----------------------------------------------------------------------------
(* TxnProcessor::tx_thread.                                                *)

Bytes(m, a, len) == [k \in 1 .. len |-> m[a + k - 1]]
Written(m, a, bytes) ==
  [x \in DOMAIN m |-> IF x \in a .. a + Len(bytes) - 1 THEN bytes[x - a + 1]
                      ELSE m[x]]
SwapBytes(bytes) == [k \in DOMAIN bytes |-> bytes[Len(bytes) + 1 - k]]

RECURSIVE Value(_), Digits(_, _)
Value(bytes) == IF bytes = <<>> THEN 0 ELSE Head(bytes) + Byte * Value(Tail(bytes))
Digits(v, len) == IF len = 0 THEN <<>>
                  ELSE <<v % Byte>> \o Digits(v \div Byte, len - 1)

(* AtomicOperations::Process. The constants of the operations after CLR    *)
(* are written as octal and decimal numbers, 010, 100, that the three bits *)
(* of the opcode never are: they do nothing.                               *)
Process(sub, v, w, len) ==
  CASE sub = "ADD" -> (v + w) % (Byte^len)
    [] sub = "CLR" -> v - (v & w)
    [] OTHER -> v

(* CorrectEndiannessPreOp, Process and CorrectEndiannessPostOp.            *)
(* The mutant does not swap the operand.                                   *)
MutantOperated(r, old, operand) ==
  LET fix(bytes) == IF r.big THEN SwapBytes(bytes) ELSE bytes
  IN fix(Digits(Process(r.sub, Value(fix(old)), Value(operand), r.len), r.len))

Operated(r, old, operand) ==
  LET fix(bytes) == IF r.big THEN SwapBytes(bytes) ELSE bytes
  IN fix(Digits(Process(r.sub, Value(fix(old)), Value(fix(operand)), r.len),
                r.len))

(* GetSwapData.                                                            *)
(* The mutant takes the other half to be the upper one.                    *)
MutantSwapOffset(r) == (Offset(r.addr) + r.len \div 2) % CACHELINE_SZ

SwapOffset(r) ==
  IF Offset(r.addr) % r.len # 0 THEN Offset(r.addr) - r.len \div 2
  ELSE Offset(r.addr) + r.len \div 2

(* HandleAtomic, when `old' was read.                                      *)
AtomicResult(r, s, old) ==
  LET operand == Bytes(s.data, Offset(r.addr), r.len)
      half == r.len \div 2
      compare == Bytes(s.data, Offset(r.addr), half)
      swap == Bytes(s.data, SwapOffset(r), half)
  IN CASE r.op \in {"AtomicStore", "AtomicLoad"} -> Operated(r, old, operand)
       [] r.op = "AtomicSwap" -> operand
       [] r.op = "AtomicCompare" ->
            IF SubSeq(old, 1, half) = compare
              THEN swap \o SubSeq(old, half + 1, r.len) ELSE old

(* DatMsg: the line that was read, or the data before the atomic.          *)
Answer(r, i, bytes) ==
  [id |-> i, dbid |-> -1, data |-> bytes,
   op |-> IF r.op = "ReadNoSnpSep" THEN "DataSepResp" ELSE "CompData"]

tx_thread ==
  /\ m_txList # <<>> /\ atomic = Nothing
  /\ m_txList' = Tail(m_txList)
  /\ LET i == Head(m_txList)
         r == program[i]
         base == Line(r.addr) * CACHELINE_SZ
     IN IF IsAtomic(r)
          THEN /\ atomic' = [id |-> i, old |-> Bytes(mem, r.addr, r.len)]
               /\ UNCHANGED <<mem, dat>>
        ELSE IF IsRead(r)
          THEN /\ dat' = Append(dat, Answer(r, i, Bytes(mem, base, CACHELINE_SZ)))
               /\ UNCHANGED <<mem, atomic>>
        ELSE /\ mem' = [a \in DOMAIN mem |->
                          IF a >= r.addr /\ Line(a) = Line(r.addr)
                             /\ Offset(a) \in slave[i].be
                            THEN slave[i].data[Offset(a)] ELSE mem[a]]
             /\ UNCHANGED <<atomic, dat>>
  /\ UNCHANGED <<program, first, m_toggle, m_reqList, m_txn, m_ids, slave,
                 rsp, sent, flits, got>>

finish_atomic ==
  LET i == atomic.id
      r == program[i]
      len == IF r.op = "AtomicCompare" THEN r.len \div 2 ELSE r.len
  IN /\ atomic # Nothing /\ atomic' = Nothing
     /\ mem' = Written(mem, r.addr, AtomicResult(r, slave[i], atomic.old))
     /\ dat' = IF r.op = "AtomicStore" THEN dat
               ELSE Append(dat, Answer(r, i, SubSeq(atomic.old, 1, len)))
     /\ UNCHANGED <<program, first, m_toggle, m_reqList, m_txn, m_ids,
                    m_txList, slave, rsp, sent, flits, got>>
-----------------------------------------------------------------------------
Next ==
  \/ \E i \in Numbers :
       \/ b_transport_rxreq(i)
       \/ \E k \in 0 .. program[i].flits - 1 : b_transport_rxdat(i, k)
  \/ req_ordering \/ tx_rsp \/ tx_dat \/ tx_thread \/ finish_atomic

Spec == Init /\ [][Next]_vars
-----------------------------------------------------------------------------
(* Properties.                                                             *)

(* The memory after request r, as the protocol has it for every atomic     *)
(* that Process names, done there or not: a number in the memory is added  *)
(* to or replaced by a larger or a smaller one, bits are cleared, set or   *)
(* inverted, words are swapped.                                            *)
Number(bytes, big) == IF big THEN Value(SwapBytes(bytes)) ELSE Value(bytes)

Effect(m, r) ==
  LET at(k) == r.data[Offset(r.addr) + k - 1]
      old == Bytes(m, r.addr, r.len)
      given == [k \in 1 .. r.len |-> at(k)]
      unsigned(bytes) == Number(bytes, r.big)
      signed(bytes) == IF 2 * unsigned(bytes) < Byte^r.len THEN unsigned(bytes)
                       ELSE unsigned(bytes) - Byte^r.len
      sum == (unsigned(old) + unsigned(given)) % (Byte^r.len)
      bits(Op(_, _)) ==
        Written(m, r.addr, [k \in 1 .. r.len |-> Op(old[k], at(k))])
      replaced(yes) == IF yes THEN Written(m, r.addr, given) ELSE m
      half == r.len \div 2
      other == IF (r.addr + half) % r.len = 0 THEN -half ELSE half
  IN CASE IsWrite(r) ->
            [a \in DOMAIN m |->
               IF a >= r.addr /\ Line(a) = Line(r.addr) /\ Offset(a) \in r.be
                 THEN r.data[Offset(a)] ELSE m[a]]
       [] r.sub = "ADD" ->
            CHOOSE n \in {Written(m, r.addr, Digits(sum, r.len)),
                          Written(m, r.addr, SwapBytes(Digits(sum, r.len)))} :
              Number(Bytes(n, r.addr, r.len), r.big) = sum
       [] r.sub = "CLR" -> bits(LAMBDA x, y : x - (x & y))
       [] r.sub = "EOR" -> bits(LAMBDA x, y : x ^^ y)
       [] r.sub = "SET" -> bits(LAMBDA x, y : x | y)
       [] r.sub = "SMAX" -> replaced(signed(given) > signed(old))
       [] r.sub = "SMIN" -> replaced(signed(given) < signed(old))
       [] r.sub = "UMAX" -> replaced(unsigned(given) > unsigned(old))
       [] r.sub = "UMIN" -> replaced(unsigned(given) < unsigned(old))
       [] r.op = "AtomicSwap" -> Written(m, r.addr, given)
       [] r.op = "AtomicCompare" /\ \A k \in 1 .. half : old[k] = at(k) ->
            Written(m, r.addr, [k \in 1 .. half |-> at(k + other)])
       [] OTHER -> m

(* The memory before each request, when all are done in their order.       *)
Reference ==
  LET before[i \in 1 .. Len(program) + 1] ==
        IF i = 1 THEN first ELSE Effect(before[i - 1], program[i - 1])
  IN before

(* What is read is what the requests before it on its line left, an atomic *)
(* returns what was there before it, and at the end the memory is what all *)
(* of them made of it, in the order in which they were asked.              *)
DataInOrder ==
  /\ \A i \in Numbers : \A n \in 1 .. Len(got[i]) :
       got[i][n].op \in {"CompData", "DataSepResp"} =>
         LET r == program[i]
         IN got[i][n].data =
              IF IsRead(r) THEN Bytes(Reference[i], Line(r.addr) * CACHELINE_SZ,
                                      CACHELINE_SZ)
              ELSE Bytes(Reference[i], r.addr,
                     IF r.op = "AtomicCompare" THEN r.len \div 2 ELSE r.len)
  /\ (\A i \in Numbers : Ordered(i)) /\ m_txList = <<>> /\ atomic = Nothing
     /\ m_reqList = <<>> => mem = Reference[Len(program) + 1]

(* Each request is answered as its opcode asks for and once, it is told to *)
(* retry once at most; the data of a request find it; and when the node    *)
(* has nothing to do every request is complete and every identifier is     *)
(* back.                                                                   *)
Expected(r) ==
  CASE IsRead(r) -> (IF RequiresReadReceipt(r) THEN {"ReadReceipt"} ELSE {})
                    \cup {IF r.op = "ReadNoSnpSep" THEN "DataSepResp"
                          ELSE "CompData"}
    [] IsCacheMaintenance(r) -> {"Comp"}
    [] IsWrite(r) \/ r.op = "AtomicStore" -> {"CompDBIDResp"}
    [] OTHER -> {"DBIDResp", "CompData"}

Idle ==
  /\ m_reqList = <<>> /\ m_txList = <<>> /\ atomic = Nothing
  /\ rsp = <<>> /\ dat = <<>>
  /\ \A i \in Numbers : /\ sent[i] > 0
                        /\ Got(i, "RetryAck") => sent[i] = 2
                        /\ HasData(program[i]) => Ordered(i)

AnsweredOnce ==
  /\ \A i \in Numbers :
       /\ \A k, l \in 1 .. Len(got[i]) : got[i][k].op = got[i][l].op => k = l
       /\ \A k \in 1 .. Len(got[i]) :
            got[i][k].op \in Expected(program[i]) \cup {"RetryAck", "PCrdGrant"}
       /\ Idle => \A op \in Expected(program[i]) : Got(i, op)
  /\ \A i \in Numbers : flits[i] # {} /\ ~Ordered(i) =>
       \E d \in Ids : m_txn[d] = i
  /\ Idle => m_ids = Ids
=============================================================================
