----------------------------- MODULE AxiBridges -----------------------------
(***************************************************************************)
(* A TLM initiator, the bridge tlm2axi, the five channels of AXI, the      *)
(* bridge axi2tlm and a TLM target. A transfer on a channel is one step:   *)
(* both ends see valid and ready at the same edge of the clock. In between *)
(* any number of edges may pass, the reset may fall at any of them, and    *)
(* the target answers when it likes. A process takes what is put into its  *)
(* queue in the same instant: the head of a queue is what its process has  *)
(* on the channel, with valid high.                                        *)
(*                                                                         *)
(* An initiator makes one call of b_transport; the aligner cuts it into    *)
(* chunks, each of which is a transaction of the bridge. A transaction     *)
(* lives on the stack of its caller, so the call stands for its pointer.   *)
(***************************************************************************)
EXTENDS Integers, Sequences, SequencesExt, FiniteSets

CONSTANTS
  Scenarios,    (* [calls, aligner, version, resets]: a sequence of calls
                   [cmd, addr, len, sw, be, id, excl, wrap], whether the
                   aligner is there, the version of AXI, how often the reset
                   may fall.                                               *)
  DATA_BUS_BYTES,
  m_maxBurstLength,        (* In beats.                                    *)
  Boundary,                (* Stands for 4096.                             *)
  MemoryBytes,
  m_maxReadTransactions, m_maxWriteTransactions,
  FifoSize                 (* The default size of sc_fifo.                 *)

VARIABLES
  scenario, resetn, resets,
  call,        (* [at, chunk, data, status, exclusive] of every call.      *)
  rdTransFifo, rdResponses, rHold,
               (* The reads of tlm2axi: for the address channel, waiting for
                  data, and the one data comes in for.                     *)
  wrTransFifo, wrDataFifo, wHold, wrResponses,
               (* The writes of tlm2axi: for the address channel, for the
                  data channel, how far that one is, and waiting for the
                  response.                                                *)
  tr,          (* axi2tlm's Transaction objects.                           *)
  rtList, rdDataFifo,
               (* The reads of axi2tlm: for the target, for the channel.   *)
  wrDataList, wtList, wrRespFifo,
               (* The writes of axi2tlm: for data, for the target, for the
                  channel.                                                 *)
  threads,     (* RunTLMTransaction: at most one for a list and an id.     *)
  m_numReadTransactions, m_numWriteTransactions,
  memory,
  asked, served  (* History: the addresses in the order they were taken,
                    and what the target did.                               *)

reads == <<rdTransFifo, rdResponses, rHold>>
writes == <<wrTransFifo, wrDataFifo, wHold, wrResponses>>
slaveReads == <<rtList, rdDataFifo, m_numReadTransactions>>
slaveWrites == <<wrDataList, wtList, wrRespFifo, m_numWriteTransactions>>
target == <<threads, memory, served>>
resetting == <<scenario, resetn, resets>>
vars == <<resetting, call, reads, writes, tr, slaveReads, slaveWrites, target,
          asked>>

None == 0
Calls == DOMAIN scenario.calls
Ids == {scenario.calls[t].id : t \in Calls}
NoTransaction == [abort |-> FALSE]
NoThread == [at |-> "none", of |-> None]
NoBurst == [of |-> None, pos |-> 0]
First == [pos |-> 0, beat |-> 1]
On(queue) == IF queue = <<>> THEN None ELSE Head(queue)
Least(a, b) == IF a < b THEN a ELSE b
Align(a, n) == (a \div n) * n
Enabled(be, i) == be = <<>> \/ be[(i % Len(be)) + 1]

-----------------------------------------------------------------------------
(* The aligner.                                                            *)

compute_natural_alignment(a) ==
  IF a = 0 THEN MemoryBytes
  ELSE CHOOSE n \in 1 .. a : /\ (a % n) = 0 /\ \E k \in 0 .. 5 : n = 2 ^ k
                             /\ ((a \div n) % 2) = 1

max_len == m_maxBurstLength * DATA_BUS_BYTES

(* The mutant does not stop at the boundary.                               *)
MutantRange(a) == Least(max_len, compute_natural_alignment(a))

compute_max_addr_range(a) ==
  Least(Least(max_len, Boundary - (a % Boundary)), compute_natural_alignment(a))

(* The chunk at `pos' of a call of the initiator.                          *)
Piece(c, pos) ==
  LET a == c.addr + (pos % c.sw)
      n == Least(c.len - pos, compute_max_addr_range(a))
      inside == (pos % c.sw) # 0
      len == CASE inside -> Least(n, c.sw - (pos % c.sw))
               [] ~inside /\ c.sw # c.len ->
                    Least(n, Least(DATA_BUS_BYTES, c.sw))
               [] OTHER -> n
  IN [addr |-> a, len |-> len, pos |-> pos,
      sw |-> IF inside \/ c.sw # c.len THEN len ELSE c.sw]

aligned(c) ==
  LET from[pos \in 0 .. c.len] ==
        IF pos = c.len THEN <<>>
        ELSE <<Piece(c, pos)>> \o from[pos + Piece(c, pos).len]
  IN from[0]

Chunks(t) ==
  LET c == scenario.calls[t]
  IN IF scenario.aligner THEN aligned(c)
     ELSE <<[addr |-> c.addr, len |-> c.len, sw |-> c.sw, pos |-> 0]>>

(* The payloads a call has with the bridge, one for each chunk.            *)
Payloads(t) ==
  LET c == scenario.calls[t]
      payload(k) ==
        [cmd |-> c.cmd, addr |-> k.addr, len |-> k.len, sw |-> k.sw,
         pos |-> k.pos, id |-> c.id, excl |-> c.excl, wrap |-> c.wrap,
         be |-> IF c.be = <<>> THEN <<>>
                ELSE [i \in 1 .. Len(c.be) |->
                        c.be[((k.pos + i - 1) % Len(c.be)) + 1]]]
      chunks == Chunks(t)
  IN [n \in DOMAIN chunks |-> payload(chunks[n])]

Gp(t) == call[t].gps[call[t].chunk]

Init ==
  /\ scenario \in Scenarios /\ resetn = TRUE /\ resets = 0
  /\ call = [t \in Calls |->
               [at |-> "ready", chunk |-> 1, status |-> "incomplete",
                exclusive |-> FALSE, gps |-> Payloads(t),
                data |-> [i \in 0 .. scenario.calls[t].len - 1 |->
                            IF scenario.calls[t].cmd = "write"
                              THEN 10 * t + i ELSE 0]]]
  /\ rdTransFifo = <<>> /\ rdResponses = <<>> /\ rHold = NoBurst
  /\ wrTransFifo = <<>> /\ wrDataFifo = <<>> /\ wHold = First
  /\ wrResponses = <<>>
  /\ tr = [t \in Calls |-> NoTransaction]
  /\ rtList = <<>> /\ rdDataFifo = <<>>
  /\ wrDataList = <<>> /\ wtList = <<>> /\ wrRespFifo = <<>>
  /\ threads = [d \in {"read", "write"} |-> [i \in Ids |-> NoThread]]
  /\ m_numReadTransactions = 0 /\ m_numWriteTransactions = 0
  /\ memory = [a \in 0 .. MemoryBytes - 1 |-> a]
  /\ asked = <<>> /\ served = <<>>
-----------------------------------------------------------------------------
(* tlm2axi.                                                                *)

BurstType(g) ==
  CASE g.sw = g.len /\ g.wrap -> "WRAP"
    [] g.sw >= g.len /\ ~(g.sw = g.len /\ g.wrap) -> "INCR"
    [] OTHER -> "FIXED"

BurstWidth(g) ==
  IF BurstType(g) = "FIXED" /\ g.sw < DATA_BUS_BYTES
    THEN IF g.sw > 1 THEN Align(g.sw, 2) ELSE g.sw
    ELSE DATA_BUS_BYTES

NumBeats(g) ==
  LET w == BurstWidth(g)
  IN (g.len + g.addr - Align(g.addr, w) + w - 1) \div w

Validate(g) == /\ g.len # 0 /\ g.sw # 0
               /\ BurstWidth(g) \in {2 ^ k : k \in 0 .. 7}
               /\ NumBeats(g) <= m_maxBurstLength

(* The mutant of the end of a transaction forgets the chunks that remain.  *)
MutantDone(t, status) == [call[t] EXCEPT !.at = "done", !.status = status]

Done(t, status) ==
  IF status = "OK" /\ call[t].chunk < Len(call[t].gps)
    THEN [call[t] EXCEPT !.at = "ready", !.chunk = @ + 1]
    ELSE [call[t] EXCEPT !.at = "done", !.status = status]

(* tlm_gp_set_axi_resp.                                                    *)
Status(resp) == CASE resp \in {"OKAY", "EXOKAY"} -> "OK"
                  [] resp = "DECERR" -> "ADDRESS_ERROR"
                  [] OTHER -> "GENERIC_ERROR"

(* The data of a write may be on their way before the address is taken: a  *)
(* write is given to the data channel when it comes to the address channel.*)
Given(t) == IF t = None THEN wrDataFifo ELSE Append(wrDataFifo, t)

b_transport(t) ==
  /\ call[t].at = "ready"
  /\ IF resetn /\ Validate(Gp(t))
       THEN /\ call' = [call EXCEPT ![t].at = "waiting"]
            /\ IF Gp(t).cmd = "read"
                 THEN /\ rdTransFifo' = Append(rdTransFifo, t)
                      /\ UNCHANGED <<wrTransFifo, wrDataFifo>>
                 ELSE /\ wrTransFifo' = Append(wrTransFifo, t)
                      /\ wrDataFifo' = Given(IF wrTransFifo = <<>> THEN t
                                             ELSE None)
                      /\ UNCHANGED rdTransFifo
       ELSE /\ call' = [call EXCEPT ![t] = Done(t, "GENERIC_ERROR")]
            /\ UNCHANGED <<rdTransFifo, wrTransFifo, wrDataFifo>>
  /\ UNCHANGED <<resetting, rdResponses, rHold, wHold, wrResponses, tr,
                 slaveReads, slaveWrites, target, asked>>

(* What a beat at `pos' of a write holds: how many bytes, at which lanes.  *)
prepare_wbeat(t, pos) ==
  LET g == Gp(t)
      lane == (g.addr + (pos % g.sw)) % DATA_BUS_BYTES
      wlen == Least(Least(g.len - pos, g.sw - (pos % g.sw)),
                    Least(DATA_BUS_BYTES - lane, BurstWidth(g)))
      at(l) == pos + l - lane
  IN [len |-> wlen, id |-> g.id,
      strb |-> {l \in lane .. lane + wlen - 1 : Enabled(g.be, at(l))},
      data |-> [l \in 0 .. DATA_BUS_BYTES - 1 |->
                  IF l \in lane .. lane + wlen - 1
                    THEN call[t].data[g.pos + at(l)] ELSE 0]]

(* The first transaction of a list with an identifier.                     *)
FirstWith(list, id) ==
  LET same == SelectSeq(list, LAMBDA t : scenario.calls[t].id = id)
  IN IF same = <<>> THEN None ELSE Head(same)

(* The mutant takes the last one.                                          *)
MutantLookup(list, id) ==
  LET same == SelectSeq(list, LAMBDA t : scenario.calls[t].id = id)
  IN IF same = <<>> THEN None ELSE Last(same)

LookupAxID(list, id) == FirstWith(list, id)
-----------------------------------------------------------------------------
(* axi2tlm.                                                                *)

(* A transaction made from the signals of an address channel.              *)
Transaction(g) ==
  LET n == NumBeats(g)   w == BurstWidth(g)   fixed == BurstType(g) = "FIXED"
      len == IF fixed THEN n * DATA_BUS_BYTES
             ELSE n * w - (g.addr - Align(g.addr, w))
  IN [cmd |-> g.cmd, id |-> g.id, burst |-> BurstType(g), n |-> n, bytes |-> w,
      addr |-> IF fixed THEN Align(g.addr, DATA_BUS_BYTES) ELSE g.addr,
      len |-> len,
      sw |-> CASE BurstType(g) = "INCR" -> len
               [] fixed -> DATA_BUS_BYTES
               [] OTHER -> w * n,
      wrap |-> BurstType(g) = "WRAP", excl |-> g.excl,
      beat |-> 1, idx |-> 0, data |-> [i \in 0 .. len - 1 |-> 0],
      be |-> [i \in 0 .. len - 1 |-> g.cmd = "read"],
      abort |-> FALSE, resp |-> "incomplete", handled |-> FALSE]

(* The mutant starts every beat at the first lane.                         *)
MutantFillData(s, beat) ==
  LET take == Least(DATA_BUS_BYTES, s.len - s.idx)
      lane(i) == i - s.idx
      new == s.idx .. s.idx + take - 1
  IN [s EXCEPT
       !.idx = @ + take, !.beat = @ + 1,
       !.data = [i \in DOMAIN @ |->
                   IF i \in new THEN beat.data[lane(i)] ELSE @[i]],
       !.be = [i \in DOMAIN @ |->
                 IF i \in new THEN lane(i) \in beat.strb ELSE @[i]]]

FillData(s, beat) ==
  LET first == IF s.beat = 1 THEN (s.addr % DATA_BUS_BYTES) ELSE 0
      take == Least(DATA_BUS_BYTES - first, s.len - s.idx)
      lane(i) == first + i - s.idx
      new == s.idx .. s.idx + take - 1
  IN [s EXCEPT
       !.idx = @ + take, !.beat = @ + 1,
       !.data = [i \in DOMAIN @ |->
                   IF i \in new THEN beat.data[lane(i)] ELSE @[i]],
       !.be = [i \in DOMAIN @ |->
                 IF i \in new THEN lane(i) \in beat.strb ELSE @[i]]]

(* The lanes a beat of a read has data at.                                 *)
Lanes(s) ==
  LET base == Align(s.addr, s.bytes) + (s.beat - 1) * s.bytes
      low == IF s.beat = 1 THEN (s.addr % DATA_BUS_BYTES)
             ELSE (base % DATA_BUS_BYTES)
  IN IF s.burst = "FIXED" THEN 0 .. DATA_BUS_BYTES - 1
     ELSE low .. (base % DATA_BUS_BYTES) + s.bytes - 1

GetData(s) ==
  LET low == CHOOSE l \in Lanes(s) : \A k \in Lanes(s) : l <= k
  IN [l \in 0 .. DATA_BUS_BYTES - 1 |->
        IF l \in Lanes(s) THEN s.data[s.idx + l - low] ELSE 0]

IsLastBeat(s) == s.beat = s.n

InList(list, id) == FirstWith(list, id) # None

(* The mutant starts a thread for every transaction.                       *)
MutantSpawn(dir, t, list) ==
  [threads EXCEPT ![dir][tr'[t].id] = [at |-> "waits", of |-> t]]

Spawn(dir, t, list) ==
  IF InList(list, tr'[t].id) THEN threads
  ELSE [threads EXCEPT ![dir][tr'[t].id] = [at |-> "waits", of |-> t]]

assert_arready == m_numReadTransactions < m_maxReadTransactions
assert_awready == m_numWriteTransactions < m_maxWriteTransactions

(* The address channels: the end of tlm2axi, the end of axi2tlm.           *)
read_address_phase(t) ==
  /\ rdResponses' = Append(rdResponses, t)
  /\ rdTransFifo' = Tail(rdTransFifo)

accepts_read(t) ==
  /\ assert_arready
  /\ tr' = [tr EXCEPT ![t] = Transaction(Gp(t))]
  /\ threads' = Spawn("read", t, rtList)
  /\ rtList' = Append(rtList, t)
  /\ m_numReadTransactions' = m_numReadTransactions + 1

ar_transfers ==
  /\ resetn /\ rdTransFifo # <<>>
  /\ LET t == Head(rdTransFifo)
     IN /\ read_address_phase(t) /\ accepts_read(t)
        /\ asked' = Append(asked, <<t, call[t].chunk>>)
  /\ UNCHANGED <<resetting, call, rHold, writes, rdDataFifo, slaveWrites,
                 memory, served>>

write_address_phase ==
  /\ wrTransFifo' = Tail(wrTransFifo)
  /\ wrDataFifo' = Given(On(wrTransFifo'))

accepts_write(t) ==
  /\ assert_awready
  /\ tr' = [tr EXCEPT ![t] = Transaction(Gp(t))]
  /\ wrDataList' = Append(wrDataList, t)
  /\ m_numWriteTransactions' = m_numWriteTransactions + 1

aw_transfers ==
  /\ resetn /\ wrTransFifo # <<>>
  /\ LET t == Head(wrTransFifo)
     IN /\ write_address_phase /\ accepts_write(t)
        /\ asked' = Append(asked, <<t, call[t].chunk>>)
  /\ UNCHANGED <<resetting, call, reads, wHold, wrResponses, slaveReads,
                 wtList, wrRespFifo, target>>

(* The transaction a beat is for.                                          *)
DataFor(beat) ==
  IF scenario.version = "AXI4" THEN Head(wrDataList)
  ELSE FirstWith(wrDataList, beat.id)

(* The data channel of writes.                                             *)
write_data_phase(w, beat) ==
  LET pos == wHold.pos + beat.len
  IN IF pos < Gp(w).len
       THEN /\ wHold' = [pos |-> pos, beat |-> wHold.beat + 1]
            /\ UNCHANGED <<wrDataFifo, wrResponses>>
       ELSE /\ wHold' = First
            /\ wrDataFifo' = Tail(wrDataFifo)
            /\ wrResponses' = Append(wrResponses, w)

accepts_data(t, beat) ==
  /\ t # None
  /\ tr' = [tr EXCEPT ![t] = FillData(@, beat)]
  /\ IF tr'[t].beat > tr[t].n
       THEN /\ wrDataList' = Remove(wrDataList, t)
            /\ threads' = Spawn("write", t, wtList)
            /\ wtList' = Append(wtList, t)
       ELSE UNCHANGED <<wrDataList, threads, wtList>>

w_transfers ==
  /\ resetn /\ wrDataFifo # <<>> /\ wrDataList # <<>>
  /\ LET w == Head(wrDataFifo)   beat == prepare_wbeat(w, wHold.pos)
     IN write_data_phase(w, beat) /\ accepts_data(DataFor(beat), beat)
  /\ UNCHANGED <<resetting, call, reads, wrTransFifo, slaveReads, wrRespFifo,
                 m_numWriteTransactions, memory, served, asked>>
-----------------------------------------------------------------------------
(* The threads that call the target.                                       *)

ListOf(dir) == IF dir = "read" THEN rtList ELSE wtList

(* The mutant looks at the page of no other transaction.                   *)
MutantOverlapping(list, t) == FALSE

OverlappingAddress(list, t) ==
  \E i \in 1 .. Len(list) :
    /\ \A j \in 1 .. i : list[j] # t
    /\ tr[list[i]].addr \div Boundary = tr[t].addr \div Boundary

calls_target(dir, id) ==
  LET th == threads[dir][id]
  IN /\ resetn /\ th.at = "waits"
     /\ ~OverlappingAddress(ListOf(dir), th.of)
     /\ threads' = [threads EXCEPT ![dir][id].at = "target"]
     /\ UNCHANGED <<resetting, call, reads, writes, tr, slaveReads,
                    slaveWrites, memory, served, asked>>

(* Where byte i of a payload belongs, for the initiator and the target.    *)
ByteAddress(g, i) ==
  IF g.wrap THEN Align(g.addr, g.sw) + ((g.addr + i) % g.sw)
  ELSE g.addr + (i % g.sw)

Stored(s) ==
  [a \in DOMAIN memory |->
     LET hits == {i \in 0 .. s.len - 1 : s.be[i] /\ ByteAddress(s, i) = a}
     IN IF hits = {} THEN memory[a]
        ELSE s.data[CHOOSE i \in hits : \A j \in hits : j <= i]]

Loaded(s) ==
  [i \in 0 .. s.len - 1 |->
     IF ByteAddress(s, i) \in DOMAIN memory THEN memory[ByteAddress(s, i)]
     ELSE 0]

Next_(list, id) ==
  IF InList(list, id) THEN [at |-> "waits", of |-> FirstWith(list, id)]
  ELSE NoThread

(* read_data_phase and write_resp_phase.                                   *)
Response(s) == CASE s.resp = "ADDRESS_ERROR" -> "DECERR"
                 [] s.resp = "GENERIC_ERROR" -> "SLVERR"
                 [] s.resp = "OK" /\ s.excl /\ s.handled -> "EXOKAY"
                 [] OTHER -> "OKAY"

(* The mutant goes on with a transaction that a reset aborted.             *)
MutantAborted(t) == FALSE

AbortScheduled(t) == tr[t].abort

(* The target may say of an exclusive access that it handled it as such.   *)
target_returns(dir, id, status, handled) ==
  LET th == threads[dir][id]   t == th.of   s == tr[t]
      ok == status = "OK"
      list == Remove(ListOf(dir), t)
      goesOn == resetn /\ ~AbortScheduled(t)
  IN /\ th.at = "target" /\ (handled => ok /\ s.excl)
     /\ memory' = IF ok /\ dir = "write" THEN Stored(s) ELSE memory
     /\ served' = IF ok THEN Append(served, [of |-> t, chunk |-> call[t].chunk,
                                             was |-> memory, is |-> memory'])
                  ELSE served
     /\ tr' = [tr EXCEPT ![t] =
                 IF ~goesOn THEN NoTransaction
                 ELSE [s EXCEPT !.resp = status, !.handled = handled,
                                !.data = IF ok /\ dir = "read" THEN Loaded(s)
                                         ELSE @]]
     /\ threads' = [threads EXCEPT ![dir][id] =
                      IF resetn THEN Next_(list, id) ELSE NoThread]
     /\ IF dir = "read"
          THEN /\ rtList' = list
               /\ rdDataFifo' = IF goesOn THEN Append(rdDataFifo, t)
                                ELSE rdDataFifo
               /\ UNCHANGED <<wtList, wrRespFifo>>
          ELSE /\ wtList' = list
               /\ wrRespFifo' = IF goesOn THEN Append(wrRespFifo, t)
                                ELSE wrRespFifo
               /\ UNCHANGED <<rtList, rdDataFifo>>
     /\ UNCHANGED <<resetting, call, reads, writes, m_numReadTransactions,
                    wrDataList, m_numWriteTransactions, asked>>
-----------------------------------------------------------------------------
(* The answers.                                                            *)

(* The bytes tlm2axi takes from a beat of a read.                          *)
ReadBeat(t, pos, beat) ==
  LET g == Gp(t)
      lane == (g.addr + (pos % g.sw)) % DATA_BUS_BYTES
      readlen == Least(Least(DATA_BUS_BYTES - lane, g.len - pos),
                       BurstWidth(g))
  IN [len |-> readlen,
      data |-> [i \in DOMAIN call[t].data |->
                  LET k == i - g.pos - pos
                  IN IF k \in 0 .. readlen - 1 /\ Enabled(g.be, pos + k)
                       THEN beat[lane + k] ELSE call[t].data[i]]]

(* The data channel of reads: the end of axi2tlm, the end of tlm2axi.      *)
read_data_phase(u) ==
  LET last == IsLastBeat(tr[u])
  IN /\ rdDataFifo' = IF last THEN Tail(rdDataFifo) ELSE rdDataFifo
     /\ tr' = [tr EXCEPT ![u] =
                 IF last THEN NoTransaction
                 ELSE [@ EXCEPT !.beat = @ + 1,
                                !.idx = @ + Cardinality(Lanes(tr[u]))]]
     /\ m_numReadTransactions' = m_numReadTransactions
                                 - (IF last THEN 1 ELSE 0)

read_resp_phase(t, beat, resp) ==
  LET got == ReadBeat(t, rHold.pos, beat)
      pos == rHold.pos + got.len
      over == pos = Gp(t).len
      filled == [call EXCEPT ![t].data = got.data]
  IN /\ t # None
     /\ rdResponses' = IF rHold.of = None THEN Remove(rdResponses, t)
                       ELSE rdResponses
     /\ rHold' = IF over THEN NoBurst ELSE [of |-> t, pos |-> pos]
     /\ call' = IF over
                  THEN [filled EXCEPT
                         ![t] = [Done(t, Status(resp)) EXCEPT
                                  !.data = got.data,
                                  !.exclusive = resp = "EXOKAY"]]
                  ELSE filled

r_transfers ==
  /\ resetn /\ rdDataFifo # <<>>
  /\ LET u == Head(rdDataFifo)
         t == IF rHold.of = None THEN LookupAxID(rdResponses, tr[u].id)
              ELSE rHold.of
     IN /\ read_data_phase(u)
        /\ read_resp_phase(t, GetData(tr[u]), Response(tr[u]))
  /\ UNCHANGED <<resetting, rdTransFifo, writes, rtList, slaveWrites, target,
                 asked>>

(* The response channel of writes, in the same way.                        *)
sends_response(u) ==
  /\ tr' = [tr EXCEPT ![u] = NoTransaction]
  /\ wrRespFifo' = Tail(wrRespFifo)
  /\ m_numWriteTransactions' = m_numWriteTransactions - 1

write_resp_phase(t, resp) ==
  /\ t # None
  /\ wrResponses' = Remove(wrResponses, t)
  /\ call' = [call EXCEPT ![t] = [Done(t, Status(resp)) EXCEPT
                                   !.exclusive = resp = "EXOKAY"]]

b_transfers ==
  /\ resetn /\ wrRespFifo # <<>>
  /\ LET u == Head(wrRespFifo)
     IN /\ sends_response(u)
        /\ write_resp_phase(LookupAxID(wrResponses, tr[u].id),
                            Response(tr[u]))
  /\ UNCHANGED <<resetting, reads, wrTransFifo, wrDataFifo, wHold, slaveReads,
                 wrDataList, wtList, target, asked>>
-----------------------------------------------------------------------------
(* Reset. All the processes that wait see it at the same time.             *)

(* The pointers the bridge holds. A write is with the data channel from    *)
(* the moment it is on the address channel.                                *)
Held == rdTransFifo \o rdResponses \o <<rHold.of>> \o wrDataFifo
        \o SelectSeq(wrTransFifo, LAMBDA t : t # On(wrTransFifo))

Pointers == SelectSeq(Held \o wrResponses, LAMBDA t : t # None)

(* The mutant leaves out what waits for the response to a write.           *)
MutantAborts == {t \in Calls : Contains(Held, t)}

Aborts == {t \in Calls : Contains(Pointers, t)}

Running(dir) == {threads[dir][i].of : i \in
                   {i \in Ids : threads[dir][i].at = "target"}}

reset_falls ==
  /\ resetn /\ resets < scenario.resets
  /\ resetn' = FALSE /\ resets' = resets + 1
  /\ call' = [t \in Calls |-> IF t \in Aborts THEN Done(t, "GENERIC_ERROR")
                               ELSE call[t]]
  /\ rdTransFifo' = <<>> /\ rdResponses' = <<>> /\ rHold' = NoBurst
  /\ wrTransFifo' = <<>> /\ wrDataFifo' = <<>> /\ wHold' = First
  /\ wrResponses' = <<>>
  /\ tr' = [t \in Calls |->
              IF t \in Running("read") \cup Running("write")
                THEN [tr[t] EXCEPT !.abort = TRUE]
              ELSE NoTransaction]
  /\ rtList' = SelectSeq(rtList, LAMBDA t : t \in Running("read"))
  /\ wtList' = SelectSeq(wtList, LAMBDA t : t \in Running("write"))
  /\ rdDataFifo' = <<>> /\ wrDataList' = <<>> /\ wrRespFifo' = <<>>
  /\ threads' = [d \in DOMAIN threads |-> [i \in Ids |->
                   IF threads[d][i].at = "target" THEN threads[d][i]
                   ELSE NoThread]]
  /\ m_numReadTransactions' = 0 /\ m_numWriteTransactions' = 0
  /\ UNCHANGED <<scenario, memory, served, asked>>

reset_rises ==
  /\ ~resetn /\ resetn' = TRUE
  /\ UNCHANGED <<scenario, resets, call, reads, writes, tr, slaveReads,
                 slaveWrites, target, asked>>

Next ==
  \/ \E t \in Calls : b_transport(t)
  \/ ar_transfers \/ aw_transfers \/ w_transfers
  \/ \E d \in {"read", "write"}, i \in Ids :
       \/ calls_target(d, i)
       \/ \E status \in {"OK", "ADDRESS_ERROR", "GENERIC_ERROR"},
             handled \in BOOLEAN : target_returns(d, i, status, handled)
  \/ r_transfers \/ b_transfers \/ reset_falls \/ reset_rises

Spec == Init /\ [][Next]_vars
-----------------------------------------------------------------------------
(* Properties.                                                             *)

Waiting == {t \in Calls : call[t].at = "waiting"}

(* The bridge holds the pointer of a transaction exactly as long as its    *)
(* caller waits, and in one place: no reset leaves a caller waiting for    *)
(* ever, wakes it twice, or leaves a pointer to a stack that is gone.      *)
PointersAlive ==
  /\ IsInjective(Pointers)
  /\ {Pointers[i] : i \in DOMAIN Pointers} = Waiting

(* axi2tlm forgets nothing: whatever waits for the target has a thread     *)
(* that will come to it, the counters that hold ready back count what is   *)
(* in the bridge, and there is room in the queues that are written while   *)
(* valid is high.                                                          *)
NothingForgotten ==
  /\ \A dir \in {"read", "write"}, t \in Calls :
       Contains(ListOf(dir), t) =>
         threads[dir][tr[t].id].of = FirstWith(ListOf(dir), tr[t].id)
  /\ m_numReadTransactions =
       Cardinality({t \in Calls : Contains(rtList, t) /\ ~AbortScheduled(t)})
       + Len(rdDataFifo)
  /\ m_numWriteTransactions =
       Cardinality({t \in Calls : Contains(wtList, t) /\ ~AbortScheduled(t)})
       + Len(wrDataList) + Len(wrRespFifo)
  /\ Len(wrDataFifo) <= FifoSize + 1
  /\ Len(rdDataFifo) <= FifoSize + 1 /\ Len(wrRespFifo) <= FifoSize + 1

(* The bytes chunk k of a call means, by address, from the call alone.     *)
Meant(t, k) ==
  LET c == scenario.calls[t]   ch == Chunks(t)[k]
  IN {i \in ch.pos .. ch.pos + ch.len - 1 : Enabled(c.be, i)}

Place(t, i) == ByteAddress(scenario.calls[t], i)

(* Every byte an initiator wrote or read is the one it asked for: a write  *)
(* changes the bytes that are enabled, in their order, and no others; a    *)
(* read returns what the target held when it served it.                    *)
BytesRight ==
  /\ \A n \in 1 .. Len(served) :
       LET v == served[n]   bytes == Meant(v.of, v.chunk)
       IN scenario.calls[v.of].cmd = "write" =>
            \A a \in DOMAIN memory :
              LET hits == {i \in bytes : Place(v.of, i) = a}
              IN v.is[a] = IF hits = {} THEN v.was[a]
                           ELSE call[v.of].data[CHOOSE i \in hits :
                                                  \A j \in hits : j <= i]
  /\ \A t \in Calls :
       call[t].at = "done" /\ call[t].status = "OK" =>
         \A k \in 1 .. Len(call[t].gps) :
           LET mine == SelectSeq(served,
                                 LAMBDA v : v.of = t /\ v.chunk = k)
           IN /\ Len(mine) = 1
              /\ scenario.calls[t].cmd = "read" =>
                   \A i \in Meant(t, k) :
                     call[t].data[i] = mine[1].was[Place(t, i)]
              /\ call[t].exclusive => scenario.calls[t].excl

(* The target serves what has the same identifier, or is in the same page, *)
(* in the order of the addresses.                                          *)
InOrder ==
  LET order == [n \in 1 .. Len(served) |-> <<served[n].of, served[n].chunk>>]
      cmd(x) == scenario.calls[x[1]].cmd
      page(x) == Chunks(x[1])[x[2]].addr \div Boundary
      together(x, y) == /\ cmd(x) = cmd(y)
                        /\ \/ scenario.calls[x[1]].id = scenario.calls[y[1]].id
                           \/ page(x) = page(y)
  IN \A i, j \in 1 .. Len(asked) :
       /\ i < j /\ together(asked[i], asked[j])
       /\ Contains(order, asked[i]) /\ Contains(order, asked[j])
       => \A m, n \in 1 .. Len(order) :
            order[m] = asked[i] /\ order[n] = asked[j] => m < n

(* Both ends agree which beat is the last, every answer finds the          *)
(* transaction it is for, and no burst of the aligner crosses the boundary.*)
EndsAgree ==
  /\ wrDataFifo # <<>> /\ wrDataList # <<>> =>
       LET w == Head(wrDataFifo)
           beat == prepare_wbeat(w, wHold.pos)
           t == DataFor(beat)
           last == wHold.beat = NumBeats(Gp(w))
       IN /\ t = w
          /\ last = (wHold.pos + beat.len = Gp(w).len)
          /\ last = (tr[t].beat = tr[t].n)
  /\ rdDataFifo # <<>> =>
       LET u == Head(rdDataFifo)
           got == ReadBeat(u, rHold.pos, GetData(tr[u]))
       IN /\ u = IF rHold.of = None THEN LookupAxID(rdResponses, tr[u].id)
                 ELSE rHold.of
          /\ IsLastBeat(tr[u]) = (rHold.pos + got.len = Gp(u).len)
  /\ wrRespFifo # <<>> =>
       LookupAxID(wrResponses, tr[Head(wrRespFifo)].id) = Head(wrRespFifo)
  /\ \A t \in Calls :
       scenario.aligner /\ tr[t] # NoTransaction =>
         Align(tr[t].addr, Boundary)
         = Align(tr[t].addr + tr[t].sw - 1, Boundary)
=============================================================================
