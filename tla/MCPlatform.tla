----------------------------- MODULE MCPlatform ------------------------------
(***************************************************************************)
(* The components that are small on their own, one after the other: `part' *)
(* says whose steps are taken, and the variables of the others stay        *)
(* unused.                                                                 *)
(***************************************************************************)
EXTENDS Integers, Sequences, FiniteSets, TLC

CONSTANTS Unset

VARIABLES
  part, data_buf, loaded, weights, message_count, group, driver, program,
  set, accesses, sent, done, runs, map, mapped, mmr, enable, reset, mem,
  irq, trans, grant, flat, dma, pixelInBus, pe, psumFirst, cloudFirst,
  weight, slice, pc, edges, scenario, answers, seen, toSc, toQemu, mutex,
  rp_pkt_event, phase, frames, caps, rp_pkt_id, resp, master, level,
  changed, wire_update, changes, out, resetn, resets, call, rdTransFifo,
  rdResponses, rHold, wrTransFifo, wrDataFifo, wHold, wrResponses, tr,
  rtList, rdDataFifo, wrDataList, wtList, wrRespFifo, threads,
  m_numReadTransactions, m_numWriteTransactions, memory, asked, served, pos,
  valid, ready, waited, twisted, broken, saved, m_rtList, m_wtList,
  m_wdataList, m_respList, monitor, counts, errors, m_crList, m_cdList,
  snoopCounts, acks, barriers, writes, m_allocated, m_txn, m_snpFwdList,
  m_snpStashList, m_snpList, m_reqs, m_completers, m_credits

-----------------------------------------------------------------------------
(* Programs of one and two descriptors, two sets of weights, descriptors   *)
(* stored word by word, by pairs that overlap, or all at once; reads of    *)
(* the first word.                                                         *)

Store(a, l) == [addr |-> a, len |-> l]

Sockets == INSTANCE SocketWrappers WITH
  Programs <- {<<"d1">>, <<"d2", "d1">>},
  Sets <- {"s1", "s2"},
  Accesses <- { [w \in 1 .. 5 |-> Store(w - 1, 1)],
                <<Store(0, 2), Store(2, 2), Store(1, 2), Store(3, 2)>>,
                <<Store(0, 4), Store(1, 4)>> },
  Peeks <- {Store(0, 1)},
  MaxRuns <- 3

-----------------------------------------------------------------------------
(* The windows of Top in its order, at smaller addresses; the software and *)
(* one DMA; the offsets the programs of the repository access, and those   *)
(* at the ends of the windows.                                             *)

Window(a, s, d) == [addr |-> a, size |-> s, device |-> d]
Write(i, a, l, v) ==
  [id |-> i, write |-> TRUE, addr |-> a, len |-> l, value |-> v]
Read(i, a, l) ==
  [id |-> i, write |-> FALSE, addr |-> a, len |-> l, value |-> 0]

Bus == INSTANCE PlatformBus WITH
  Windows <- << Window(16, 15, "debug"), Window(32, 31, "regs"),
                Window(80, 3, "memory"), Window(0, 126, "zynq") >>,
  N_TARGETS <- 4,
  Garbage <- {Window(0, 0, "zynq"), Window(120, 15, "debug")},
  Initiators <- {"software", "dma"},
  target_offset <- [i \in {"software", "dma"} |-> 0],
  Accesses <-
    {Write("software", 32 + o, 4, v) : o \in {0, 4, 8}, v \in {0, 1}}
      \cup {Write("software", 37, 1, v) : v \in {0, 1}}
      \cup {Write("software", 28, 4, v) : v \in {0, 1}}
      \cup {Write("dma", 80 + o, 1, v) : o \in {0, 3}, v \in {0, 1}}
      \cup {Write("software", 81, 3, v) : v \in {0, 1}}
      \cup {Read("dma", a, 1) : a \in {0, 15, 31, 63, 64, 83, 126}}
      \cup {Read("software", 127, 1)},
  Ranges <- {[start |-> 0, end |-> 1]},
  MemSize <- 4

-----------------------------------------------------------------------------
(* The array of the code, three branches of three groups of three stages,  *)
(* and two images of three rows of four pixels: no two pixels and no two   *)
(* weights are the same.                                                   *)

Array == INSTANCE SystolicArray WITH
  Word <- 128, Garbage <- {}, IMAGE_SIZE <- 12, IMAGE_WIDTH <- 4,
  branchCount <- 3, groupCount <- 3, peArraySize <- 3,
  Slices <- { [b \in 1 .. 3 |-> [i \in 0 .. 11 |-> 100 * n + 20 * b + i]] :
                n \in {1, 2} },
  Pixel <- {0} \cup { 100 * n + 20 * b + i :
                        n \in {1, 2}, b \in 1 .. 3, i \in 0 .. 11 },
  kernel <- [k \in 1 .. 9 |-> [i \in 1 .. 3 |-> 3 * (k - 1) + i + 1]],
  Uninitialised <- {7}, MaxEdges <- 77

-----------------------------------------------------------------------------
(* Remote port. QEMU says hello and sends a posted write, a read and a     *)
(* sync without waiting; accesses that fall through the map and come back  *)
(* to QEMU; interrupts with and without answer; changes of two wires. With *)
(* and without the pthread, and with a QEMU that has all capabilities or   *)
(* none.                                                                   *)

Hole == 99
Pkt(cmd, addr, posted, val) ==
  [cmd |-> cmd, addr |-> addr, posted |-> posted, val |-> val]
Hello == Pkt("hello", 0, FALSE, 0)
SyncPkt == Pkt("sync", 0, FALSE, 0)
PutPkt(addr, posted, val) == Pkt("write", addr, posted, val)
GetPkt(addr) == Pkt("read", addr, FALSE, 0)
Irq(posted, val) == Pkt("interrupt", 0, posted, val)
AllCaps == {"ext_base", "ext_byte_en", "wire_posted_updates"}
Conversations(packets, ahead, posted, c, a, w) ==
  [program: {<<Hello>> \o packets}, outstanding: {ahead}, blocking: BOOLEAN,
   posted_updates: posted, caps: c, accesses: {a}, changes: {w}]

Port == INSTANCE RemotePort WITH
  Scenarios <-
    Conversations(<<PutPkt(0, TRUE, 5), GetPkt(0), SyncPkt>>, 2, {TRUE},
                  {{}, AllCaps}, 1, 0)
    \cup Conversations(<<PutPkt(Hole, TRUE, 5), PutPkt(0, FALSE, 6),
                         GetPkt(0)>>, 1, {TRUE}, {{}, AllCaps}, 1, 0)
    \cup Conversations(<<GetPkt(Hole), Irq(FALSE, 1), Irq(TRUE, 0)>>, 1,
                       {TRUE}, {AllCaps}, 2, 0)
    \cup Conversations(<<SyncPkt, SyncPkt>>, 2, BOOLEAN, {{}, AllCaps},
                       0, 2),
  Masters <- {1, 2}, Wires <- {1, 2}, Slots <- 4

-----------------------------------------------------------------------------
(* AXI bridges. Reads and writes of one, two or three initiators, with the *)
(* same identifier or not, in one page or not, aligned or not, with byte   *)
(* enables, fixed and wrapping bursts, with the aligner or without, in     *)
(* both versions; the reset falls at most once.                            *)

Tx(cmd, addr, len, sw, id) ==
  [cmd |-> cmd, addr |-> addr, len |-> len, sw |-> sw, id |-> id,
   be |-> <<>>, excl |-> FALSE, wrap |-> FALSE]
AxiWrite(addr, len, id) == Tx("write", addr, len, len, id)
AxiRead(addr, len, id) == Tx("read", addr, len, len, id)
Odd(tx) == [tx EXCEPT !.be = <<TRUE, FALSE>>]
Setup(calls, aligner, version, n) ==
  [calls |-> calls, aligner |-> aligner, version |-> version, resets |-> n]

Axi == INSTANCE AxiBridges WITH
  Scenarios <- {
    Setup(<<AxiWrite(0, 2, 1), AxiWrite(1, 1, 2)>>, FALSE, "AXI4", 1),
    Setup(<<AxiWrite(0, 4, 1), AxiWrite(1, 1, 1)>>, FALSE, "AXI3", 1),
    Setup(<<AxiRead(0, 4, 1), AxiRead(1, 2, 1), AxiWrite(1, 3, 1)>>, FALSE,
          "AXI4", 0),
    Setup(<<AxiRead(0, 4, 1), AxiRead(4, 2, 2)>>, FALSE, "AXI4", 1),
    Setup(<<AxiWrite(1, 6, 1), AxiRead(2, 4, 1)>>, TRUE, "AXI4", 1),
    Setup(<<Odd(Tx("write", 2, 4, 2, 1)), Tx("read", 3, 2, 1, 1)>>, FALSE,
          "AXI4", 0),
    Setup(<<[AxiWrite(2, 4, 1) EXCEPT !.wrap = TRUE, !.excl = TRUE],
            [Odd(AxiRead(1, 3, 1)) EXCEPT !.excl = TRUE]>>, FALSE, "AXI4", 0),
    Setup(<<Tx("write", 3, 4, 2, 1), Odd(AxiRead(0, 6, 1))>>, TRUE, "AXI4", 0),
    Setup(<<AxiRead(0, 2, 1), AxiRead(0, 1, 2), AxiRead(5, 1, 2)>>, FALSE,
          "AXI4", 1),
    Setup(<<AxiWrite(0, 2, 1), AxiWrite(0, 1, 2), AxiWrite(5, 1, 2)>>, FALSE,
          "AXI4", 1)},
  DATA_BUS_BYTES <- 2, m_maxBurstLength <- 3, Boundary <- 4, MemoryBytes <- 8,
  m_maxReadTransactions <- 2, m_maxWriteTransactions <- 2, FifoSize <- 2

-----------------------------------------------------------------------------
(* AXI checkers. Legal reads and writes, interleaved, answered out of      *)
(* order, at the boundary of a page and through a reset; and traffic that  *)
(* is wrong in one way: a handshake that is broken, a response that is not *)
(* allowed, strobes outside the transfer, bursts of a wrong length.        *)

Address(id, addr, beats, burst) ==
  [id |-> id, addr |-> addr, beats |-> beats, size |-> 2, burst |-> burst,
   excl |-> FALSE, after |-> {}]
Wd(id, strb, last) == [id |-> id, strb |-> strb, last |-> last, after |-> {}]
Rd(id, last, n) ==
  [id |-> id, last |-> last, resp |-> "OKAY", after |-> {<<"ar", n>>}]
Bd(id, n, k) ==
  [id |-> id, resp |-> "OKAY", after |-> {<<"aw", n>>, <<"w", k>>}]
Reads(ar, r) == [ar |-> ar, r |-> r, aw |-> <<>>, w |-> <<>>, b |-> <<>>]
Writes(aw, w, b) == [ar |-> <<>>, r |-> <<>>, aw |-> aw, w |-> w, b |-> b]
Sc(traffic, lazy, wrong) ==
  [traffic |-> traffic, fault |-> <<>>, wrong |-> wrong, lazy |-> lazy,
   version |-> "AXI4", gaps |-> TRUE, resets |-> 0]
Broken(traffic, f, wrong) == [Sc(traffic, {f[1]}, wrong) EXCEPT !.fault = f]
Full == {0, 1}
LongRead == Reads(<<Address(1, 0, 2, "INCR")>>,
                  <<Rd(1, FALSE, 1), Rd(1, TRUE, 1)>>)
ShortRead == Reads(<<Address(1, 0, 1, "INCR")>>, <<Rd(1, TRUE, 1)>>)
ShortWrite == Writes(<<Address(1, 0, 1, "FIXED")>>, <<Wd(1, Full, TRUE)>>,
                     <<Bd(1, 1, 1)>>)
TwoReads == Reads(<<Address(1, 0, 2, "INCR"), Address(2, 4, 1, "INCR")>>,
                  <<Rd(1, FALSE, 1), Rd(2, TRUE, 2), Rd(1, TRUE, 1)>>)
TwoWrites == Writes(<<Address(1, 1, 2, "INCR"), Address(2, 2, 1, "INCR")>>,
                    <<Wd(1, {1}, FALSE), Wd(1, Full, TRUE), Wd(2, {0}, TRUE)>>,
                    <<Bd(2, 2, 3), Bd(1, 1, 2)>>)
WovenWrites == Writes(<<Address(1, 0, 2, "INCR"), Address(2, 2, 2, "INCR")>>,
                      <<Wd(1, Full, FALSE), Wd(2, Full, FALSE),
                        Wd(2, Full, TRUE), Wd(1, Full, TRUE)>>,
                      <<Bd(2, 2, 3), Bd(1, 1, 4)>>)
LegalTraffic ==
  {Sc(TwoReads, {"ar", "r"}, {}), [Sc(TwoReads, {"r"}, {}) EXCEPT !.resets = 1],
   Sc(TwoWrites, {"aw", "w"}, {}), Sc(TwoWrites, {"b", "w"}, {}),
   [Sc(TwoWrites, {"aw"}, {}) EXCEPT !.gaps = FALSE, !.resets = 1],
   [Sc(WovenWrites, {"b"}, {}) EXCEPT !.version = "AXI3"],
   Sc(Writes(<<Address(1, 4, 2, "INCR"), Address(2, 8, 2, "WRAP")>>,
             <<Wd(1, Full, FALSE), Wd(1, {1}, TRUE), Wd(2, Full, FALSE),
               Wd(2, Full, TRUE)>>, <<Bd(1, 1, 2), Bd(2, 2, 4)>>), {"w"}, {}),
   Sc(Writes(<<Address(1, 6, 2, "FIXED")>>,
             <<Wd(1, Full, FALSE), Wd(1, Full, TRUE)>>, <<Bd(1, 1, 2)>>),
      {"aw", "w", "b"}, {})}
BrokenHandshakes ==
  {Broken(ShortRead, <<"r", "changes">>, {"unstable"}),
   Broken(LongRead, <<"ar", "drops">>, {"toggled"}),
   Broken(LongRead, <<"r", "never valid">>, {"hangup"}),
   Broken(ShortWrite, <<"b", "never ready">>, {"hangup"}),
   Broken(ShortWrite, <<"aw", "never valid">>, {"hangup"}),
   [Broken(ShortWrite, <<"w", "keeps valid">>, {"reset"}) EXCEPT !.resets = 1]}
WrongTraffic ==
  {Sc(Reads(<<Address(1, 0, 2, "INCR")>>, <<Rd(1, TRUE, 1)>>), {"r"},
      {"rd order"}),
   Sc(Reads(<<Address(1, 0, 3, "WRAP"), Address(2, 6, 2, "INCR")>>,
            <<Rd(2, FALSE, 2), [Rd(2, TRUE, 2) EXCEPT !.resp = "EXOKAY"],
              Rd(1, FALSE, 1), Rd(1, FALSE, 1), Rd(1, TRUE, 1)>>),
      {"r"}, {"axlen", "alignment", "response"}),
   Sc(Writes(<<Address(1, 0, 2, "INCR")>>, <<Wd(1, Full, TRUE)>>,
             <<Bd(1, 1, 1)>>), {"w"}, {"wr burst"}),
   Sc(Writes(<<Address(1, 1, 2, "INCR")>>,
             <<Wd(1, Full, FALSE), Wd(1, Full, TRUE)>>, <<Bd(2, 1, 2)>>),
      {"w"}, {"wstrb", "wr id"}),
   Sc(Writes(<<Address(1, 0, 1, "INCR"), Address(2, 2, 1, "INCR"),
               Address(1, 4, 1, "INCR")>>,
             <<Wd(1, Full, TRUE), Wd(2, {}, TRUE), Wd(1, Full, TRUE)>>,
             <<Bd(1, 3, 3), Bd(2, 3, 3)>>), {}, {"wr depth"}),
   [Sc(Writes(<<[Address(1, 1, 2, "INCR") EXCEPT !.excl = TRUE]>>,
              <<Wd(1, {1}, FALSE), Wd(1, {1}, TRUE)>>,
              <<[Bd(1, 1, 2) EXCEPT !.resp = "EXOKAY"]>>), {"aw"}, {"wstrb"})
      EXCEPT !.gaps = FALSE],
   Sc(Reads(<<[Address(1, 0, 1, "INCR") EXCEPT !.excl = TRUE],
              Address(2, 6, 1, "INCR")>>,
            <<[Rd(1, TRUE, 1) EXCEPT !.resp = "EXOKAY"],
              [Rd(2, TRUE, 2) EXCEPT !.resp = "EXOKAY"]>>), {"ar"},
      {"response"}),
   Sc(Reads(<<Address(1, 0, 1, "INCR")>>,
            <<Rd(3, TRUE, 1), Rd(1, FALSE, 1), Rd(1, TRUE, 1)>>), {"r"},
      {"rd id", "rd order"})}

Chk == INSTANCE AxiCheckers WITH
  Channels <- {"ar", "r", "aw", "w", "b"}, Pulses <- {},
  Scenarios <- LegalTraffic \cup BrokenHandshakes \cup WrongTraffic,
  DATA_BUS_BYTES <- 2, Boundary <- 8, max_clks <- 9, max_depth <- 2,
  Patience <- 2

-----------------------------------------------------------------------------
(* ACE checkers. Every snoop in every domain, reads and writes, of which   *)
(* only the legal ones may pass; every read that is answered as shared,    *)
(* and as dirty; the life of two lines; barriers; and traffic that is      *)
(* wrong in one way.                                                       *)

Paths == {"ar", "r", "rack", "aw", "w", "b", "wack", "ac", "cr", "cd"}
Ax(id, snoop, domain, addr, beats) ==
  [id |-> id, snoop |-> snoop, domain |-> domain, bar |-> FALSE, addr |-> addr,
   beats |-> beats, size |-> 2, burst |-> "INCR", excl |-> FALSE, ns |-> FALSE,
   sync |-> FALSE, after |-> {},
   cache |-> {"modifiable"} \cup (IF domain = "System" THEN {}
                                  ELSE {"cacheable"})]
LineAx(id, snoop, addr) == Ax(id, snoop, "Inner", addr, 2)
Bar(id, snoop) == [Ax(id, snoop, "Inner", 0, 1) EXCEPT !.bar = TRUE,
                                                       !.cache = {"modifiable"}]
Dvm(id) == [Ax(id, "DVMMessage", "Inner", 0, 1) EXCEPT !.cache = {"modifiable"}]
Exclusive(t) == [t EXCEPT !.excl = TRUE]
Later(t, c, n) == [t EXCEPT !.after = {<<c, n>>}]
Rr(id, last, n) ==
  [id |-> id, last |-> last, resp |-> "OKAY", shared |-> FALSE, dirty |-> FALSE,
   after |-> {<<"ar", n>>}]
Wr(strb, last, n) == [strb |-> strb, last |-> last, after |-> {<<"aw", n>>}]
Beats(n) == <<Wr(Full, FALSE, n), Wr(Full, TRUE, n)>>
Br(id, n, k) == Bd(id, n, k)
Ac(snoop, addr) ==
  [snoop |-> snoop, addr |-> addr, ns |-> FALSE, after |-> {}]
Cr(data, shared, dirty, n) ==
  [data |-> data, shared |-> shared, dirty |-> dirty, after |-> {<<"ac", n>>}]
NoData(n) == Cr(FALSE, FALSE, FALSE, n)
Cd(last, n) == [last |-> last, after |-> {<<"cr", n>>}]
Pulse(c, n) == [after |-> {<<c, n>>}]
Acks(c, n) == [i \in 1 .. n |-> Pulse(c, i)]
Silent == [c \in Paths |-> <<>>]
Ace(traffic, lazy, wrong) ==
  [traffic |-> traffic @@ Silent, fault |-> <<>>, wrong |-> wrong,
   lazy |-> lazy, version |-> "ACE", gaps |-> TRUE, resets |-> 0, holds |-> {}]
Lite(s) == [s EXCEPT !.version = "ACELite", !.traffic.rack = <<>>,
                     !.traffic.wack = <<>>]

Clean == {"CleanShared", "CleanInvalid", "MakeInvalid"}
Unique == {"CleanUnique", "MakeUnique"}
Caching == {"ReadShared", "ReadClean", "ReadNotSharedDirty", "ReadUnique"}
           \cup Unique
Dvms == {"DVMComplete", "DVMMessage"}
ReadSnoops == {"ReadOnce"} \cup Caching \cup Clean \cup Dvms
WriteSnoops == {"WriteUnique", "WriteLineUnique", "WriteClean", "WriteBack",
                "Evict"}
Domains == {"NonSharable", "Inner", "Outer", "System"}
Sharable == {"Inner", "Outer"}

(* A read of t that is answered with records like x; it leaves the line.   *)
Answered(t, x) ==
  LET single == t.beats = 1 \/ (t.snoop \in Clean \cup Unique
                                /\ t.domain \in Sharable)
  IN [ar |-> <<t>>, rack |-> <<Pulse("r", IF single THEN 1 ELSE 2)>>,
      r |-> IF single THEN <<[x EXCEPT !.last = TRUE]>>
            ELSE <<[x EXCEPT !.last = FALSE], [x EXCEPT !.last = TRUE]>>]
OneRead(t) == Answered(t, Rr(t.id, TRUE, 1))
Filled(traffic, lazy, wrong) ==
  [Ace(traffic, lazy, wrong) EXCEPT
     !.holds = IF traffic.ar[1].snoop \in Caching
                 THEN {<<traffic.ar[1].addr, FALSE>>} ELSE {}]
OneWrite(t) ==
  LET n == IF t.snoop = "Evict" /\ t.domain \in Sharable THEN 0 ELSE 2
  IN [aw |-> <<t>>, w |-> SubSeq(Beats(1), 1, n),
      b |-> <<Br(t.id, 1, n)>>, wack |-> Acks("b", 1)]
ReadOf(p) ==
  [Ax(1, p[1], p[2], 0, IF p[1] \in Dvms THEN 1 ELSE 2) EXCEPT
     !.cache = IF p[1] \in Dvms THEN {"modifiable"} ELSE @,
     !.sync = p[1] = "DVMComplete"]
LegalRead(p) == \/ p[1] = "ReadOnce" \/ p[2] \in Sharable
                \/ p[1] \in Clean /\ p[2] # "System"
LegalWrite(p) == \/ p[1] = "WriteUnique" \/ p[2] \in Sharable
                 \/ p[1] \in {"WriteClean", "WriteBack"} /\ p[2] # "System"
Unless(legal, error) == IF legal THEN {} ELSE {error}

Tables ==
  {Filled(OneRead(ReadOf(p)), {}, Unless(LegalRead(p), "arsnoop")) :
     p \in ReadSnoops \X Domains}
  \cup {Ace(OneWrite(Ax(1, p[1], p[2], 0, 2)), {},
            Unless(LegalWrite(p), "awsnoop")) : p \in WriteSnoops \X Domains}
  \cup {Filled(Answered(ReadOf(<<s, "Inner">>),
                        [Rr(1, TRUE, 1) EXCEPT !.shared = TRUE]), {},
               IF s \in Dvms THEN {"rresp"}
               ELSE Unless(s \in {"ReadShared", "ReadClean", "CleanShared",
                                  "ReadNotSharedDirty"}, "shared")) :
          s \in ReadSnoops \ {"ReadOnce"}}
  \cup {Filled(Answered(ReadOf(<<s, "Inner">>),
                        [Rr(1, TRUE, 1) EXCEPT !.dirty = TRUE]), {},
               IF s \in Dvms THEN {"rresp"}
               ELSE Unless(s \in {"ReadShared", "ReadUnique",
                                  "ReadNotSharedDirty"}, "dirty")) :
          s \in ReadSnoops}

(* A line is read and snooped twice. Two lines are read, one is written    *)
(* back, one evicted. A write and then a pair of barriers.                 *)
Shares == LineAx(1, "ReadShared", 4)
Life ==
  Answered(Shares, [Rr(1, TRUE, 1) EXCEPT !.shared = TRUE])
  @@ [ac |-> <<Later(Ac("ReadClean", 4), "rack", 1),
               Later(Ac("CleanInvalid", 4), "cr", 1)>>,
      cr |-> <<Cr(TRUE, TRUE, FALSE, 1), NoData(2)>>,
      cd |-> <<Cd(FALSE, 1), Cd(TRUE, 1)>>]
Leaves ==
  [ar |-> <<LineAx(1, "MakeUnique", 0), LineAx(1, "ReadUnique", 4)>>,
   r |-> <<Rr(1, TRUE, 1), [Rr(1, FALSE, 2) EXCEPT !.dirty = TRUE],
           [Rr(1, TRUE, 2) EXCEPT !.dirty = TRUE]>>,
   rack |-> <<Pulse("r", 1), Pulse("r", 3)>>,
   aw |-> <<Later(LineAx(2, "WriteBack", 0), "rack", 1),
            Later(LineAx(3, "Evict", 4), "rack", 2)>>,
   w |-> Beats(1), b |-> <<Br(2, 1, 2), Br(3, 2, 0)>>, wack |-> Acks("b", 2)]
Fence ==
  [ar |-> <<Bar(1, "ReadOnce")>>, r |-> <<Rr(1, TRUE, 1)>>,
   rack |-> <<Pulse("r", 1)>>,
   aw |-> <<LineAx(3, "WriteLineUnique", 0), Bar(1, "WriteUnique")>>,
   w |-> Beats(1), b |-> <<Br(3, 1, 2), Br(1, 2, 2)>>, wack |-> Acks("b", 2)]
Long ==
  {[Ace(Life, {"ac", "cr"}, {}) EXCEPT !.resets = 1],
   Ace(Leaves, {"aw", "wack"}, {}), Ace(Fence, {"ar", "aw", "w"}, {}),
   Lite(Ace(OneRead(LineAx(1, "ReadOnce", 0)), {"ar"}, {})),
   Lite(Ace(OneRead(LineAx(1, "CleanShared", 0)), {}, {})),
   Lite(Ace(OneRead(Shares), {}, {"arsnoop"})),
   Lite(Ace(OneWrite(LineAx(1, "WriteLineUnique", 0)), {"w"}, {})),
   Lite(Ace(OneWrite(LineAx(1, "WriteBack", 0)), {}, {"awsnoop"}))}

OneOff(t, wrong) == Filled(OneRead(t), {"r"}, wrong)
TwoOff(t, u, wrong) ==
  Ace([ar |-> <<t, u>>, r |-> <<Rr(t.id, TRUE, 1), Rr(u.id, TRUE, 2)>>,
       rack |-> Acks("r", 2)], {}, wrong)
Discard(id) == LineAx(id, "MakeInvalid", 0)
WrongReads ==
  {OneOff([Shares EXCEPT !.cache = {}], {"arcache", "ar line"}),
   OneOff([Shares EXCEPT !.addr = 2], {"ar line"}),
   OneOff([Shares EXCEPT !.burst = "FIXED"], {"ar line"}),
   OneOff([Shares EXCEPT !.size = 1], {"ar line"}),
   OneOff([Shares EXCEPT !.beats = 1], {"ar line"}),
   OneOff([Shares EXCEPT !.addr = 2, !.burst = "WRAP"], {}),
   OneOff([Shares EXCEPT !.addr = 1, !.burst = "WRAP"], {"ar line"}),
   TwoOff(Bar(1, "ReadOnce"), Discard(1), {"ar ids"}),
   TwoOff(Discard(1), Bar(1, "ReadOnce"), {"ar ids"}),
   TwoOff(Discard(1), Dvm(1), {"ar ids"}), TwoOff(Dvm(1), Discard(1), {"ar ids"}),
   TwoOff(Bar(1, "ReadOnce"), Dvm(1), {"ar ids"}),
   TwoOff(Discard(1), Discard(1), {}),
   TwoOff(Dvm(1), [Dvm(2) EXCEPT !.snoop = "DVMComplete", !.addr = 4], {"DVM"})}
Answer(x, wrong) ==
  Filled([OneRead(Shares) EXCEPT !.r[1] = x @@ @], {}, wrong)
WrongAnswers ==
  {Answer([resp |-> "EXOKAY"], {"rresp"}),
   Filled(Answered(Exclusive(Shares), [Rr(1, TRUE, 1) EXCEPT !.resp = "EXOKAY"]),
          {}, {}),
   Filled(Answered(Exclusive(LineAx(1, "ReadUnique", 0)),
                   [Rr(1, TRUE, 1) EXCEPT !.resp = "EXOKAY"]), {}, {"rresp"}),
   Answer([shared |-> TRUE], {"rresp changes"}),
   Filled([OneRead(Shares) EXCEPT !.r = <<Rr(1, TRUE, 1)>>,
                                  !.rack = Acks("r", 1)], {}, {"rd order"}),
   Filled(Answered(LineAx(1, "ReadNotSharedDirty", 0),
                   [Rr(1, TRUE, 1) EXCEPT !.dirty = TRUE, !.shared = TRUE]),
          {}, {"dirty"}),
   Filled([OneRead(Discard(1)) EXCEPT !.rack = Acks("ar", 1)], {"r"}, {"ack"}),
   [Filled(OneRead(Shares), {}, {"no ack"}) EXCEPT
      !.fault = <<"rack", "never valid">>],
   Ace([OneWrite(LineAx(1, "WriteLineUnique", 0)) EXCEPT !.wack = Acks("w", 1)],
       {}, {"ack"})}

Unq == LineAx(1, "WriteLineUnique", 0)
Ptl == LineAx(1, "WriteUnique", 0)
Back == LineAx(2, "WriteBack", 4)
Lower == [Back EXCEPT !.snoop = "WriteClean"]
TwoWrite(t, u, n, wrong) ==
  Ace([aw |-> <<t, u>>, w |-> Beats(1) \o Beats(2),
       b |-> <<Br(t.id, n, 2), Br(u.id, 2, 4)>>, wack |-> Acks("b", 2)],
      {"w"}, wrong)
WrongWrites ==
  {Ace(OneWrite(t), {}, {"aw line"}) :
     t \in {[Unq EXCEPT !.addr = 2], [Back EXCEPT !.addr = 6],
            [Back EXCEPT !.burst = "FIXED"], [Ptl EXCEPT !.burst = "FIXED"]}}
  \cup
  {Ace([OneWrite(Exclusive(Unq)) EXCEPT !.b[1].resp = "EXOKAY"], {},
       {"aw line", "bresp"}),
   Ace(OneWrite([Ptl EXCEPT !.cache = {}]), {}, {"aw line", "awcache"}),
   Ace(OneWrite(Exclusive(Ax(1, "WriteUnique", "NonSharable", 0, 2))), {}, {}),
   TwoWrite(Back, Unq, 2, {"aw clash"}), TwoWrite(Lower, Unq, 2, {"aw clash"}),
   TwoWrite(Back, Later(Unq, "b", 1), 1, {}),
   Ace([OneWrite(Unq) EXCEPT !.w[1].strb = {0}], {}, {"wstrb"}),
   Ace([OneWrite(Ptl) EXCEPT !.w[1].strb = {0}], {}, {}),
   Ace([OneWrite(Unq) EXCEPT !.w = <<Wr(Full, TRUE, 1)>>,
                             !.b = <<Br(1, 1, 1)>>], {"w"}, {"wr burst"}),
   Ace([OneWrite(Unq) EXCEPT !.b[1].id = 2], {"b"}, {"wr id"}),
   Ace([OneWrite(Unq) EXCEPT !.b[1].resp = "EXOKAY"], {}, {"bresp"}),
   Ace([Fence EXCEPT !.aw[1].id = 1, !.b[1].id = 1], {}, {"aw ids"}),
   Ace([Fence EXCEPT !.aw[2].id = 2, !.b[2].id = 2], {"aw", "ar"}, {"barrier"}),
   Ace([Fence EXCEPT !.ar[1].addr = 4], {}, {"read barrier"}),
   Ace([Fence EXCEPT !.aw[2].addr = 4], {}, {"write barrier"}),
   Ace([Fence EXCEPT !.r[1].shared = TRUE], {}, {"rresp", "shared"})}

Snooped(snoop, x, wrong) ==
  Ace([ac |-> <<Ac(snoop, 0)>>, cr |-> <<x>>,
       cd |-> IF x.data THEN <<Cd(FALSE, 1), Cd(TRUE, 1)>> ELSE <<>>],
      {"cr", "cd"}, wrong)
WrongSnoops ==
  {Snooped("ReadClean", Cr(TRUE, FALSE, FALSE, 1), {"cd data"}),
   Snooped("ReadClean", Cr(FALSE, FALSE, TRUE, 1), {"cr"}),
   Snooped("CleanInvalid", Cr(FALSE, TRUE, FALSE, 1), {"cr"}),
   Snooped("ReadClean", NoData(1), {}), Snooped("CleanUnique", NoData(1), {"ac"}),
   Snooped("MakeUnique", NoData(1), {"ac"}),
   Ace([ac |-> <<Ac("ReadOnce", 1)>>, cr |-> <<NoData(1)>>], {}, {"ac"}),
   Ace([Life EXCEPT !.cr[1].data = FALSE, !.cd = <<>>], {}, {"cd data"}),
   Ace([Life EXCEPT !.cd = <<Cd(TRUE, 1), Cd(FALSE, 1)>>], {}, {"cd"}),
   Ace([ac |-> [i \in 1 .. 3 |-> Ac("ReadOnce", 0)],
        cr |-> [i \in 1 .. 2 |-> NoData(3)]], {}, {"ac depth"}),
   [Ace([Life EXCEPT !.cd = <<>>], {}, {"hangup"}) EXCEPT
      !.fault = <<"cd", "never valid">>],
   [Snooped("ReadOnce", NoData(1), {"toggled"}) EXCEPT !.fault = <<"cr", "drops">>],
   [Snooped("ReadOnce", NoData(1), {"unstable"}) EXCEPT
      !.fault = <<"ac", "changes">>, !.lazy = {"ac"}]}

AChk == INSTANCE AceCheckers WITH
  Channels <- Paths, Pulses <- {"rack", "wack"},
  Scenarios <- Tables \cup Long \cup WrongReads \cup WrongAnswers \cup WrongWrites
               \cup WrongSnoops,
  DATA_BUS_BYTES <- 2, LineBytes <- 4, max_clks <- 9, max_depth <- 2,
  Patience <- 2

-----------------------------------------------------------------------------
(* A request node and its link: requests with every opcode and each        *)
(* attribute as it should and as it should not be, every way a transaction *)
(* or a snoop may end, flits that nothing waits for, requests that are     *)
(* told to retry, credits, and the reset between.                          *)

FlitsAndCredits == {"txreq", "txrsp", "txdat", "rxrsp", "rxdat", "rxsnp",
                    "txreqlcrd", "txrsplcrd", "txdatlcrd", "rxrsplcrd",
                    "rxdatlcrd", "rxsnplcrd"}
Flow(traffic, wrong, lazy, checks) ==
  [traffic |-> [c \in FlitsAndCredits |->
                  IF c \in DOMAIN traffic THEN traffic[c] ELSE <<>>],
   wrong |-> wrong, lazy |-> lazy, checks |-> checks, resets |-> 0,
   fault |-> <<>>, version |-> "CHI", gaps |-> TRUE]
FlitChecks == {"requests", "data", "snoops", "responses", "txns", "retry"}

ReqFlit(op, id, after) ==
  [id |-> id, op |-> op, tgt |-> 7, src |-> 1, ack |-> FALSE, order |-> 0,
   retry |-> TRUE, pcrd |-> 0, addr |-> 64, size |-> 3, snp |-> FALSE,
   excl |-> FALSE, mem |-> {}, ns |-> FALSE, likely |-> FALSE, ret |-> 0,
   stash |-> FALSE, rtx |-> 0, lpid |-> 0, after |-> after]
RspFlit(op, id, dbid, after) ==
  [id |-> id, op |-> op, src |-> 7, tgt |-> 7, dbid |-> dbid, pcrd |-> 0,
   pull |-> FALSE, after |-> after]
DatFlit(op, id, dbid, after) ==
  [id |-> id, op |-> op, src |-> 8, tgt |-> 7, home |-> 7, dbid |-> dbid,
   pull |-> FALSE, after |-> after]
SnpFlit(op, id) ==
  [id |-> id, op |-> op, fwdNID |-> 9, fwdTxn |-> 2, ns |-> FALSE,
   nosd |-> FALSE, ret |-> FALSE, after |-> {}]

(* What the protocol says of ExpCompAck, SnpAttr, ordering and exclusives  *)
(* for each opcode: always, never, or as the requester likes.              *)
Opcodes ==
  LET of(ops, ack, snp, order, excl) == [o \in ops |-> <<ack, snp, order, excl>>]
  IN of({"ReadNoSnp"}, "any", "no", "any", "any")
     @@ of({"ReadOnce", "ReadOnceCleanInvalid", "ReadOnceMakeInvalid"},
           "any", "yes", "any", "no")
     @@ of({"ReadClean", "ReadNotSharedDirty", "ReadShared", "CleanUnique"},
           "yes", "yes", "no", "any")
     @@ of({"ReadUnique", "MakeUnique"}, "yes", "yes", "no", "no")
     @@ of({"Evict", "StashOnceShared", "StashOnceUnique", "WriteBackPtl",
            "WriteBackFull", "WriteEvictFull", "WriteCleanFull"},
           "no", "yes", "no", "no")
     @@ of({"CleanShared", "CleanSharedPersist", "CleanInvalid", "MakeInvalid"},
           "no", "any", "no", "no")
     @@ of({"WriteNoSnpPtl", "WriteNoSnpFull"}, "no", "no", "any", "any")
     @@ of({"WriteUniquePtl", "WriteUniqueFull", "WriteUniquePtlStash",
            "WriteUniqueFullStash"}, "any", "yes", "any", "no")
     @@ of({"AtomicStore", "AtomicLoad", "AtomicSwap", "AtomicCompare"},
           "no", "any", "any", "any")

ReqOf(op) == [ReqFlit(op, 1, {}) EXCEPT !.ack = Opcodes[op][1] = "yes",
                                        !.snp = Opcodes[op][2] = "yes"]

(* The ways in which a transaction of a request may end: what is received  *)
(* and what is sent.                                                       *)
ChiReads == {"ReadNoSnp", "ReadOnce", "ReadOnceCleanInvalid",
             "ReadOnceMakeInvalid", "ReadClean", "ReadNotSharedDirty",
             "ReadShared", "ReadUnique"}
ChiDataless == {"CleanUnique", "MakeUnique", "Evict", "StashOnceShared",
                "StashOnceUnique", "CleanShared", "CleanSharedPersist",
                "CleanInvalid", "MakeInvalid"}
CopiesBack == {"WriteBackPtl", "WriteBackFull", "WriteEvictFull",
               "WriteCleanFull"}
WithData == CopiesBack \cup {"WriteNoSnpPtl", "WriteNoSnpFull", "WriteUniquePtl",
               "WriteUniqueFull", "WriteUniquePtlStash", "WriteUniqueFullStash"}
NoResult == {"AtomicStore", "AtomicStoreClr"}
Results == {"AtomicLoad", "AtomicLoadClr", "AtomicSwap", "AtomicCompare"}

Asked == {<<"txreq", 1>>}
CompAcks(req, after) ==
  [txrsp |-> IF req.ack THEN <<RspFlit("CompAck", 5, 0, after)>> ELSE <<>>]
Endings(req) ==
  LET asks == [txreq |-> <<req>>]
      answered == {<<"rxrsp", 1>>}
      twice == {<<"rxrsp", 2>>}
      whole == [rxdat |-> <<DatFlit("CompData", 1, 5, Asked)>>]
      ackd == CompAcks(req, {<<"rxdat", 1>>})
      split == [rxrsp |-> <<RspFlit("RespSepData", 1, 5, Asked)>>,
                rxdat |-> <<[DatFlit("DataSepResp", 1, 5, Asked)
                               EXCEPT !.src = 7]>>]
      sends(op, after) == [txdat |-> <<DatFlit(op, 5, 0, after)>>]
      op == IF req.op \in CopiesBack THEN "CopyBackWrData"
            ELSE "NonCopyBackWrData"
  IN CASE req.op \in ChiReads ->
            (IF req.order = 0 THEN {asks @@ whole @@ ackd}
             ELSE {asks @@ whole @@ ackd @@
                   [rxrsp |-> <<RspFlit("ReadReceipt", 1, 0, Asked)>>]})
            \cup (IF req.ack \/ req.order = 0
                    THEN {asks @@ split @@
                          CompAcks(req, {<<"rxdat", 1>>, <<"rxrsp", 1>>})}
                    ELSE {})
       [] req.op \in ChiDataless ->
            {asks @@ [rxrsp |-> <<RspFlit("Comp", 1, 5, Asked)>>]
                  @@ CompAcks(req, answered)}
       [] req.op \in WithData \cup NoResult \cup {"DVMOp"} ->
            {asks @@ [rxrsp |-> <<RspFlit("CompDBIDResp", 1, 5, Asked)>>]
                  @@ sends(op, answered) @@ CompAcks(req, answered),
             asks @@ [rxrsp |-> <<RspFlit("DBIDResp", 1, 5, Asked),
                                  RspFlit("Comp", 1, 5, Asked)>>]
                  @@ sends(op, answered) @@ CompAcks(req, twice)}
            \cup (IF req.ack
                    THEN {asks @@ sends("NCBWrDataCompAck", answered) @@
                          [rxrsp |-> <<RspFlit("CompDBIDResp", 1, 5, Asked)>>]}
                    ELSE {})
       [] req.op \in Results ->
            {asks @@ whole @@ sends(op, answered) @@
             [rxrsp |-> <<RspFlit("DBIDResp", 1, 5, Asked)>>]}

LegalFlows ==
  UNION {{Flow(t, {}, {"rxrsp", "rxdat", "txdat", "txrsp"}, FlitChecks) : t \in Endings(req)} :
         req \in {ReqOf(op) : op \in DOMAIN Opcodes}
           \cup {[ReqOf(op) EXCEPT !.ack = TRUE] :
                 op \in {o \in DOMAIN Opcodes : Opcodes[o][1] = "any"}}
           \cup {[ReqOf(op) EXCEPT !.order = 2, !.ack = a] :
                 op \in {"ReadNoSnp", "ReadOnceMakeInvalid", "WriteUniqueFull"},
                 a \in BOOLEAN}
           \cup {[ReqOf(op) EXCEPT !.excl = TRUE] :
                 op \in {o \in DOMAIN Opcodes : Opcodes[o][4] = "any"}}
           \cup {[ReqOf(op) EXCEPT !.snp = TRUE] :
                 op \in {o \in DOMAIN Opcodes : Opcodes[o][2] = "any"}}
           \cup {ReqFlit(op, 1, {}) :
                 op \in {"DVMOp", "AtomicStoreClr", "AtomicLoadClr"}}}

(* A request with one attribute that its opcode does not allow.            *)
WrongRequest(req, wrong) ==
  Flow([txreq |-> <<req>>], wrong, {}, FlitChecks \ {"retry"})
WrongRequests ==
  UNION {{WrongRequest([ReqOf(op) EXCEPT !.ack = ~@], {"ExpCompAck"}) :
            op \in {o \in DOMAIN Opcodes : Opcodes[o][1] # "any"}},
         {WrongRequest([ReqOf(op) EXCEPT !.snp = ~@], {"SnpAttr"}) :
            op \in {o \in DOMAIN Opcodes : Opcodes[o][2] # "any"}},
         {WrongRequest([ReqOf(op) EXCEPT !.order = 3], {"Order"}) :
            op \in {o \in DOMAIN Opcodes : Opcodes[o][3] = "no"}},
         {WrongRequest([ReqOf(op) EXCEPT !.excl = TRUE], {"Excl"}) :
            op \in {o \in DOMAIN Opcodes : Opcodes[o][4] = "no"}},
         {WrongRequest([ReqOf("ReadOnce") EXCEPT !.order = 1], {"Order"}),
          WrongRequest([ReqOf("ReadOnce") EXCEPT !.size = 7], {"Size"}),
          WrongRequest([ReqOf("AtomicLoad") EXCEPT !.size = 4], {"Size"}),
          WrongRequest([ReqOf("AtomicStore") EXCEPT !.addr = 68], {"Address"}),
          WrongRequest([ReqOf("AtomicCompare") EXCEPT !.addr = 65],
                       {"Address"}),
          WrongRequest([ReqOf("Evict") EXCEPT !.pcrd = 1], {"AllowRetry"}),
          WrongRequest(ReqFlit("PrefetchTgt", 1, {}), {"AllowRetry"}),
          WrongRequest(ReqFlit("PCrdReturn", 1, {}), {"AllowRetry"}),
          WrongRequest(ReqFlit("Unknown", 1, {}), {"req opcode"})},
         {WrongRequest(req, {"DVMOp"}) : req \in
            LET dvm == ReqFlit("DVMOp", 1, {})
            IN {[dvm EXCEPT !.size = 4], [dvm EXCEPT !.ret = 1],
                [dvm EXCEPT !.stash = TRUE], [dvm EXCEPT !.rtx = 1],
                [dvm EXCEPT !.ns = TRUE], [dvm EXCEPT !.likely = TRUE],
                [dvm EXCEPT !.mem = {"Cacheable"}],
                [dvm EXCEPT !.snp = TRUE]}}}
  \cup {Flow([rxsnp |-> <<[SnpFlit("SnpDVMOp", 1) EXCEPT
                             !.fwdNID = 0, !.nosd = TRUE]>>],
             {"SnpDVMOp"}, {}, FlitChecks),
        Flow([rxsnp |-> <<SnpFlit("Unknown", 1)>>], {"snp opcode"}, {},
             FlitChecks)}

(* The snoops and their answers.                                           *)
Snooping(op, rsps, dats, received) ==
  [rxsnp |-> <<SnpFlit(op, 1)>>, txrsp |-> rsps, txdat |-> dats,
   rxdat |-> received]
AfterSnp == {<<"rxsnp", 1>>}
Plain == {"SnpShared", "SnpClean", "SnpOnce", "SnpNotSharedDirty", "SnpUnique",
          "SnpCleanShared", "SnpCleanInvalid", "SnpMakeInvalid"}
Forwarding == {"SnpSharedFwd", "SnpCleanFwd", "SnpOnceFwd",
               "SnpNotSharedDirtyFwd", "SnpUniqueFwd"}
Stashing == {"SnpUniqueStash", "SnpMakeInvalidStash", "SnpStashUnique",
             "SnpStashShared"}
Forwarded == [DatFlit("CompData", 2, 0, {<<"txrsp", 1>>}) EXCEPT !.tgt = 9]
LegalSnoops ==
  {Flow(t, {}, {"txrsp", "txdat"}, FlitChecks) : t \in
     {Snooping(op, <<RspFlit("SnpResp", 1, 0, AfterSnp)>>, <<>>, <<>>) :
        op \in Plain \cup Forwarding \cup Stashing}
     \cup {Snooping(op, <<>>, <<DatFlit(d, 1, 0, AfterSnp)>>, <<>>) :
             op \in ((Plain \ {"SnpMakeInvalid"}) \cup Forwarding)
                    \cup {"SnpUniqueStash"},
             d \in {"SnpRespData", "SnpRespDataPtl"}}
     \cup {Snooping(op, <<RspFlit("SnpRespFwded", 1, 0, AfterSnp)>>,
                    <<Forwarded>>, <<>>) : op \in Forwarding}
     \cup {Snooping(op, <<>>, <<DatFlit("SnpRespDataFwded", 1, 0, AfterSnp),
                                [Forwarded EXCEPT !.after = {}]>>, <<>>) :
             op \in Forwarding}
     (* A stash snoop whose answer asks for the data, and which acknowledges *)
     (* them as the requester it has become.                                 *)
     \cup {Snooping(op, <<[RspFlit("SnpResp", 1, 3, AfterSnp)
                             EXCEPT !.pull = TRUE],
                          RspFlit("CompAck", 6, 0, {<<"rxdat", 1>>})>>, <<>>,
                    <<DatFlit("CompData", 3, 6, {<<"txrsp", 1>>})>>) :
             op \in Stashing}
     \cup {Snooping("SnpUniqueStash",
                    <<RspFlit("CompAck", 6, 0, {<<"rxdat", 1>>})>>,
                    <<[DatFlit("SnpRespData", 1, 3, AfterSnp)
                         EXCEPT !.pull = TRUE]>>,
                    <<DatFlit("CompData", 3, 6, {<<"txdat", 1>>})>>)}}
  \cup {Flow([rxsnp |-> <<[SnpFlit("SnpDVMOp", 1) EXCEPT !.fwdNID = 0],
                          [SnpFlit("SnpDVMOp", 1) EXCEPT !.fwdNID = 0]>>,
              txrsp |-> <<RspFlit("SnpResp", 1, 0, {<<"rxsnp", 2>>})>>],
             {}, {}, FlitChecks),
        (* Snoops of three kinds that are answered in another order.       *)
        Flow([rxsnp |-> <<SnpFlit("SnpOnceFwd", 1), SnpFlit("SnpUnique", 2),
                          SnpFlit("SnpStashShared", 3)>>,
              txrsp |-> <<RspFlit("SnpResp", 2, 0, {<<"rxsnp", 2>>}),
                          RspFlit("SnpResp", 3, 0, {<<"rxsnp", 3>>}),
                          RspFlit("SnpResp", 1, 0, {<<"rxsnp", 1>>})>>],
             {}, {"txrsp", "rxsnp"}, FlitChecks)}

(* Flits that nothing waits for. What the node sends is reported as such,  *)
(* what it receives too.                                                   *)
WrongFlits ==
  {Flow([txdat |-> <<DatFlit(op, 1, 0, {})>>], {"tx dat"}, {}, FlitChecks) :
     op \in {"SnpRespData", "SnpRespDataFwded", "CopyBackWrData", "CompData"}}
  \cup {Flow([txrsp |-> <<RspFlit(op, 1, 0, {})>>], {"tx rsp"}, {}, FlitChecks) :
          op \in {"SnpResp", "SnpRespFwded", "CompAck"}}
  \cup {Flow([rxdat |-> <<DatFlit(op, 1, 0, {})>>], {"rx dat"}, {}, FlitChecks) :
          op \in {"CompData", "DataSepResp"}}
  \cup {Flow([rxrsp |-> <<RspFlit(op, 1, 0, {})>>], {"rx rsp"}, {}, FlitChecks) :
          op \in {"Comp", "DBIDResp", "ReadReceipt"}}
  \cup {(* An answer that the opcode does not have.                        *)
        Flow([txreq |-> <<ReqOf(pair[1])>>,
              rxrsp |-> <<RspFlit(pair[2], 1, 5, Asked)>>],
             {"rx rsp"}, {}, FlitChecks) :
          pair \in {<<"ReadUnique", "CompDBIDResp">>, <<"ReadUnique", "Comp">>,
                    <<"MakeUnique", "RespSepData">>, <<"Evict", "DBIDResp">>,
                    <<"WriteBackFull", "RespSepData">>,
                    <<"AtomicLoad", "CompDBIDResp">>}}
  \cup {(* An ordered read that is not acknowledged has its data at once.  *)
        Flow([txreq |-> <<[ReqOf("ReadNoSnp") EXCEPT !.order = 2]>>,
              rxrsp |-> <<RspFlit("RespSepData", 1, 5, Asked)>>],
             {"rx rsp"}, {}, FlitChecks),
        (* The identifier of a request that is under way.                  *)
        Flow([txreq |-> <<ReqOf("Evict"), ReqOf("ReadUnique")>>],
             {"txn id"}, {}, FlitChecks),
        (* A plain snoop does not forward.                                 *)
        Flow(Snooping("SnpShared", <<RspFlit("SnpRespFwded", 1, 0, AfterSnp)>>,
                      <<>>, <<>>), {"tx rsp"}, {}, FlitChecks),
        (* What is not known is nothing that could be waited for.          *)
        Flow([txdat |-> <<DatFlit("Unknown", 1, 0, {})>>],
             {"dat opcode", "tx dat"}, {}, FlitChecks),
        Flow([rxrsp |-> <<RspFlit("Unknown", 1, 0, {})>>],
             {"rsp opcode", "rx rsp"}, {}, FlitChecks)}

(* Requests that are told to retry.                                        *)
RetryAck(id, node, type, after) ==
  [RspFlit("RetryAck", id, 0, after) EXCEPT !.src = node, !.pcrd = type]
Grant(node, type, after) ==
  [RspFlit("PCrdGrant", 0, 0, after) EXCEPT !.src = node, !.pcrd = type]
Again(op, id, type, after) ==
  [ReqOf(op) EXCEPT !.id = id, !.retry = FALSE, !.pcrd = type, !.after = after]
CompOf(id, n) == RspFlit("Comp", id, 5, {<<"txreq", n>>})
Retrying(reqs, rsps, wrong, lazy) ==
  Flow([txreq |-> reqs, rxrsp |-> rsps], wrong, lazy, FlitChecks)
Evicts(n) == [i \in 1 .. n |-> [ReqOf("Evict") EXCEPT !.id = i,
                                                      !.addr = 64 * i]]
SecondAgain(n) == [Again("Evict", 2, 1, {<<"rxrsp", n>>}) EXCEPT !.addr = 128]
RetryFlows ==
  {Retrying(Evicts(1) \o <<Again("Evict", i, 1, {<<"rxrsp", 2>>})>>,
            rsps \o <<CompOf(i, 2)>>, {}, {"txreq", "rxrsp"}) :
     i \in {1, 2},
     rsps \in {<<RetryAck(1, 7, 1, Asked), Grant(7, 1, {})>>,
               <<Grant(7, 1, Asked), RetryAck(1, 7, 1, {})>>}}
  \cup {(* Two requests that are sent again when both credits are there.   *)
        Retrying(Evicts(2) \o <<Again("Evict", 1, 1, {<<"rxrsp", 4>>}),
                                SecondAgain(4)>>,
                 <<RetryAck(1, 7, 1, {<<"txreq", 2>>}), RetryAck(2, 7, 1, {}),
                   Grant(7, 1, {}), Grant(7, 1, {}), CompOf(1, 3),
                   CompOf(2, 4)>>, {}, {"txreq"}),
        (* A credit that nobody needs is returned.                         *)
        Retrying(Evicts(1) \o <<[ReqFlit("PCrdReturn", 0, {<<"rxrsp", 1>>})
                                   EXCEPT !.retry = FALSE, !.pcrd = 1]>>,
                 <<Grant(7, 1, Asked), CompOf(1, 2)>>, {}, {}),
        (* It is not.                                                      *)
        Retrying(Evicts(1), <<Grant(7, 1, Asked), CompOf(1, 1)>>,
                 {"PCredits"}, {"rxrsp"}),
        (* Another completer than the one that gave the credit gets it     *)
        (* back.                                                           *)
        Retrying(Evicts(1) \o <<[ReqFlit("PCrdReturn", 0, {<<"rxrsp", 1>>})
                                   EXCEPT !.retry = FALSE, !.pcrd = 1,
                                          !.tgt = 3]>>,
                 <<Grant(7, 1, Asked)>>, {"retry"}, {}),
        (* A credit of another type.                                       *)
        Retrying(Evicts(1) \o <<Again("Evict", 1, 2, {<<"rxrsp", 2>>})>>,
                 <<RetryAck(1, 7, 1, Asked), Grant(7, 1, {})>>,
                 {"retry"}, {}),
        (* Another request than the one that was told to retry.            *)
        Retrying(Evicts(1) \o <<Again("MakeUnique", 1, 1, {<<"rxrsp", 2>>})>>,
                 <<RetryAck(1, 7, 1, Asked), Grant(7, 1, {})>>,
                 {"retry"}, {}),
        (* Nobody asked.                                                   *)
        Retrying(<<>>, <<RetryAck(1, 7, 1, {})>>, {"RetryAck", "rx rsp"}, {})}

(* Where the checker departs from what its own comments say. A prefetch    *)
(* that cannot be told to retry, as it must be, needs no credit. Of two    *)
(* requests that were told to retry the second may be sent again when its  *)
(* credit comes, also if that is when the credit of the first was used.    *)
Departures ==
  {Flow([txreq |-> <<[ReqFlit("PrefetchTgt", 1, {}) EXCEPT !.retry = FALSE]>>],
        {}, {}, FlitChecks),
   Retrying(Evicts(2) \o <<Again("Evict", 1, 1, {<<"rxrsp", 3>>}),
                           SecondAgain(4)>>,
            <<RetryAck(1, 7, 1, {<<"txreq", 2>>}), RetryAck(2, 7, 1, {}),
              Grant(7, 1, {}), Grant(7, 1, {<<"txreq", 3>>}), CompOf(1, 3),
              CompOf(2, 4)>>, {}, {})}

(* Link credits.                                                           *)
Ticks(n, after) == [i \in 1 .. n |-> [id |-> 0, after |-> after]]
(* Flits that return the credits: each waits for so many of them.          *)
LinkReturns(credits) ==
  [i \in DOMAIN credits |->
     [ReqFlit("ReqLCrdReturn", 0, {<<"txreqlcrd", credits[i]>>})
        EXCEPT !.retry = FALSE]]
CreditFlows ==
  {Flow([txreqlcrd |-> Ticks(2, {}), txreq |-> LinkReturns(<<1, 2>>)],
        {}, {"txreq", "txreqlcrd"}, {"credits"}),
   Flow([txreqlcrd |-> Ticks(1, {}), txreq |-> LinkReturns(<<1, 1>>)],
        {"credits"}, {"txreq"}, {"credits"}),
   Flow([rxsnplcrd |-> Ticks(3, {})], {}, {}, {"credits"}),
   Flow([rxsnplcrd |-> Ticks(4, {})], {"credits"}, {"rxsnplcrd"}, {"credits"})}

ResetFlows ==
  {[Flow(t, {}, {}, FlitChecks) EXCEPT !.resets = 1] : t \in
     Endings([ReqOf("ReadOnce") EXCEPT !.ack = TRUE])
     \cup Endings(ReqOf("WriteBackFull"))
     \cup {Snooping("SnpStashShared",
             <<[RspFlit("SnpResp", 1, 3, AfterSnp) EXCEPT !.pull = TRUE],
               RspFlit("CompAck", 6, 0, {<<"rxdat", 1>>})>>, <<>>,
             <<DatFlit("CompData", 3, 6, {<<"txrsp", 1>>})>>),
           [txreq |-> Evicts(1) \o <<Again("Evict", 1, 1, {<<"rxrsp", 2>>})>>,
            rxrsp |-> <<RetryAck(1, 7, 1, Asked), Grant(7, 1, {}),
                        CompOf(1, 2)>>]}}

CChk == INSTANCE ChiCheckers WITH
  Channels <- FlitsAndCredits, Pulses <- FlitsAndCredits,
  Scenarios <- LegalFlows \cup WrongRequests \cup LegalSnoops \cup WrongFlits
               \cup RetryFlows \cup CreditFlows \cup ResetFlows
               \cup Departures,
  DATA_BUS_BYTES <- 8, max_clks <- 4, max_depth <- 4, Patience <- 1,
  TxnIDs <- 0 .. 3, Types <- 0 .. 2, MAX_CREDITS <- 3, Unsigned <- 16,
  Extracted <- 4096

-----------------------------------------------------------------------------
ASSUME Constants ==
  /\ Sockets!SocketConstants
  /\ Bus!BusConstants
  /\ Bus!NarrowFirst
  /\ Bus!WritesFit
  /\ Array!ArrayConstants
  /\ Port!PortConstants
  /\ Port!NoneNested

(* The variables a part does not use.                                      *)
rest_sockets ==
  << map, mapped, mmr, enable, reset, mem, irq, trans, grant, flat, dma,
     pixelInBus, pe, psumFirst, cloudFirst, weight, slice, pc, edges,
     scenario, answers, seen, toSc, toQemu, mutex, rp_pkt_event, phase,
     frames, caps, rp_pkt_id, resp, master, level, changed, wire_update,
     changes, out, resetn, resets, call, rdTransFifo, rdResponses, rHold,
     wrTransFifo, wrDataFifo, wHold, wrResponses, tr, rtList, rdDataFifo,
     wrDataList, wtList, wrRespFifo, threads, m_numReadTransactions,
     m_numWriteTransactions, memory, asked, served, pos, valid, ready,
     waited, twisted, broken, saved, m_rtList, m_wtList, m_wdataList,
     m_respList, monitor, counts, errors, m_crList, m_cdList, snoopCounts,
     acks, barriers, writes, m_allocated, m_txn, m_snpFwdList,
     m_snpStashList, m_snpList, m_reqs, m_completers, m_credits >>
rest_bus ==
  << data_buf, loaded, weights, message_count, group, driver, program, set,
     accesses, sent, done, runs, dma, pixelInBus, pe, psumFirst, cloudFirst,
     weight, slice, pc, edges, scenario, answers, seen, toSc, toQemu, mutex,
     rp_pkt_event, phase, frames, caps, rp_pkt_id, resp, master, level,
     changed, wire_update, changes, out, resetn, resets, call, rdTransFifo,
     rdResponses, rHold, wrTransFifo, wrDataFifo, wHold, wrResponses, tr,
     rtList, rdDataFifo, wrDataList, wtList, wrRespFifo, threads,
     m_numReadTransactions, m_numWriteTransactions, memory, asked, served,
     pos, valid, ready, waited, twisted, broken, saved, m_rtList, m_wtList,
     m_wdataList, m_respList, monitor, counts, errors, m_crList, m_cdList,
     snoopCounts, acks, barriers, writes, m_allocated, m_txn, m_snpFwdList,
     m_snpStashList, m_snpList, m_reqs, m_completers, m_credits >>
rest_array ==
  << data_buf, loaded, weights, message_count, group, driver, program, set,
     accesses, done, runs, map, mapped, mmr, mem, irq, trans, grant, flat,
     scenario, answers, seen, toSc, toQemu, mutex, rp_pkt_event, phase,
     frames, caps, rp_pkt_id, resp, master, level, changed, wire_update,
     changes, out, resetn, resets, call, rdTransFifo, rdResponses, rHold,
     wrTransFifo, wrDataFifo, wHold, wrResponses, tr, rtList, rdDataFifo,
     wrDataList, wtList, wrRespFifo, threads, m_numReadTransactions,
     m_numWriteTransactions, memory, asked, served, pos, valid, ready,
     waited, twisted, broken, saved, m_rtList, m_wtList, m_wdataList,
     m_respList, monitor, counts, errors, m_crList, m_cdList, snoopCounts,
     acks, barriers, writes, m_allocated, m_txn, m_snpFwdList,
     m_snpStashList, m_snpList, m_reqs, m_completers, m_credits >>
rest_port ==
  << data_buf, loaded, weights, message_count, group, driver, program, set,
     done, runs, map, mapped, mmr, enable, reset, irq, trans, grant, flat,
     dma, pixelInBus, pe, psumFirst, cloudFirst, weight, slice, pc, edges,
     resetn, resets, call, rdTransFifo, rdResponses, rHold, wrTransFifo,
     wrDataFifo, wHold, wrResponses, tr, rtList, rdDataFifo, wrDataList,
     wtList, wrRespFifo, threads, m_numReadTransactions,
     m_numWriteTransactions, memory, asked, served, pos, valid, ready,
     waited, twisted, broken, saved, m_rtList, m_wtList, m_wdataList,
     m_respList, monitor, counts, errors, m_crList, m_cdList, snoopCounts,
     acks, barriers, writes, m_allocated, m_txn, m_snpFwdList,
     m_snpStashList, m_snpList, m_reqs, m_completers, m_credits >>
rest_axi ==
  << data_buf, loaded, weights, message_count, group, driver, program, set,
     accesses, sent, done, runs, map, mapped, mmr, enable, reset, mem, irq,
     trans, grant, flat, dma, pixelInBus, pe, psumFirst, cloudFirst, weight,
     slice, pc, edges, answers, seen, toSc, toQemu, mutex, rp_pkt_event,
     phase, frames, caps, rp_pkt_id, resp, master, level, changed,
     wire_update, changes, out, pos, valid, ready, waited, twisted, broken,
     saved, m_rtList, m_wtList, m_wdataList, m_respList, monitor, counts,
     errors, m_crList, m_cdList, snoopCounts, acks, barriers, writes,
     m_allocated, m_txn, m_snpFwdList, m_snpStashList, m_snpList, m_reqs,
     m_completers, m_credits >>
rest_chk ==
  << data_buf, loaded, weights, message_count, group, driver, program, set,
     accesses, sent, done, runs, map, mapped, mmr, enable, reset, mem, irq,
     trans, grant, flat, dma, pixelInBus, pe, psumFirst, cloudFirst, weight,
     slice, pc, edges, answers, seen, toSc, toQemu, mutex, rp_pkt_event,
     phase, frames, caps, rp_pkt_id, resp, master, level, changed,
     wire_update, changes, out, call, rdTransFifo, rdResponses, rHold,
     wrTransFifo, wrDataFifo, wHold, wrResponses, tr, rtList, rdDataFifo,
     wrDataList, wtList, wrRespFifo, threads, m_numReadTransactions,
     m_numWriteTransactions, memory, asked, served, m_crList, m_cdList,
     snoopCounts, acks, barriers, writes, m_allocated, m_txn, m_snpFwdList,
     m_snpStashList, m_snpList, m_reqs, m_completers, m_credits >>
rest_achk ==
  << data_buf, loaded, weights, message_count, group, driver, program, set,
     accesses, sent, done, runs, map, mapped, mmr, enable, reset, mem, irq,
     trans, grant, flat, dma, pixelInBus, pe, psumFirst, cloudFirst, weight,
     slice, pc, edges, answers, seen, toSc, toQemu, mutex, rp_pkt_event,
     phase, frames, caps, rp_pkt_id, resp, master, level, changed,
     wire_update, changes, out, call, rdTransFifo, rdResponses, rHold,
     wrTransFifo, wrDataFifo, wHold, wrResponses, tr, rtList, rdDataFifo,
     wrDataList, wtList, wrRespFifo, threads, m_numReadTransactions,
     m_numWriteTransactions, memory, asked, served, m_wdataList, m_txn,
     m_snpFwdList, m_snpStashList, m_snpList, m_reqs, m_completers,
     m_credits >>
rest_cchk ==
  << data_buf, loaded, weights, message_count, group, driver, program, set,
     accesses, sent, done, runs, map, mapped, mmr, enable, reset, mem, irq,
     trans, grant, flat, dma, pixelInBus, pe, psumFirst, cloudFirst, weight,
     slice, pc, edges, answers, seen, toSc, toQemu, mutex, rp_pkt_event,
     phase, frames, caps, rp_pkt_id, resp, master, level, changed,
     wire_update, changes, out, call, rdTransFifo, rdResponses, rHold,
     wrTransFifo, wrDataFifo, wHold, wrResponses, tr, rtList, rdDataFifo,
     wrDataList, wtList, wrRespFifo, threads, m_numReadTransactions,
     m_numWriteTransactions, memory, asked, served, m_rtList, m_wtList,
     m_wdataList, m_respList, m_crList, m_cdList, snoopCounts, acks,
     barriers, writes, m_allocated >>

Init ==
  \/ /\ part = "sockets" /\ Sockets!Init
     /\ map = 0 /\ mapped = 0 /\ mmr = 0 /\ enable = 0 /\ reset = 0 /\ mem = 0 /\
         irq = 0 /\ trans = 0 /\ grant = 0 /\ flat = 0 /\ dma = 0 /\ pixelInBus = 0 /\
         pe = 0 /\ psumFirst = 0 /\ cloudFirst = 0 /\ weight = 0 /\ slice = 0 /\
         pc = 0 /\ edges = 0 /\ scenario = 0 /\ answers = 0 /\ seen = 0 /\ toSc = 0 /\
         toQemu = 0 /\ mutex = 0 /\ rp_pkt_event = 0 /\ phase = 0 /\ frames = 0 /\
         caps = 0 /\ rp_pkt_id = 0 /\ resp = 0 /\ master = 0 /\ level = 0 /\
         changed = 0 /\ wire_update = 0 /\ changes = 0 /\ out = 0 /\ resetn = 0 /\
         resets = 0 /\ call = 0 /\ rdTransFifo = 0 /\ rdResponses = 0 /\ rHold = 0 /\
         wrTransFifo = 0 /\ wrDataFifo = 0 /\ wHold = 0 /\ wrResponses = 0 /\
         tr = 0 /\ rtList = 0 /\ rdDataFifo = 0 /\ wrDataList = 0 /\ wtList = 0 /\
         wrRespFifo = 0 /\ threads = 0 /\ m_numReadTransactions = 0 /\
         m_numWriteTransactions = 0 /\ memory = 0 /\ asked = 0 /\ served = 0 /\
         pos = 0 /\ valid = 0 /\ ready = 0 /\ waited = 0 /\ twisted = 0 /\ broken = 0 /\
         saved = 0 /\ m_rtList = 0 /\ m_wtList = 0 /\ m_wdataList = 0 /\
         m_respList = 0 /\ monitor = 0 /\ counts = 0 /\ errors = 0 /\ m_crList = 0 /\
         m_cdList = 0 /\ snoopCounts = 0 /\ acks = 0 /\ barriers = 0 /\ writes = 0 /\
         m_allocated = 0 /\ m_txn = 0 /\ m_snpFwdList = 0 /\ m_snpStashList = 0 /\
         m_snpList = 0 /\ m_reqs = 0 /\ m_completers = 0 /\ m_credits = 0
  \/ /\ part = "bus" /\ Bus!Init
     /\ data_buf = 0 /\ loaded = 0 /\ weights = 0 /\ message_count = 0 /\
         group = 0 /\ driver = 0 /\ program = 0 /\ set = 0 /\ accesses = 0 /\
         sent = 0 /\ done = 0 /\ runs = 0 /\ dma = 0 /\ pixelInBus = 0 /\ pe = 0 /\
         psumFirst = 0 /\ cloudFirst = 0 /\ weight = 0 /\ slice = 0 /\ pc = 0 /\
         edges = 0 /\ scenario = 0 /\ answers = 0 /\ seen = 0 /\ toSc = 0 /\
         toQemu = 0 /\ mutex = 0 /\ rp_pkt_event = 0 /\ phase = 0 /\ frames = 0 /\
         caps = 0 /\ rp_pkt_id = 0 /\ resp = 0 /\ master = 0 /\ level = 0 /\
         changed = 0 /\ wire_update = 0 /\ changes = 0 /\ out = 0 /\ resetn = 0 /\
         resets = 0 /\ call = 0 /\ rdTransFifo = 0 /\ rdResponses = 0 /\ rHold = 0 /\
         wrTransFifo = 0 /\ wrDataFifo = 0 /\ wHold = 0 /\ wrResponses = 0 /\
         tr = 0 /\ rtList = 0 /\ rdDataFifo = 0 /\ wrDataList = 0 /\ wtList = 0 /\
         wrRespFifo = 0 /\ threads = 0 /\ m_numReadTransactions = 0 /\
         m_numWriteTransactions = 0 /\ memory = 0 /\ asked = 0 /\ served = 0 /\
         pos = 0 /\ valid = 0 /\ ready = 0 /\ waited = 0 /\ twisted = 0 /\ broken = 0 /\
         saved = 0 /\ m_rtList = 0 /\ m_wtList = 0 /\ m_wdataList = 0 /\
         m_respList = 0 /\ monitor = 0 /\ counts = 0 /\ errors = 0 /\ m_crList = 0 /\
         m_cdList = 0 /\ snoopCounts = 0 /\ acks = 0 /\ barriers = 0 /\ writes = 0 /\
         m_allocated = 0 /\ m_txn = 0 /\ m_snpFwdList = 0 /\ m_snpStashList = 0 /\
         m_snpList = 0 /\ m_reqs = 0 /\ m_completers = 0 /\ m_credits = 0
  \/ /\ part = "array" /\ Array!Init
     /\ data_buf = 0 /\ loaded = 0 /\ weights = 0 /\ message_count = 0 /\
         group = 0 /\ driver = 0 /\ program = 0 /\ set = 0 /\ accesses = 0 /\
         done = 0 /\ runs = 0 /\ map = 0 /\ mapped = 0 /\ mmr = 0 /\ mem = 0 /\ irq = 0 /\
         trans = 0 /\ grant = 0 /\ flat = 0 /\ scenario = 0 /\ answers = 0 /\
         seen = 0 /\ toSc = 0 /\ toQemu = 0 /\ mutex = 0 /\ rp_pkt_event = 0 /\
         phase = 0 /\ frames = 0 /\ caps = 0 /\ rp_pkt_id = 0 /\ resp = 0 /\
         master = 0 /\ level = 0 /\ changed = 0 /\ wire_update = 0 /\ changes = 0 /\
         out = 0 /\ resetn = 0 /\ resets = 0 /\ call = 0 /\ rdTransFifo = 0 /\
         rdResponses = 0 /\ rHold = 0 /\ wrTransFifo = 0 /\ wrDataFifo = 0 /\
         wHold = 0 /\ wrResponses = 0 /\ tr = 0 /\ rtList = 0 /\ rdDataFifo = 0 /\
         wrDataList = 0 /\ wtList = 0 /\ wrRespFifo = 0 /\ threads = 0 /\
         m_numReadTransactions = 0 /\ m_numWriteTransactions = 0 /\ memory = 0 /\
         asked = 0 /\ served = 0 /\ pos = 0 /\ valid = 0 /\ ready = 0 /\ waited = 0 /\
         twisted = 0 /\ broken = 0 /\ saved = 0 /\ m_rtList = 0 /\ m_wtList = 0 /\
         m_wdataList = 0 /\ m_respList = 0 /\ monitor = 0 /\ counts = 0 /\
         errors = 0 /\ m_crList = 0 /\ m_cdList = 0 /\ snoopCounts = 0 /\ acks = 0 /\
         barriers = 0 /\ writes = 0 /\ m_allocated = 0 /\ m_txn = 0 /\
         m_snpFwdList = 0 /\ m_snpStashList = 0 /\ m_snpList = 0 /\ m_reqs = 0 /\
         m_completers = 0 /\ m_credits = 0
  \/ /\ part = "port" /\ Port!Init
     /\ data_buf = 0 /\ loaded = 0 /\ weights = 0 /\ message_count = 0 /\
         group = 0 /\ driver = 0 /\ program = 0 /\ set = 0 /\ done = 0 /\ runs = 0 /\
         map = 0 /\ mapped = 0 /\ mmr = 0 /\ enable = 0 /\ reset = 0 /\ irq = 0 /\
         trans = 0 /\ grant = 0 /\ flat = 0 /\ dma = 0 /\ pixelInBus = 0 /\ pe = 0 /\
         psumFirst = 0 /\ cloudFirst = 0 /\ weight = 0 /\ slice = 0 /\ pc = 0 /\
         edges = 0 /\ resetn = 0 /\ resets = 0 /\ call = 0 /\ rdTransFifo = 0 /\
         rdResponses = 0 /\ rHold = 0 /\ wrTransFifo = 0 /\ wrDataFifo = 0 /\
         wHold = 0 /\ wrResponses = 0 /\ tr = 0 /\ rtList = 0 /\ rdDataFifo = 0 /\
         wrDataList = 0 /\ wtList = 0 /\ wrRespFifo = 0 /\ threads = 0 /\
         m_numReadTransactions = 0 /\ m_numWriteTransactions = 0 /\ memory = 0 /\
         asked = 0 /\ served = 0 /\ pos = 0 /\ valid = 0 /\ ready = 0 /\ waited = 0 /\
         twisted = 0 /\ broken = 0 /\ saved = 0 /\ m_rtList = 0 /\ m_wtList = 0 /\
         m_wdataList = 0 /\ m_respList = 0 /\ monitor = 0 /\ counts = 0 /\
         errors = 0 /\ m_crList = 0 /\ m_cdList = 0 /\ snoopCounts = 0 /\ acks = 0 /\
         barriers = 0 /\ writes = 0 /\ m_allocated = 0 /\ m_txn = 0 /\
         m_snpFwdList = 0 /\ m_snpStashList = 0 /\ m_snpList = 0 /\ m_reqs = 0 /\
         m_completers = 0 /\ m_credits = 0
  \/ /\ part = "axi" /\ Axi!Init
     /\ data_buf = 0 /\ loaded = 0 /\ weights = 0 /\ message_count = 0 /\
         group = 0 /\ driver = 0 /\ program = 0 /\ set = 0 /\ accesses = 0 /\
         sent = 0 /\ done = 0 /\ runs = 0 /\ map = 0 /\ mapped = 0 /\ mmr = 0 /\
         enable = 0 /\ reset = 0 /\ mem = 0 /\ irq = 0 /\ trans = 0 /\ grant = 0 /\
         flat = 0 /\ dma = 0 /\ pixelInBus = 0 /\ pe = 0 /\ psumFirst = 0 /\
         cloudFirst = 0 /\ weight = 0 /\ slice = 0 /\ pc = 0 /\ edges = 0 /\
         answers = 0 /\ seen = 0 /\ toSc = 0 /\ toQemu = 0 /\ mutex = 0 /\
         rp_pkt_event = 0 /\ phase = 0 /\ frames = 0 /\ caps = 0 /\ rp_pkt_id = 0 /\
         resp = 0 /\ master = 0 /\ level = 0 /\ changed = 0 /\ wire_update = 0 /\
         changes = 0 /\ out = 0 /\ pos = 0 /\ valid = 0 /\ ready = 0 /\ waited = 0 /\
         twisted = 0 /\ broken = 0 /\ saved = 0 /\ m_rtList = 0 /\ m_wtList = 0 /\
         m_wdataList = 0 /\ m_respList = 0 /\ monitor = 0 /\ counts = 0 /\
         errors = 0 /\ m_crList = 0 /\ m_cdList = 0 /\ snoopCounts = 0 /\ acks = 0 /\
         barriers = 0 /\ writes = 0 /\ m_allocated = 0 /\ m_txn = 0 /\
         m_snpFwdList = 0 /\ m_snpStashList = 0 /\ m_snpList = 0 /\ m_reqs = 0 /\
         m_completers = 0 /\ m_credits = 0
  \/ /\ part = "chk" /\ Chk!Init
     /\ data_buf = 0 /\ loaded = 0 /\ weights = 0 /\ message_count = 0 /\
         group = 0 /\ driver = 0 /\ program = 0 /\ set = 0 /\ accesses = 0 /\
         sent = 0 /\ done = 0 /\ runs = 0 /\ map = 0 /\ mapped = 0 /\ mmr = 0 /\
         enable = 0 /\ reset = 0 /\ mem = 0 /\ irq = 0 /\ trans = 0 /\ grant = 0 /\
         flat = 0 /\ dma = 0 /\ pixelInBus = 0 /\ pe = 0 /\ psumFirst = 0 /\
         cloudFirst = 0 /\ weight = 0 /\ slice = 0 /\ pc = 0 /\ edges = 0 /\
         answers = 0 /\ seen = 0 /\ toSc = 0 /\ toQemu = 0 /\ mutex = 0 /\
         rp_pkt_event = 0 /\ phase = 0 /\ frames = 0 /\ caps = 0 /\ rp_pkt_id = 0 /\
         resp = 0 /\ master = 0 /\ level = 0 /\ changed = 0 /\ wire_update = 0 /\
         changes = 0 /\ out = 0 /\ call = 0 /\ rdTransFifo = 0 /\ rdResponses = 0 /\
         rHold = 0 /\ wrTransFifo = 0 /\ wrDataFifo = 0 /\ wHold = 0 /\
         wrResponses = 0 /\ tr = 0 /\ rtList = 0 /\ rdDataFifo = 0 /\
         wrDataList = 0 /\ wtList = 0 /\ wrRespFifo = 0 /\ threads = 0 /\
         m_numReadTransactions = 0 /\ m_numWriteTransactions = 0 /\ memory = 0 /\
         asked = 0 /\ served = 0 /\ m_crList = 0 /\ m_cdList = 0 /\ snoopCounts = 0 /\
         acks = 0 /\ barriers = 0 /\ writes = 0 /\ m_allocated = 0 /\ m_txn = 0 /\
         m_snpFwdList = 0 /\ m_snpStashList = 0 /\ m_snpList = 0 /\ m_reqs = 0 /\
         m_completers = 0 /\ m_credits = 0
  \/ /\ part = "achk" /\ AChk!Init
     /\ data_buf = 0 /\ loaded = 0 /\ weights = 0 /\ message_count = 0 /\
         group = 0 /\ driver = 0 /\ program = 0 /\ set = 0 /\ accesses = 0 /\
         sent = 0 /\ done = 0 /\ runs = 0 /\ map = 0 /\ mapped = 0 /\ mmr = 0 /\
         enable = 0 /\ reset = 0 /\ mem = 0 /\ irq = 0 /\ trans = 0 /\ grant = 0 /\
         flat = 0 /\ dma = 0 /\ pixelInBus = 0 /\ pe = 0 /\ psumFirst = 0 /\
         cloudFirst = 0 /\ weight = 0 /\ slice = 0 /\ pc = 0 /\ edges = 0 /\
         answers = 0 /\ seen = 0 /\ toSc = 0 /\ toQemu = 0 /\ mutex = 0 /\
         rp_pkt_event = 0 /\ phase = 0 /\ frames = 0 /\ caps = 0 /\ rp_pkt_id = 0 /\
         resp = 0 /\ master = 0 /\ level = 0 /\ changed = 0 /\ wire_update = 0 /\
         changes = 0 /\ out = 0 /\ call = 0 /\ rdTransFifo = 0 /\ rdResponses = 0 /\
         rHold = 0 /\ wrTransFifo = 0 /\ wrDataFifo = 0 /\ wHold = 0 /\
         wrResponses = 0 /\ tr = 0 /\ rtList = 0 /\ rdDataFifo = 0 /\
         wrDataList = 0 /\ wtList = 0 /\ wrRespFifo = 0 /\ threads = 0 /\
         m_numReadTransactions = 0 /\ m_numWriteTransactions = 0 /\ memory = 0 /\
         asked = 0 /\ served = 0 /\ m_wdataList = 0 /\ m_txn = 0 /\
         m_snpFwdList = 0 /\ m_snpStashList = 0 /\ m_snpList = 0 /\ m_reqs = 0 /\
         m_completers = 0 /\ m_credits = 0
  \/ /\ part = "cchk" /\ CChk!Init
     /\ data_buf = 0 /\ loaded = 0 /\ weights = 0 /\ message_count = 0 /\
         group = 0 /\ driver = 0 /\ program = 0 /\ set = 0 /\ accesses = 0 /\
         sent = 0 /\ done = 0 /\ runs = 0 /\ map = 0 /\ mapped = 0 /\ mmr = 0 /\
         enable = 0 /\ reset = 0 /\ mem = 0 /\ irq = 0 /\ trans = 0 /\ grant = 0 /\
         flat = 0 /\ dma = 0 /\ pixelInBus = 0 /\ pe = 0 /\ psumFirst = 0 /\
         cloudFirst = 0 /\ weight = 0 /\ slice = 0 /\ pc = 0 /\ edges = 0 /\
         answers = 0 /\ seen = 0 /\ toSc = 0 /\ toQemu = 0 /\ mutex = 0 /\
         rp_pkt_event = 0 /\ phase = 0 /\ frames = 0 /\ caps = 0 /\ rp_pkt_id = 0 /\
         resp = 0 /\ master = 0 /\ level = 0 /\ changed = 0 /\ wire_update = 0 /\
         changes = 0 /\ out = 0 /\ call = 0 /\ rdTransFifo = 0 /\ rdResponses = 0 /\
         rHold = 0 /\ wrTransFifo = 0 /\ wrDataFifo = 0 /\ wHold = 0 /\
         wrResponses = 0 /\ tr = 0 /\ rtList = 0 /\ rdDataFifo = 0 /\
         wrDataList = 0 /\ wtList = 0 /\ wrRespFifo = 0 /\ threads = 0 /\
         m_numReadTransactions = 0 /\ m_numWriteTransactions = 0 /\ memory = 0 /\
         asked = 0 /\ served = 0 /\ m_rtList = 0 /\ m_wtList = 0 /\ m_wdataList = 0 /\
         m_respList = 0 /\ m_crList = 0 /\ m_cdList = 0 /\ snoopCounts = 0 /\
         acks = 0 /\ barriers = 0 /\ writes = 0 /\ m_allocated = 0

Next ==
  /\ UNCHANGED part
  /\ \/ part = "sockets" /\ Sockets!Next /\ UNCHANGED rest_sockets
     \/ part = "bus" /\ Bus!Next /\ UNCHANGED rest_bus
     \/ part = "array" /\ Array!Next /\ UNCHANGED rest_array
     \/ part = "port" /\ Port!Next /\ UNCHANGED rest_port
     \/ part = "axi" /\ Axi!Next /\ UNCHANGED rest_axi
     \/ part = "chk" /\ Chk!Next /\ UNCHANGED rest_chk
     \/ part = "achk" /\ AChk!Next /\ UNCHANGED rest_achk
     \/ part = "cchk" /\ CChk!Next /\ UNCHANGED rest_cchk

vars == << part, data_buf, loaded, weights, message_count, group, driver,
           program, set, accesses, sent, done, runs, map, mapped, mmr,
           enable, reset, mem, irq, trans, grant, flat, dma, pixelInBus, pe,
           psumFirst, cloudFirst, weight, slice, pc, edges, scenario,
           answers, seen, toSc, toQemu, mutex, rp_pkt_event, phase, frames,
           caps, rp_pkt_id, resp, master, level, changed, wire_update,
           changes, out, resetn, resets, call, rdTransFifo, rdResponses,
           rHold, wrTransFifo, wrDataFifo, wHold, wrResponses, tr, rtList,
           rdDataFifo, wrDataList, wtList, wrRespFifo, threads,
           m_numReadTransactions, m_numWriteTransactions, memory, asked,
           served, pos, valid, ready, waited, twisted, broken, saved,
           m_rtList, m_wtList, m_wdataList, m_respList, monitor, counts,
           errors, m_crList, m_cdList, snoopCounts, acks, barriers, writes,
           m_allocated, m_txn, m_snpFwdList, m_snpStashList, m_snpList,
           m_reqs, m_completers, m_credits >>

Spec == Init /\ [][Next]_vars

-----------------------------------------------------------------------------
(* The properties of the parts, under their names.                         *)

(* Type correctness of each part (SocketWrappers, PlatformBus,             *)
(* SystolicArray, RemotePort).                                             *)
TypeOK ==
  /\ part = "sockets" => Sockets!TypeOK
  /\ part = "bus" => Bus!TypeOK
  /\ part = "array" => Array!TypeOK
  /\ part = "port" => Port!TypeOK

(* The DMAs of the descriptor sockets receive whole descriptors only.      *)
DescriptorsArriveWhole == part = "sockets" => Sockets!DescriptorsArriveWhole

(* The first weights of a group are its weights for ever.                  *)
FirstWeightsStay ==
  [][part = "sockets" /\ group # Unset => group' = group]_group

(* The CHI checkers judge traffic as their comments say it has to be: a    *)
(* prefetch has AllowRetry deasserted (checker-chi.h:391), and requests    *)
(* that were told to retry are kept until all their credits have come and  *)
(* gone, for no credit is bound to one of them (checker-chi.h:2278).       *)
ChecksAsCommented ==
  part = "cchk" /\ scenario \in Departures => CChk!ReportsExactly

(* The bus delivers every access to the narrowest window that holds it,    *)
(* the ends of the windows included; the RAM behind it is a flat memory;   *)
(* the signals of the processor follow its registers.                      *)
BusDelivers ==
  /\ part = "bus" =>
       /\ Bus!ReachesOwner /\ Bus!FlatMemory /\ Bus!SignalsFollowRegisters

(* The stream of the array is the convolution of its image, and what an    *)
(* earlier image left in the array comes out before the results.           *)
ArrayConvolves ==
  /\ part = "array" =>
       /\ Array!StreamIsConvolution /\ Array!StaleSumsFlushed

(* The remote port: both ends agree where packets end, every response      *)
(* finds the slot of the thread that asked, QEMU gets one right answer to  *)
(* each request that asks for one, and nobody waits when the socket is     *)
(* empty.                                                                  *)
RemotePortAnswers ==
  /\ part = "port" =>
       /\ Port!RemotePortAnswers

(* Between TLM and AXI: the bridge holds the pointer of a transaction as   *)
(* long as its caller waits and no longer, no transaction is forgotten,    *)
(* the right bytes arrive, in order where order counts, and both ends      *)
(* agree on bursts and answers, whenever the reset falls.                  *)
BridgesDeliver ==
  /\ part = "axi" =>
       /\ Axi!PointersAlive /\ Axi!NothingForgotten /\ Axi!BytesRight /\ Axi!InOrder /\ Axi!EndsAgree

(* On the traffic of the parts chk, achk and cchk, of which the protocol   *)
(* says what is wrong with it, the protocol checkers report that and       *)
(* nothing else, whatever the delays; and two checkers that follow the     *)
(* same transactions in different ways agree. Traffic that a checker       *)
(* judges otherwise than the protocol is not among it; two examples are    *)
(* the Departures, of which ChecksAsCommented speaks.                      *)
CheckersExact ==
  /\ part = "chk" =>
       /\ Chk!ReportsExactly /\ Chk!CheckersAgree
  /\ part = "achk" =>
       /\ AChk!ReportsExactly /\ AChk!AceCheckersAgree
  /\ part = "cchk" /\ scenario \notin Departures =>
       /\ CChk!ReportsExactly /\ CChk!ChiCheckersAgree

=============================================================================
