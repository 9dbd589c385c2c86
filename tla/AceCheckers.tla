---------------------------- MODULE AceCheckers ----------------------------
(***************************************************************************)
(* The protocol checkers of ACE and ACE-Lite: whether reads and writes have *)
(* the snoop, domain and cache attributes that belong together, whether    *)
(* answers may say what they say, whether what may not be under way        *)
(* together is not, and whether a master that is snooped answers as its    *)
(* transactions so far suggest.                                            *)
(***************************************************************************)
EXTENDS CheckedChannels, FiniteSetsExt

CONSTANT LineBytes    (* m_cfg.get_cacheline_sz.                           *)

VARIABLES
  m_rtList,               (* checker_ace_rd_tx.                            *)
  m_wtList, m_respList,   (* checker_ace_wr_tx.                            *)
  m_crList, m_cdList,     (* checker_ace_snoop_channels.                   *)
  snoopCounts,            (* checker_ace_handshakes: m_cr and m_cd.        *)
  acks,                   (* AckCheck of rack and of wack.                 *)
  barriers,               (* checker_ace_barrier: m_rList and m_wList.     *)
  writes, m_allocated     (* checker_ace_cd_data: its m_wtList; its other
                             lists are those of the other checkers.        *)

lists == <<m_rtList, m_wtList, m_respList, m_crList, m_cdList, snoopCounts,
           acks, barriers, writes, m_allocated>>
vars == <<channels, monitors, lists, errors>>

Forget ==
  [rt |-> <<>>, wt |-> <<>>, resp |-> <<>>, cr |-> <<>>, cd |-> <<>>,
   counts |-> [m_cr |-> 0, m_cd |-> 0],
   acks |-> [a \in {"rack", "wack"} |-> [m_expect_ack |-> 0, m_ack_wait |-> 0]],
   barriers |-> [r |-> <<>>, w |-> <<>>], writes |-> <<>>, allocated |-> {}]

Init ==
  /\ InitChannels
  /\ m_rtList = <<>> /\ m_wtList = <<>> /\ m_respList = <<>>
  /\ m_crList = <<>> /\ m_cdList = <<>> /\ snoopCounts = Forget.counts
  /\ acks = Forget.acks /\ barriers = Forget.barriers
  /\ writes = <<>> /\ m_allocated = {}

ACE == scenario.version = "ACE"
-----------------------------------------------------------------------------
(* ace_helpers. ReadNoSnoop, ReadOnce and the snoop of a barrier are the   *)
(* same code, and so are WriteNoSnoop and WriteUnique.                     *)

Shareable(t) == t.domain \in {"Inner", "Outer"}

LineReads == {"ReadShared", "ReadClean", "ReadNotSharedDirty", "ReadUnique",
              "CleanUnique", "MakeUnique"}
Maintenance == {"CleanShared", "CleanInvalid", "MakeInvalid"}
DVMs == {"DVMComplete", "DVMMessage"}

IsDVM(t) == t.snoop \in DVMs /\ Shareable(t)
IsNormal(t) == ~t.bar /\ ~IsDVM(t)

HasSingleRdDataTransfer(t) ==
  \/ t.snoop \in Maintenance \cup {"CleanUnique", "MakeUnique"} /\ Shareable(t)
  \/ t.bar \/ IsDVM(t)

(* The mutant lets a read that invalidates nobody take over dirty data.    *)
MutantPassDirty(t) == ~Shareable(t) \/ t.snoop \notin {"CleanUnique", "MakeUnique"}

AllowPassDirty(t) ==
  /\ t.snoop = "ReadOnce" => t.domain \notin {"NonSharable", "System"}
  /\ t.snoop \in {"ReadOnce", "ReadClean", "CleanUnique", "MakeUnique"} =>
       ~Shareable(t)
  /\ t.snoop \in Maintenance => t.domain = "System"

IsWrite(t, snoop) ==
  /\ ~t.bar /\ t.snoop = snoop
  /\ Shareable(t) \/ (snoop \in {"WriteBack", "WriteClean"}
                      /\ t.domain = "NonSharable")

HasData(t) == ~t.bar /\ ~IsWrite(t, "Evict")
-----------------------------------------------------------------------------
(* checker_ace_rd_tx.                                                      *)

(* The mutant allows the maintenance operations in the system domain.      *)
MutantARSnoop(t) ==
  IF t.bar THEN t.snoop = "ReadOnce"
  ELSE \/ t.snoop \in {"ReadOnce"} \cup Maintenance
       \/ ACE /\ t.snoop \in LineReads \cup DVMs /\ Shareable(t)

CheckARSnoop(t) ==
  IF t.bar THEN t.snoop = "ReadOnce"
  ELSE \/ t.snoop = "ReadOnce"
       \/ ACE /\ t.snoop \in LineReads \cup DVMs /\ Shareable(t)
       \/ t.snoop \in Maintenance /\ t.domain # "System"

CheckARCache(t) ==
  IF t.domain = "System" THEN "cacheable" \notin t.cache
  ELSE "modifiable" \in t.cache

(* What a transaction that moves a whole line looks like.                  *)
WholeLine(t) ==
  /\ t.size = DATA_BUS_BYTES /\ t.size * t.beats = LineBytes
  /\ "modifiable" \in t.cache
  /\ t.burst = "INCR" => t.addr % LineBytes = 0
  /\ t.burst = "WRAP" => t.addr % DATA_BUS_BYTES = 0
  /\ t.burst # "FIXED"

CheckBurstAddr(t) ==
  /\ ~t.bar
  /\ \/ t.snoop \in LineReads /\ Shareable(t)
     \/ t.snoop \in Maintenance /\ t.domain # "System"
  => WholeLine(t)

CheckBarrierSignals(t) ==
  /\ t.addr = 0 /\ t.beats = 1 /\ t.burst = "INCR"
  /\ t.snoop \in {"ReadOnce", "WriteUnique"}
  /\ t.cache = {"modifiable"} /\ ~t.excl

CheckDVMSignals(t) ==
  /\ t.snoop = "DVMComplete" => t.addr = 0
  /\ t.beats = 1 /\ t.size = DATA_BUS_BYTES /\ t.burst = "INCR"
  /\ t.cache = {"modifiable"} /\ ~t.excl

(* Whether one of those that are under way has the identifier of t.        *)
Ongoing(t, list, Kind(_)) == \E i \in 1 .. Len(list) : Kind(list[i])
                                                      /\ list[i].id = t.id

(* The mutant looks only at normal transactions.                           *)
MutantIdsClash(t, list) ==
  ~IsNormal(t) /\ Ongoing(t, list, IsNormal)

(* Barriers, DVM transactions and the others use identifiers of their own. *)
IdsClash(t, list) ==
  LET IsBarrier(x) == x.bar
  IN CASE t.bar -> Ongoing(t, list, IsNormal) \/ Ongoing(t, list, IsDVM)
       [] ~t.bar /\ IsDVM(t) ->
            Ongoing(t, list, IsNormal) \/ Ongoing(t, list, IsBarrier)
       [] OTHER -> Ongoing(t, list, IsBarrier) \/ Ongoing(t, list, IsDVM)

check_arsignals(t) ==
  When(~CheckARSnoop(t), "arsnoop") \cup When(~CheckARCache(t), "arcache")
  \cup When(~CheckBurstAddr(t), "ar line")
  \cup When(t.bar /\ ~CheckBarrierSignals(t), "read barrier")
  \cup When(~t.bar /\ IsDVM(t) /\ ~CheckDVMSignals(t), "DVM")
  \cup When(IdsClash(t, m_rtList), "ar ids")

AllowsExclusive(t) ==
  t.snoop \in {"ReadOnce", "ReadClean", "ReadShared", "CleanUnique"}

AllowsIsShared(t) ==
  t.snoop \notin {"ReadOnce", "ReadUnique", "CleanUnique", "CleanInvalid",
                  "MakeUnique", "MakeInvalid"}

(* What is wrong with response x for the transaction t. The answer to a    *)
(* barrier is plain, and so is that to a DVM sync, hint or completion      *)
(* (`sync').                                                               *)
check_ace_resp(t, x) ==
  LET plain == x.resp = "OKAY" /\ ~x.shared /\ ~x.dirty
      first == t.left = t.beats
  IN When(~(x.resp = "OKAY" \/ (x.resp = "EXOKAY" /\ t.excl))
          \/ (t.excl /\ ~AllowsExclusive(t)), "rresp")
     \cup When(~plain /\ (t.bar \/ (ACE /\ IsDVM(t) /\ t.sync)), "rresp")
     \cup When(first /\ HasSingleRdDataTransfer(t) /\ ~x.last, "rresp")
     \cup When(ACE /\ x.shared /\ ~AllowsIsShared(t), "shared")
     \cup When(ACE /\ x.dirty /\ ~AllowPassDirty(t), "dirty")
     \cup When(ACE /\ x.dirty /\ x.shared /\ Shareable(t)
               /\ t.snoop = "ReadNotSharedDirty", "dirty")
     \cup When(ACE /\ IsDVM(t) /\ (x.shared \/ x.dirty), "rresp")
     \cup When(ACE /\ ~first /\ <<x.shared, x.dirty>> # t.rresp, "rresp changes")

rd_check ==
  LET room == Len(m_rtList) < max_depth
      ar == Item("ar")   x == Item("r")
      list == IF Transfers("ar") /\ room
                THEN Append(m_rtList, ar @@ [left |-> ar.beats, rresp |-> <<>>])
                ELSE m_rtList
      new == IF ~Transfers("ar") THEN {}
             ELSE IF room THEN check_arsignals(ar) ELSE {"rd depth"}
      i == FirstWith(list, x.id)   t == list[i]
      single == HasSingleRdDataTransfer(t)
      left == IF single THEN t.left ELSE t.left - 1
      rresp == IF t.left = t.beats THEN <<x.shared, x.dirty>> ELSE t.rresp
  IN IF ~Transfers("r") THEN [list |-> list, done |-> Nothing, errors |-> new]
     ELSE IF i = 0
       THEN [list |-> list, done |-> Nothing, errors |-> new \cup {"rd id"}]
     ELSE [list |-> IF x.last THEN Without(list, i)
                    ELSE [list EXCEPT ![i].left = left, ![i].rresp = rresp],
           done |-> IF x.last THEN t ELSE Nothing,
           errors |-> new \cup check_ace_resp(t, x)
                      \cup When(x.last # (single \/ left = 0), "rd order")]
-----------------------------------------------------------------------------
(* checker_ace_wr_tx.                                                      *)

CheckAWSnoop(t) ==
  IF t.bar THEN t.snoop = "WriteUnique"
  ELSE \/ t.snoop = "WriteUnique"
       \/ t.snoop = "WriteLineUnique" /\ Shareable(t)
       \/ ACE /\ t.snoop = "Evict" /\ Shareable(t)
       \/ ACE /\ t.snoop \in {"WriteClean", "WriteBack"} /\ t.domain # "System"

CheckCachelineSzTx(t) ==
  ~t.bar /\ t.snoop \in {"WriteLineUnique", "Evict"} /\ Shareable(t) =>
    WholeLine(t) /\ ~t.excl

CheckWriteUnique(t) ==
  IsWrite(t, "WriteUnique") =>
    t.burst \in {"INCR", "WRAP"} /\ "modifiable" \in t.cache /\ ~t.excl

(* A wrapping burst is compared by awlen, one less than its beats.         *)
CheckWriteBackWriteClean(t) ==
  IsWrite(t, "WriteBack") \/ IsWrite(t, "WriteClean") =>
    /\ t.size = DATA_BUS_BYTES /\ t.size * t.beats <= LineBytes
    /\ "modifiable" \in t.cache /\ ~t.excl
    /\ t.burst = "INCR" =>
         /\ t.addr % DATA_BUS_BYTES = 0
         /\ Align(t.addr, LineBytes)
            = Align(t.addr + t.size * t.beats - 1, LineBytes)
    /\ t.burst = "WRAP" =>
         t.addr % DATA_BUS_BYTES = 0 /\ t.beats - 1 \in {2, 4, 8, 16}
    /\ t.burst # "FIXED"

(* WriteUnique and WriteLineUnique wait for WriteBack and WriteClean. The  *)
(* other way round, what is looked for is a WriteClean.                    *)
WritesClash(t, list) ==
  LET Back(x) == IsWrite(x, "WriteBack")   Clean(x) == IsWrite(x, "WriteClean")
      any(P(_)) == \E i \in 1 .. Len(list) : P(list[i])
  IN CASE IsWrite(t, "WriteUnique") \/ IsWrite(t, "WriteLineUnique") ->
            any(Back) \/ any(Clean)
       [] Back(t) \/ Clean(t) -> any(Clean)
       [] OTHER -> FALSE

check_awsignals(t) ==
  LET list == m_wtList \o m_respList
      IsBarrier(x) == x.bar   IsOther(x) == ~x.bar
  IN When(~CheckAWSnoop(t), "awsnoop") \cup When(~CheckARCache(t), "awcache")
     \cup When(~CheckCachelineSzTx(t) \/ ~CheckWriteUnique(t)
               \/ ~CheckWriteBackWriteClean(t), "aw line")
     \cup When(WritesClash(t, list), "aw clash")
     \cup When(t.bar /\ ~CheckBarrierSignals(t), "write barrier")
     \cup When(IF t.bar THEN Ongoing(t, list, IsOther)
               ELSE Ongoing(t, list, IsBarrier), "aw ids")

check_bresp(t, x) ==
  IF t.excl
    THEN x.resp \in {"OKAY", "EXOKAY"} /\ t.snoop = "WriteUnique" /\ ~Shareable(t)
    ELSE x.resp = "OKAY"

(* Those at the head of the list that carry no data are moved on.          *)
MutantMoveOn(wt, resp) == [wt |-> wt, resp |-> resp]

MoveOn(wt, resp) ==
  LET ends == {i \in 1 .. Len(wt) : \A j \in 1 .. i : ~HasData(wt[j])}
      n == Cardinality(ends)
  IN [wt |-> SubSeq(wt, n + 1, Len(wt)), resp |-> resp \o SubSeq(wt, 1, n)]

wr_check ==
  LET room == Len(m_wtList) < max_depth
      aw == Item("aw")   w == Item("w")   b == Item("b")
      new == IF ~Transfers("aw") THEN {}
             ELSE IF room THEN check_awsignals(aw) ELSE {"wr depth"}
      enters == Transfers("aw") /\ room
      direct == m_wtList = <<>> /\ ~HasData(aw)
      wt == IF enters /\ ~direct THEN Append(m_wtList, aw @@ [beat |-> 1])
            ELSE m_wtList
      resp == IF enters /\ direct THEN Append(m_respList, aw) ELSE m_respList
      t == wt[1]
      gaps == scenario.gaps /\ ~IsWrite(t, "WriteLineUnique")
      data == When(~CheckWstrb(t, w.strb, gaps), "wstrb")
              \cup When(w.last # (t.beat + 1 > t.beats), "wr burst")
      s == IF ~Transfers("w")
             THEN [wt |-> wt, resp |-> resp, errors |-> new]
           ELSE IF wt = <<>>
             THEN [wt |-> wt, resp |-> resp, errors |-> new \cup {"no address"}]
           ELSE IF ~w.last
             THEN [wt |-> [wt EXCEPT ![1].beat = @ + 1], resp |-> resp,
                   errors |-> new \cup data]
           ELSE LET full == Len(resp) >= max_depth
                    m == MoveOn(Tail(wt), IF full THEN resp ELSE Append(resp, t))
                IN [wt |-> m.wt, resp |-> m.resp,
                    errors |-> new \cup data \cup When(full, "wr depth")]
      i == FirstWith(s.resp, b.id)
  IN IF ~Transfers("b") THEN s
     ELSE IF i = 0 THEN [s EXCEPT !.errors = @ \cup {"wr id"}]
     ELSE [s EXCEPT !.resp = Without(@, i),
                    !.errors = @ \cup When(~check_bresp(s.resp[i], b), "bresp")]
-----------------------------------------------------------------------------
(* checker_ace_snoop_channels.                                             *)

check_acsnoop(t) == t.snoop \in {"ReadOnce"} \cup (LineReads \ {"CleanUnique",
                    "MakeUnique"}) \cup Maintenance \cup DVMs

check_crresp(t, x) ==
  /\ x.dirty => x.data
  /\ x.shared => t.snoop \notin {"ReadUnique", "CleanInvalid", "MakeInvalid"}

ace_snoop_ch_check ==
  LET room == Len(m_crList) + Len(m_cdList) < max_depth
      ac == Item("ac")   x == Item("cr")
      asked == IF Transfers("ac") /\ room THEN Append(m_crList, ac) ELSE m_crList
      new == IF ~Transfers("ac") THEN {}
             ELSE When(~room, "ac depth") \cup
                  When(room /\ ~(check_acsnoop(ac)
                                 /\ ac.addr % DATA_BUS_BYTES = 0), "ac")
      answers == Transfers("cr") /\ asked # <<>>
      cd == IF answers /\ x.data
              THEN Append(m_cdList, LineBytes \div DATA_BUS_BYTES) ELSE m_cdList
      beat == Transfers("cd") /\ cd # <<>>
      over == beat /\ cd[1] = 1
  IN [cr |-> IF answers THEN Tail(asked) ELSE asked,
      answered |-> IF answers THEN asked[1] ELSE Nothing,
      cd |-> IF over THEN Tail(cd) ELSE IF beat THEN [cd EXCEPT ![1] = @ - 1]
             ELSE cd,
      errors |-> new
        \cup When(Transfers("cr") /\ ~answers, "cr")
        \cup When(answers /\ ~check_crresp(asked[1], x), "cr")
        \cup When(Transfers("cd") /\ ~beat, "cd")
        \cup When(over /\ ~Item("cd").last, "cd")]

(* ace_handshakes_check.                                                   *)
SnoopCounts ==
  [m_cr |-> snoopCounts.m_cr + (IF Transfers("ac") THEN 1 ELSE 0)
                             - (IF Transfers("cr") THEN 1 ELSE 0),
   m_cd |-> snoopCounts.m_cd + (IF Transfers("cr") /\ Item("cr").data
                                  THEN LineBytes \div DATA_BUS_BYTES ELSE 0)
                             - (IF Transfers("cd") THEN 1 ELSE 0)]

(* AckCheck: an acknowledgement is expected from the clock after the last  *)
(* transfer.                                                               *)
AckFor == [rack |-> Transfers("r") /\ Item("r").last, wack |-> Transfers("b")]

(* The mutant expects it in the same clock.                                *)
MutantExpecting(a) == acks[a].m_expect_ack > 0 \/ AckFor[a]

Expecting(a) == acks[a].m_expect_ack > 0

Acked(a) ==
  LET more == IF AckFor[a] THEN 1 ELSE 0
      was == acks[a]
  IN CASE ~ACE -> was
       [] valid[a] /\ Expecting(a) ->
            [m_expect_ack |-> was.m_expect_ack + more - 1, m_ack_wait |-> 0]
       [] ~valid[a] /\ Expecting(a) ->
            [m_expect_ack |-> was.m_expect_ack + more,
             m_ack_wait |-> was.m_ack_wait + 1]
       [] OTHER -> [was EXCEPT !.m_expect_ack = @ + more]

AckErrors(a) ==
  When(ACE /\ valid[a] /\ ~Expecting(a), "ack")
  \cup When(~valid[a] /\ Acked(a).m_ack_wait = max_clks
            /\ acks[a].m_ack_wait # max_clks, "no ack")
-----------------------------------------------------------------------------
(* checker_ace_barrier: a read barrier and a write barrier make a pair.    *)

(* The mutant pairs barriers of different identifiers.                     *)
MutantIsPair(t, u) == t.domain = u.domain

IsPair(t, u) == t.id = u.id /\ t.domain = u.domain

Pairs(here, there, c) ==
  LET t == Item(c)
  IN IF ~(Transfers(c) /\ t.bar) THEN [h |-> here, t |-> there, errors |-> {}]
     ELSE IF Len(here) >= max_depth
       THEN [h |-> here, t |-> there, errors |-> {"barrier"}]
     ELSE IF there = <<>>
       THEN [h |-> Append(here, t), t |-> there, errors |-> {}]
     ELSE [h |-> here, t |-> Tail(there),
           errors |-> When(~IsPair(there[1], t), "barrier")]

ace_barrier_check ==
  LET r == Pairs(barriers.r, barriers.w, "ar")
      w == Pairs(r.t, r.h, "aw")
  IN [r |-> w.t, w |-> w.h, errors |-> r.errors \cup w.errors]
-----------------------------------------------------------------------------
(* checker_ace_cd_data: the lines the master seems to hold.                *)

Line(t) == <<t.addr, t.ns>>

(* process_rchannel, process_bchannel and process_crchannel, in the order  *)
(* of ace_cd_data_check.                                                   *)
AfterRead(t, held) ==
  IF t = Nothing THEN held
  ELSE IF t.snoop \in LineReads THEN held \cup {Line(t)}
  ELSE IF t.snoop \in {"CleanInvalid", "MakeInvalid"} THEN held \ {Line(t)}
  ELSE held

AfterWrite(t, held) ==
  IF t # Nothing /\ t.snoop \in {"WriteBack", "Evict"} THEN held \ {Line(t)}
  ELSE held

(* The mutant keeps the line whatever the snoop was answered.              *)
MutantAfterSnoop(t, held) == held

AfterSnoop(t, held) ==
  IF t # Nothing /\ ~Item("cr").shared THEN held \ {Line(t)} ELSE held

ace_cd_data_check ==
  LET added == IF Transfers("aw") /\ Len(writes) < max_depth
                 THEN Append(writes, Item("aw")) ELSE writes
      i == IF Transfers("b") THEN FirstWith(added, Item("b").id) ELSE 0
      done == IF i = 0 THEN Nothing ELSE added[i]
      held == AfterWrite(done, AfterRead(rd_check.done, m_allocated))
      snooped == ace_snoop_ch_check.answered
      data == Item("cr").data
      wrong == /\ snooped # Nothing
               /\ \/ /\ Line(snooped) \in held /\ ~data
                     /\ snooped.snoop \in {"ReadOnce", "ReadShared", "ReadClean",
                                           "ReadNotSharedDirty", "ReadUnique"}
                  \/ Line(snooped) \notin held /\ data
  IN [writes |-> IF i = 0 THEN added ELSE Without(added, i),
      held |-> AfterSnoop(snooped, held), errors |-> When(wrong, "cd data")]
-----------------------------------------------------------------------------
(* Steps.                                                                  *)

Awaited ==
  {c \in {"r", "aw", "w", "b"} : Expected(c)}
  \cup (IF snoopCounts.m_cr > 0 THEN {"cr"} ELSE {})
  \cup (IF snoopCounts.m_cd > 0 THEN {"cd"} ELSE {})

posedge ==
  /\ Edge(Awaited)
  /\ m_rtList' = rd_check.list
  /\ m_wtList' = wr_check.wt /\ m_respList' = wr_check.resp
  /\ m_crList' = ace_snoop_ch_check.cr /\ m_cdList' = ace_snoop_ch_check.cd
  /\ snoopCounts' = SnoopCounts
  /\ acks' = [a \in {"rack", "wack"} |-> Acked(a)]
  /\ barriers' = [r |-> ace_barrier_check.r, w |-> ace_barrier_check.w]
  /\ writes' = ace_cd_data_check.writes
  /\ m_allocated' = ace_cd_data_check.held
  /\ counts' = axi_handshakes_check(
                 IF HasSingleRdDataTransfer(Item("ar")) THEN 1
                 ELSE Item("ar").beats, HasData(Item("aw")))
  /\ errors' = errors \cup EdgeErrors(Awaited) \cup rd_check.errors
               \cup wr_check.errors \cup ace_snoop_ch_check.errors
               \cup AckErrors("rack") \cup AckErrors("wack")
               \cup ace_barrier_check.errors \cup ace_cd_data_check.errors

reset_falls ==
  /\ Falls
  /\ m_rtList' = <<>> /\ m_wtList' = <<>> /\ m_respList' = <<>>
  /\ m_crList' = <<>> /\ m_cdList' = <<>> /\ snoopCounts' = Forget.counts
  /\ acks' = Forget.acks /\ barriers' = Forget.barriers
  /\ writes' = <<>> /\ m_allocated' = {}

reset_released == Released /\ UNCHANGED lists

Next == posedge \/ reset_falls \/ reset_released

Spec == Init /\ [][Next]_vars
-----------------------------------------------------------------------------
(* Properties.                                                             *)

(* The checkers that count and those that keep lists agree, and when legal *)
(* traffic is over only the lines that the master still holds are kept.    *)
AceCheckersAgree ==
  scenario.wrong = {} /\ scenario.fault = <<>> =>
    /\ counts.m_b >= Len(m_respList)
    /\ snoopCounts.m_cr = Len(m_crList)
    /\ snoopCounts.m_cd = FoldLeft(+, 0, m_cdList)
    /\ \A a \in {"rack", "wack"} : acks[a].m_expect_ack >= 0
    /\ Over /\ resetn =>
         /\ m_rtList = <<>> /\ m_wtList = <<>> /\ m_respList = <<>>
         /\ m_crList = <<>> /\ m_cdList = <<>> /\ barriers = Forget.barriers
         /\ counts = NoCounts /\ m_allocated = scenario.holds
=============================================================================
